--------------------------- MODULE ScreensProofs ---------------------------
(***************************************************************************)
(* Proofs about Screens, for any number of controllers, requests, early    *)
(* keys and failing calls.                                                 *)
(*                                                                         *)
(* The invariant IndInv of Screens has three parts.  Structure holds       *)
(* whatever is typed: every controller has the form of its kind, no two    *)
(* are the same, parents are below their forms while nothing is broken.    *)
(* Patient adds what holds while no key came early, Steady what holds when *)
(* nothing failed either.  MainOnce, which is for those who type up to     *)
(* three keys early, is inductive on top of Structure.                     *)
(*                                                                         *)
(* A step is either a key, whose whole effect on the controller on top and *)
(* on the queue is Effect(s, rs), or a request or resize, which initialises*)
(* the controller on top of some stack s with the requests rs left.  Each  *)
(* action is shown to be one of the two, and each part of the invariant to *)
(* be kept by both.                                                        *)
(***************************************************************************)
EXTENDS Screens, SequenceTheorems, TLAPS

\* A new controller gets an identity that nobody has or refers to.
LEMMA FreshIsFree ==
    ASSUME Free # {}
    PROVE  /\ Fresh \in Id /\ Fresh \notin Referred
           /\ \A c \in ToSet(stack) \cup Coming : c.id # Fresh /\ c.parent # Fresh
           /\ \A r \in ToSet(requests) : r.by # Fresh
<1>1. Fresh \in Id /\ Fresh \notin Referred
  BY DEF Free, Fresh
<1>2. QED
  BY <1>1 DEF Referred

LEMMA TopIsLast ==
    ASSUME stack \in Seq(Controller), stack # <<>>
    PROVE  /\ Len(stack) \in Nat \ {0}
           /\ Top = stack[Len(stack)] /\ Top \in Controller /\ Top \in ToSet(stack)
           /\ Top.id \in Id /\ Top.left \in 0..3
<1>1. /\ Len(stack) \in Nat \ {0}
      /\ Top = stack[Len(stack)] /\ Top \in Controller
  BY DEF Top, Last
<1>2. Top \in ToSet(stack)
  BY <1>1 DEF ToSet
<1>3. Top.id \in Id /\ Top.left \in 0..3
  BY <1>1 DEF Controller
<1>4. QED
  BY <1>1, <1>2, <1>3

\* Who gets a key is on the stack: the controller on top, or its parent once it is
\* done.
LEMMA ActorIsThere ==
    ASSUME Structure, Running
    PROVE  /\ Actor \in ToSet(stack) /\ Actor \in Controller /\ Actor.id \in Id
           /\ \E i \in DOMAIN stack : stack[i] = Actor
           /\ ~IsDone(Top) => Actor = Top
<1>1. /\ stack \in Seq(Controller) /\ stack # <<>> /\ broken = None
      /\ Len(stack) \in Nat \ {0}
      /\ Top = stack[Len(stack)] /\ Top \in Controller /\ Top \in ToSet(stack)
  BY TopIsLast DEF Structure, TypeOK, Running
<1>2. CASE ~(IsDone(Top) /\ Top.parent # None)
  BY <1>1, <1>2 DEF Actor, Controller
<1>3. CASE IsDone(Top) /\ Top.parent # None
  <2>1. \E j \in 1..(Len(stack) - 1) : stack[j].id = Top.parent
    BY <1>1, <1>3 DEF Structure, ParentsBelow
  <2>2. \E c \in ToSet(stack) : c.id = Top.parent
    BY <1>1, <2>1 DEF ToSet
  <2>3. Actor \in ToSet(stack)
    BY <1>3, <2>2 DEF Actor
  <2>4. \E i \in DOMAIN stack : stack[i] = Actor
    BY <2>3 DEF ToSet
  <2>5. Actor \in Controller
    BY <1>1, <2>4
  <2>6. QED
    BY <1>3, <2>3, <2>4, <2>5 DEF Controller
<1>4. QED
  BY <1>2, <1>3

\* A new screen has the form of its kind and no parent.
LEMMA MadeScreen ==
    ASSUME Free # {}, NEW kind \in {"create", "new", "import", "export", "generate", "main",
                                    "help", "error"}
    PROVE  /\ Make(kind) \in Controller
           /\ Make(kind).id = Fresh /\ Make(kind).kind = kind /\ Make(kind).parent = None
           /\ Shape(Make(kind)) /\ ~IsDone(Make(kind)) /\ (kind = "new" => Make(kind).left = 1)
BY FreshIsFree, IdAssumption DEF Make, MakeForm, Controller, Shape, IsDone, Kinds

\* A new form has the parent it was given.
LEMMA MadeForm ==
    ASSUME Free # {}, NEW kind \in {"newForm", "mainForm"}, NEW p \in Id, p # Fresh,
           NEW f \in {"fields", "blank"}, kind = "newForm" => f = "fields",
           NEW l \in {0, 1}, f = "fields" => l = 1
    PROVE  /\ MakeForm(kind, f, l, p) \in Controller
           /\ MakeForm(kind, f, l, p).id = Fresh /\ MakeForm(kind, f, l, p).kind = kind
           /\ MakeForm(kind, f, l, p).parent = p
           /\ Shape(MakeForm(kind, f, l, p)) /\ ~IsDone(MakeForm(kind, f, l, p))
BY FreshIsFree, IdAssumption DEF MakeForm, Controller, Shape, IsDone, Kinds

LEMMA Retouched ==
    ASSUME stack \in Seq(Controller), stack # <<>>, NEW c \in Controller
    PROVE  LET s == [stack EXCEPT ![Len(stack)] = c] IN
           /\ s \in Seq(Controller) /\ s # <<>> /\ Len(s) = Len(stack)
           /\ s[Len(stack)] = c /\ \A i \in 1..(Len(stack) - 1) : s[i] = stack[i]
OBVIOUS

-----------------------------------------------------------------------------
(* What a key does. *)

\* The controller on top may change its form, and nothing else.
Touched(s) ==
    /\ s \in Seq(Controller) /\ Len(s) = Len(stack)
    /\ \A i \in 1..(Len(stack) - 1) : s[i] = stack[i]
    /\ LET c == s[Len(stack)] IN
       /\ c.id = Top.id /\ c.kind = Top.kind /\ c.parent = Top.parent
       /\ Shape(c) /\ (c.kind = "new" => c.left = 0)

\* What a key may ask for.
AskedScreen(r) ==
    LET c == r.screen IN
    /\ c.id = Fresh /\ Shape(c) /\ ~IsDone(c) /\ c.kind \notin {"open", "newForm"}
    /\ c.kind = "new" => c.left = 1
    /\ r.op = "set" => c.parent = None
    /\ r.op = "push" => c.parent \in {None, Actor.id} /\ ~Creates(c)

Asked(rs) ==
    /\ rs \in Seq(Ask) /\ Len(rs) <= 2
    /\ \A k \in 1..Len(rs) : IsOpening(rs[k]) => AskedScreen(rs[k])
    /\ Len(rs) = 1 => /\ rs[1].by \in {Top.id, Actor.id}
                      /\ IsOpening(rs[1]) /\ Creates(rs[1].screen) => Creates(Top)
    /\ Len(rs) = 2 => /\ Top.kind = "newForm"
                      /\ rs[1].op = "pop" /\ rs[1].by = Top.id
                      /\ rs[2].by = Top.parent
                      /\ \/ rs[2].op = "pop"
                         \/ rs[2].op = "set" /\ rs[2].screen.kind \in {"generate", "error"}

\* A key that finishes a form asks that it goes, unless something throws and the
\* form has a parent; the menu of OpenKeychainScreen goes for a request.
Finishes(s, rs) ==
    LET c == s[Len(stack)]
        Goes == stack' = s /\ rs # <<>> /\ rs[1].op \in {"pop", "set"}
    IN
    /\ IsDone(c) /\ ~IsDone(Top) => /\ thrown' = thrown => Goes
                                    /\ Top.parent = None => Goes /\ Len(rs) = 1
    /\ c.kind = "open" /\ c.form = "none" /\ Top.form # "none" =>
          \E k \in 1..Len(rs) : rs[k].op \in {"push", "quit"}

\* The keychain comes to exist by a key that replaces its screen, or throws.
Exists(s, rs) ==
    /\ exists' \in BOOLEAN /\ (exists => exists')
    /\ exists' # exists =>
          \/ thrown' # thrown
          \/ /\ Creates(Actor) /\ stack' = s
             /\ Len(rs) = 1 /\ rs[1].op = "set" /\ rs[1].screen.kind = "main"

Effect(s, rs) ==
    /\ Key /\ UNCHANGED broken
    /\ Touched(s) /\ Asked(rs) /\ Finishes(s, rs) /\ Exists(s, rs)
    /\ requests' = requests \o rs
    /\ \/ stack' = s
       \/ /\ stack' = Append(s, Make("error"))
          /\ \A k \in 1..Len(rs) : ~IsOpening(rs[k])
          /\ thrown' = thrown => rs = <<>>
    /\ thrown' \in {thrown, thrown + 1} /\ thrown' \in 0..MaxThrown

\* The controllers and requests after a key.
LEMMA UpToTwo ==
    ASSUME NEW q \in Nat, q <= 2, NEW k \in 1..q, NEW l \in 1..q, k # l
    PROVE  q = 2 /\ (k = 1 \/ l = 1)
OBVIOUS

LEMMA TwoOrFewer ==
    ASSUME NEW q \in Nat, q <= 2 PROVE q = 2 \/ q <= 1
OBVIOUS

LEMMA AtMostOne ==
    ASSUME NEW q \in Nat \ {0}, q <= 1 PROVE q = 1
OBVIOUS

LEMMA NoneIsEmpty ==
    ASSUME NEW S, NEW s \in Seq(S), Len(s) = 0 PROVE s = <<>>
OBVIOUS

LEMMA BelowTheTop ==
    ASSUME NEW n \in Nat, NEW i \in 1..(n - 1) PROVE i \in 1..n /\ n # 1
OBVIOUS

LEMMA AfterKey ==
    ASSUME Structure, NEW s, NEW rs, Effect(s, rs)
    PROVE  /\ stack' \in Seq(Controller) /\ requests' \in Seq(Ask)
           /\ Len(stack) > 0 /\ Len(stack') \in {Len(stack), Len(stack) + 1}
           /\ \A i \in 1..(Len(stack) - 1) : stack'[i] = stack[i]
           /\ stack'[Len(stack)] = s[Len(stack)]
           /\ Len(stack') = Len(stack) + 1 =>
                 /\ stack'[Len(stack) + 1] = Make("error")
                 /\ \A k \in 1..Len(rs) : ~IsOpening(rs[k])
           /\ rs \in Seq(Ask) /\ Len(rs) \in Nat /\ Len(rs) <= 2
           /\ Len(requests') = Len(requests) + Len(rs)
           /\ \A k \in 1..Len(requests) : requests'[k] = requests[k]
           /\ \A k \in 1..Len(rs) : requests'[Len(requests) + k] = rs[k]
<1>1. /\ stack \in Seq(Controller) /\ stack # <<>> /\ requests \in Seq(Ask) /\ Free # {}
      /\ Make("error") \in Controller
  BY MadeScreen DEF Structure, TypeOK, Effect, Key, Running
<1>2. /\ s \in Seq(Controller) /\ Len(s) = Len(stack)
      /\ \A i \in 1..(Len(stack) - 1) : s[i] = stack[i]
  BY DEF Effect, Touched
<1>3. rs \in Seq(Ask) /\ Len(rs) \in Nat /\ Len(rs) <= 2 /\ requests' = requests \o rs
  <2>1. rs \in Seq(Ask) /\ requests' = requests \o rs
    BY DEF Effect, Asked
  <2>2. Len(rs) <= 2
    BY DEF Effect, Asked
  <2>3. Len(rs) \in Nat /\ Len(rs) <= 2
    BY <2>1, <2>2
  <2>4. QED
    BY <2>1, <2>3
<1>4. \/ stack' = s
      \/ stack' = Append(s, Make("error")) /\ \A k \in 1..Len(rs) : ~IsOpening(rs[k])
  BY DEF Effect
<1>5. /\ requests' \in Seq(Ask) /\ Len(requests') = Len(requests) + Len(rs) /\ rs \in Seq(Ask)
      /\ Len(rs) \in Nat /\ Len(rs) <= 2
      /\ \A k \in 1..Len(requests) : requests'[k] = requests[k]
      /\ \A k \in 1..Len(rs) : requests'[Len(requests) + k] = rs[k]
  BY <1>1, <1>3
<1>6. CASE stack' = s
  BY <1>1, <1>2, <1>5, <1>6
<1>7. CASE stack' = Append(s, Make("error")) /\ \A k \in 1..Len(rs) : ~IsOpening(rs[k])
  BY <1>1, <1>2, <1>5, <1>7
<1>8. QED
  BY <1>4, <1>6, <1>7

\* A key changes no identity, kind or parent.
LEMMA KeyKeepsControllers ==
    ASSUME Structure, NEW s, NEW rs, Effect(s, rs)
    PROVE  \A i \in 1..Len(stack) : /\ stack'[i].id = stack[i].id
                                    /\ stack'[i].kind = stack[i].kind
                                    /\ stack'[i].parent = stack[i].parent
<1>1. stack \in Seq(Controller) /\ stack # <<>> /\ Top = stack[Len(stack)]
  BY TopIsLast DEF Structure, TypeOK, Effect, Key, Running
<1>2. stack'[Len(stack)].id = Top.id /\ stack'[Len(stack)].kind = Top.kind
      /\ stack'[Len(stack)].parent = Top.parent
  BY AfterKey DEF Effect, Touched
<1>3. QED
  BY <1>1, <1>2, AfterKey

\* What any key may do keeps the structure.
LEMMA KeyKeepsStructure ==
    ASSUME Structure, NEW s, NEW rs, Effect(s, rs)
    PROVE  Structure'
<1> DEFINE n == Len(stack)
           m == Len(requests)
           grown == Len(stack') = Len(stack) + 1
<1>1. /\ stack \in Seq(Controller) /\ stack # <<>> /\ requests \in Seq(Ask)
      /\ Free # {} /\ broken = None
  BY DEF Structure, TypeOK, Effect, Key, Running
<1>2. /\ n \in Nat \ {0} /\ Top = stack[n] /\ Top \in Controller
      /\ m \in Nat
  BY <1>1, TopIsLast
<1>3. /\ Make("error") \in Controller /\ Make("error").id = Fresh
      /\ Make("error").kind = "error" /\ Make("error").parent = None
      /\ Shape(Make("error")) /\ ~IsDone(Make("error"))
  BY <1>1, MadeScreen
<1>4. /\ stack' \in Seq(Controller) /\ requests' \in Seq(Ask)
      /\ Len(stack') \in {n, n + 1}
      /\ grown => stack'[n + 1] = Make("error") /\ \A k \in 1..Len(rs) : ~IsOpening(rs[k])
      /\ Len(rs) \in Nat /\ Len(rs) <= 2 /\ Len(requests') = m + Len(rs)
      /\ \A k \in 1..m : requests'[k] = requests[k]
      /\ \A k \in 1..Len(rs) : requests'[m + k] = rs[k]
      /\ \A i \in 1..(n - 1) : stack'[i] = stack[i]
      /\ stack'[n] = s[n]
  BY AfterKey
<1>5. \A i \in 1..n : /\ stack'[i].id = stack[i].id
                      /\ stack'[i].kind = stack[i].kind
                      /\ stack'[i].parent = stack[i].parent
  BY KeyKeepsControllers
<1>6. /\ \A i \in 1..n : stack[i].id # Fresh
      /\ \A k \in 1..m : IsOpening(requests[k]) => requests[k].screen.id # Fresh
  BY <1>1, <1>2, FreshIsFree DEF ToSet, Coming
<1>7. TypeOK'
  <2>1. ASSUME NEW i \in DOMAIN stack', NEW j \in DOMAIN stack', i # j
        PROVE  stack'[i].id # stack'[j].id
    <3>1. \A k, l \in 1..n : k # l => stack[k].id # stack[l].id
      BY <1>1, <1>2 DEF Structure, TypeOK
    <3>2. CASE i \in 1..n /\ j \in 1..n
      BY <1>5, <2>1, <3>1, <3>2
    <3>3. CASE i = n + 1 /\ j \in 1..n
      BY <1>2, <1>3, <1>4, <1>5, <1>6, <3>3
    <3>4. CASE i \in 1..n /\ j = n + 1
      BY <1>2, <1>3, <1>4, <1>5, <1>6, <3>4
    <3>5. QED
      BY <1>2, <1>4, <2>1, <3>2, <3>3, <3>4
  <2>2. rushed' \in 0..MaxRushed /\ resized' = resized
    BY <1>1, BoundAssumption DEF Effect, Key, Structure, TypeOK
  <2>3. exists' \in BOOLEAN /\ thrown' \in 0..MaxThrown /\ broken' = broken
    BY DEF Effect, Exists
  <2>4. QED
    BY <1>4, <2>1, <2>2, <2>3 DEF Structure, TypeOK
<1>8. Initialised'
  <2> SUFFICES ASSUME NEW i \in DOMAIN stack'
               PROVE  /\ Shape(stack'[i])
                      /\ stack'[i].kind = "new" => stack'[i].left = 0
                      /\ stack'[i].kind = "open" => i = 1
    BY DEF Initialised, Shape
  <2>1. CASE i < n
    <3>1. i \in 1..(n - 1)
      BY <1>2, <1>4, <2>1
    <3>2. i \in DOMAIN stack /\ stack'[i] = stack[i]
      <4>1. stack'[i] = stack[i]
        BY <1>4, <3>1
      <4>2. i \in 1..n
        BY <1>2, <3>1, BelowTheTop
      <4>3. QED
        BY <1>1, <4>1, <4>2
    <3>3. QED
      BY <3>2 DEF Structure, Initialised
  <2>2. CASE i = n
    BY <1>2, <1>4, <2>2 DEF Structure, Initialised, Effect, Touched
  <2>3. CASE i = n + 1
    BY <1>2, <1>3, <1>4, <2>3
  <2>4. QED
    BY <1>2, <1>4, <2>1, <2>2, <2>3
<1>9. \A k \in DOMAIN requests' :
         \/ k \in 1..m /\ requests'[k] = requests[k]
         \/ /\ k > m /\ requests'[k] = rs[k - m] /\ k - m \in 1..Len(rs)
            /\ IsOpening(requests'[k]) => AskedScreen(requests'[k]) /\ ~grown
  <2>1. ASSUME NEW k \in 1..Len(rs), IsOpening(rs[k]) PROVE AskedScreen(rs[k]) /\ ~grown
    BY <1>2, <1>4, <2>1 DEF Effect, Asked
  <2>2. ASSUME NEW k \in DOMAIN requests', k \notin 1..m
        PROVE  k > m /\ k - m \in 1..Len(rs) /\ requests'[k] = rs[k - m]
    <3>1. k > m /\ k - m \in 1..Len(rs) /\ k = m + (k - m)
      BY <1>2, <1>4, <2>2
    <3>2. QED
      BY <1>4, <3>1
  <2>3. QED
    BY <1>4, <2>1, <2>2
<1>10. Uninitialised'
  <2> SUFFICES ASSUME NEW k \in DOMAIN requests', IsOpening(requests'[k])
               PROVE  LET c == requests'[k].screen IN
                      /\ Shape(c) /\ ~IsDone(c) /\ c.kind # "open"
                      /\ c.kind = "new" => c.left = 1
                      /\ requests'[k].op = "set" => c.parent = None
    BY DEF Uninitialised, IsOpening, Shape, IsDone
  <2>1. CASE requests'[k] = requests[k] /\ k \in 1..m
    BY <1>2, <2>1 DEF Structure, Uninitialised
  <2>2. CASE AskedScreen(requests'[k])
    BY <2>2 DEF AskedScreen
  <2>3. QED
    BY <1>9, <2>1, <2>2
<1>11. \A k, l \in 1..Len(rs) : IsOpening(rs[k]) /\ IsOpening(rs[l]) => k = l
  <2>1. Len(rs) = 2 => ~IsOpening(rs[1])
    BY DEF Effect, Asked, IsOpening
  <2>2. Len(rs) \in Nat /\ Len(rs) <= 2
    BY <1>4
  <2>3. QED
    BY <2>1, <2>2, UpToTwo
<1>12. Distinct'
  <2>1. ASSUME NEW k \in DOMAIN requests', NEW i \in DOMAIN stack', IsOpening(requests'[k])
        PROVE  requests'[k].screen.id # stack'[i].id
    <3>1. CASE requests'[k] = requests[k] /\ k \in 1..m
      <4>1. CASE i \in 1..n
        BY <1>1, <1>2, <1>5, <2>1, <3>1, <4>1 DEF Structure, Distinct
      <4>2. CASE i = n + 1
        BY <1>2, <1>3, <1>4, <1>6, <2>1, <3>1, <4>2
      <4>3. QED
        BY <1>2, <1>4, <4>1, <4>2
    <3>2. CASE AskedScreen(requests'[k]) /\ ~grown
      BY <1>2, <1>4, <1>5, <1>6, <3>2 DEF AskedScreen
    <3>3. QED
      BY <1>9, <2>1, <3>1, <3>2
  <2>2. ASSUME NEW k \in DOMAIN requests', NEW l \in DOMAIN requests', k # l,
               IsOpening(requests'[k]), IsOpening(requests'[l])
        PROVE  requests'[k].screen.id # requests'[l].screen.id
    <3>1. CASE k \in 1..m /\ l \in 1..m
      BY <1>2, <1>4, <2>2, <3>1 DEF Structure, Distinct
    <3>2. CASE k \in 1..m /\ l > m
      <4>1. requests'[k] = requests[k] /\ requests[k].screen.id # Fresh
        BY <1>4, <1>6, <2>2, <3>2
      <4>2. AskedScreen(requests'[l])
        BY <1>2, <1>9, <2>2, <3>2
      <4>3. QED
        BY <4>1, <4>2 DEF AskedScreen
    <3>3. CASE k > m /\ l \in 1..m
      <4>1. requests'[l] = requests[l] /\ requests[l].screen.id # Fresh
        BY <1>4, <1>6, <2>2, <3>3
      <4>2. AskedScreen(requests'[k])
        BY <1>2, <1>9, <2>2, <3>3
      <4>3. QED
        BY <4>1, <4>2 DEF AskedScreen
    <3>4. CASE k > m /\ l > m
      BY <1>2, <1>4, <1>9, <1>11, <2>2, <3>4
    <3>5. QED
      BY <1>9, <3>1, <3>2, <3>3, <3>4
  <2>3. QED
    BY <2>1, <2>2 DEF Distinct, IsOpening
<1>13. ParentsBelow'
  <2> SUFFICES ASSUME NEW i \in DOMAIN stack', stack'[i].parent # None
               PROVE  \E j \in 1..(i - 1) : stack'[j].id = stack'[i].parent
    BY DEF ParentsBelow
  <2>1. i \in 1..n
    BY <1>2, <1>3, <1>4
  <2>2. PICK j \in 1..(i - 1) : stack[j].id = stack[i].parent
    BY <1>1, <1>2, <1>5, <2>1 DEF Structure, ParentsBelow
  <2>3. QED
    BY <1>2, <1>5, <2>1, <2>2
<1>14. MenuComesBack'
  <2> SUFFICES ASSUME stack' # <<>>, Top'.kind = "open", Top'.form = "none"
               PROVE  \E k \in DOMAIN requests' : requests'[k].op \in {"push", "quit"}
    BY DEF MenuComesBack
  <2>1. Top' = stack'[Len(stack')]
    BY DEF Top, Last
  <2>2. Len(stack') = n /\ Top' = s[n]
    BY <1>2, <1>3, <1>4, <2>1
  <2>3. CASE Top.form = "none"
    <3>1. Top.kind = "open"
      BY <1>2, <1>4, <1>5, <2>2
    <3>2. PICK k \in 1..m : requests[k].op \in {"push", "quit"}
      BY <1>1, <1>2, <2>3, <3>1 DEF Structure, MenuComesBack
    <3>3. k \in DOMAIN requests' /\ requests'[k] = requests[k]
      BY <1>2, <1>4, <3>2
    <3>4. QED
      BY <3>2, <3>3
  <2>4. CASE Top.form # "none"
    <3>1. PICK k \in 1..Len(rs) : rs[k].op \in {"push", "quit"}
      BY <2>2, <2>4 DEF Effect, Finishes
    <3>2. m + k \in DOMAIN requests' /\ requests'[m + k] = rs[k]
      BY <1>2, <1>4, <3>1
    <3>3. QED
      BY <3>1, <3>2
  <2>5. QED
    BY <2>3, <2>4
<1>15. QED
  BY <1>1, <1>2, <1>4, <1>7, <1>8, <1>10, <1>12, <1>13, <1>14 DEF Structure

-----------------------------------------------------------------------------
(* Each key has such an effect. *)

\* What is known when a key is handled.
LEMMA AtKey ==
    ASSUME Structure, Key
    PROVE  /\ Free # {} /\ stack \in Seq(Controller) /\ stack # <<>> /\ requests \in Seq(Ask)
           /\ Len(stack) \in Nat \ {0}
           /\ Top = stack[Len(stack)] /\ Top \in Controller /\ Top.id \in Id /\ Top.left \in 0..3
           /\ Shape(Top) /\ (Top.kind = "new" => Top.left = 0)
           /\ Actor \in Controller /\ Actor.id \in Id /\ Actor.id # Fresh /\ Top.id # Fresh
           /\ Actor # Top => IsDone(Top)
<1>1. /\ Free # {} /\ Running /\ stack \in Seq(Controller) /\ stack # <<>> /\ requests \in Seq(Ask)
  BY DEF Key, Running, Structure, TypeOK
<1>2. /\ Len(stack) \in Nat \ {0}
      /\ Top = stack[Len(stack)] /\ Top \in Controller /\ Top.id \in Id /\ Top.left \in 0..3
      /\ Top \in ToSet(stack)
  BY <1>1, TopIsLast
<1>3. Shape(Top) /\ (Top.kind = "new" => Top.left = 0)
  BY <1>1, <1>2 DEF Structure, Initialised
<1>4. /\ Actor \in Controller /\ Actor.id \in Id /\ Actor \in ToSet(stack)
      /\ Actor # Top => IsDone(Top)
  BY <1>1, ActorIsThere
<1>5. Actor.id # Fresh /\ Top.id # Fresh
  BY <1>1, <1>2, <1>4, FreshIsFree
<1>6. QED
  BY <1>1, <1>2, <1>3, <1>4, <1>5

LEMMA Untouched ==
    ASSUME Structure, Key, NEW rs
    PROVE  Touched(stack) /\ Finishes(stack, rs)
BY AtKey DEF Touched, Finishes

LEMMA TouchTop ==
    ASSUME Structure, Key, NEW c \in Controller,
           c.id = Top.id, c.kind = Top.kind, c.parent = Top.parent, Shape(c),
           c.kind = "new" => c.left = 0
    PROVE  LET s == [stack EXCEPT ![Len(stack)] = c]
           IN  Touched(s) /\ s[Len(stack)] = c /\ Len(s) = Len(stack)
BY AtKey, Retouched DEF Touched

LEMMA AskNothing == Asked(<<>>)
BY DEF Asked

LEMMA AskOne ==
    ASSUME NEW r \in Ask, r.by \in {Top.id, Actor.id},
           IsOpening(r) => AskedScreen(r) /\ (Creates(r.screen) => Creates(Top))
    PROVE  Asked(<<r>>) /\ <<r>>[1] = r
<1> DEFINE rs == <<r>>
<1>1. rs \in Seq(Ask) /\ Len(rs) = 1 /\ rs[1] = r
  OBVIOUS
<1> HIDE DEF rs
<1>2. Asked(rs)
  BY <1>1 DEF Asked
<1>3. QED
  BY <1>1, <1>2 DEF rs

LEMMA AskTwo ==
    ASSUME NEW r \in Ask, NEW q \in Ask, Top.kind = "newForm",
           r.op = "pop", r.by = Top.id, q.by = Top.parent,
           \/ q.op = "pop"
           \/ q.op = "set" /\ q.screen.kind \in {"generate", "error"} /\ AskedScreen(q)
    PROVE  Asked(<<r, q>>)
<1> DEFINE rs == <<r, q>>
<1>1. rs \in Seq(Ask) /\ Len(rs) = 2 /\ rs[1] = r /\ rs[2] = q
  OBVIOUS
<1> HIDE DEF rs
<1>2. \A k \in 1..Len(rs) : k = 1 \/ k = 2
  BY <1>1
<1>3. ~IsOpening(rs[1]) /\ (IsOpening(rs[2]) => AskedScreen(rs[2]))
  BY <1>1 DEF IsOpening
<1>4. Asked(rs)
  BY <1>1, <1>2, <1>3 DEF Asked
<1>5. QED
  BY <1>4 DEF rs

LEMMA Throwing ==
    ASSUME Structure, UNCHANGED thrown \/ Fails
    PROVE  thrown' \in {thrown, thrown + 1} /\ thrown' \in 0..MaxThrown
           /\ (Fails => thrown' # thrown)
BY BoundAssumption DEF Structure, TypeOK, Fails

LEMMA SameKeychain ==
    ASSUME Structure, UNCHANGED exists, NEW s, NEW rs
    PROVE  Exists(s, rs)
BY DEF Structure, TypeOK, Exists

\* A pop or quit may be asked for by whoever has the key, and so may the opening
\* of a screen made for it.
LEMMA Asking ==
    ASSUME Structure, Key, NEW op \in {"pop", "quit"}, NEW by \in {Top.id, Actor.id}
    PROVE  Asks(op, by) \in Ask /\ Asked(<<Asks(op, by)>>)
<1>1. /\ Asks(op, by) \in Ask /\ Asks(op, by).by = by /\ ~IsOpening(Asks(op, by))
  BY AtKey DEF Asks, Ask, IsOpening
<1>2. QED
  BY <1>1, AskOne

LEMMA Opening ==
    ASSUME Structure, Key, NEW op \in {"push", "set"}, NEW by \in {Top.id, Actor.id},
           NEW c \in Controller, AskedScreen(Opens(op, by, c)), Creates(c) => Creates(Top)
    PROVE  Opens(op, by, c) \in Ask /\ Asked(<<Opens(op, by, c)>>)
<1>1. /\ Opens(op, by, c) \in Ask /\ Opens(op, by, c).by = by /\ Opens(op, by, c).screen = c
  BY AtKey DEF Opens, Ask
<1>2. QED
  BY <1>1, AskOne

LEMMA MadeAsked ==
    ASSUME Structure, Key, NEW op \in {"push", "set"}, NEW by,
           NEW kind \in {"create", "new", "import", "export", "generate", "main", "help", "error"},
           op = "push" => kind \notin {"create", "new", "import", "generate"}
    PROVE  AskedScreen(Opens(op, by, Make(kind)))
BY AtKey, MadeScreen DEF AskedScreen, Opens, Creates

\* A key that only asks.
LEMMA OnlyAsks ==
    ASSUME Structure, Key, NEW rs, Asked(rs), requests' = requests \o rs,
           UNCHANGED <<stack, exists, broken, thrown>>
    PROVE  Effect(stack, rs)
BY Untouched, Throwing, SameKeychain DEF Effect

\* A key that is answered by an error screen.
LEMMA OnlyFails ==
    ASSUME Structure, Key, stack' = Covered(stack), UNCHANGED <<requests, broken>>,
           exists' \in BOOLEAN, exists => exists', UNCHANGED thrown \/ Fails,
           exists' # exists => Fails
    PROVE  Effect(stack, <<>>)
<1>1. requests' = requests \o <<>>
  BY AtKey
<1>2. stack' = Append(stack, Make("error"))
  BY DEF Covered
<1>3. Exists(stack, <<>>)
  BY Throwing DEF Exists, Structure, TypeOK
<1>4. QED
  BY <1>1, <1>2, <1>3, Untouched, AskNothing, Throwing DEF Effect

LEMMA DismissEffect ==
    ASSUME Structure, Dismiss PROVE \E s, rs : Effect(s, rs)
<1>1. Key /\ requests' = requests \o <<Asks("pop", Actor.id)>>
      /\ UNCHANGED <<stack, exists, broken, thrown>>
  BY DEF Dismiss, Request
<1>2. Effect(stack, <<Asks("pop", Actor.id)>>)
  BY <1>1, Asking, OnlyAsks
<1>3. QED
  BY <1>2

LEMMA ContinueEffect ==
    ASSUME Structure, Continue PROVE \E s, rs : Effect(s, rs)
<1>1. Key /\ Actor.kind = "generate" /\ UNCHANGED broken
  BY DEF Continue, KeyTo
<1>2. CASE \/ exists /\ stack' = Covered(stack) /\ UNCHANGED <<requests, exists, thrown>>
           \/ /\ ~exists /\ Fails /\ exists' \in BOOLEAN
              /\ stack' = Covered(stack) /\ UNCHANGED requests
  BY <1>1, <1>2, OnlyFails DEF Structure, TypeOK
<1>3. CASE /\ ~exists /\ Request(<<Opens("set", Top.id, Make("main"))>>)
           /\ exists' = TRUE /\ UNCHANGED <<stack, thrown>>
  <2> DEFINE r == Opens("set", Top.id, Make("main"))
             rs == <<r>>
  <2>1. /\ requests' = requests \o rs /\ exists' = TRUE /\ UNCHANGED <<stack, thrown>>
    BY <1>3 DEF Request
  <2>2. Asked(rs) /\ r.op = "set" /\ r.screen.kind = "main"
    BY <1>1, AtKey, MadeScreen, MadeAsked, Opening DEF Opens, Creates
  <2>3. Len(rs) = 1 /\ rs[1] = r
    OBVIOUS
  <2> HIDE DEF rs, r
  <2>4. Exists(stack, rs)
    BY <1>1, <1>3, <2>1, <2>2, <2>3 DEF Exists, Creates
  <2>5. Effect(stack, rs)
    BY <1>1, <2>1, <2>2, <2>4, Untouched, Throwing DEF Effect
  <2>6. QED
    BY <2>5
<1>4. QED
  BY <1>2, <1>3 DEF Continue

LEMMA UseMainEffect ==
    ASSUME Structure, UseMain PROVE \E s, rs : Effect(s, rs)
<1>1. Key /\ UNCHANGED <<exists, broken>>
  BY DEF UseMain, KeyTo
<1>2. CASE Fails /\ stack' = Covered(stack) /\ UNCHANGED requests
  BY <1>1, <1>2, OnlyFails DEF Structure, TypeOK
<1>3. CASE Request(<<Asks("pop", Actor.id)>>) /\ UNCHANGED <<stack, thrown>>
  BY <1>1, <1>3, Asking, OnlyAsks DEF Request
<1>4. ASSUME NEW screen \in {MakeForm("mainForm", "fields", 1, Actor.id),
                             MakeForm("mainForm", "blank", 0, Actor.id), Make("help")},
             Request(<<Opens("push", Actor.id, screen)>>), UNCHANGED <<stack, thrown>>
      PROVE  \E s, rs : Effect(s, rs)
  <2>1. /\ screen \in Controller /\ AskedScreen(Opens("push", Actor.id, screen))
        /\ ~Creates(screen)
    BY <1>1, AtKey, MadeScreen, MadeForm DEF AskedScreen, Opens, Creates
  <2>2. Asked(<<Opens("push", Actor.id, screen)>>)
    BY <1>1, <2>1, Opening
  <2>3. QED
    BY <1>1, <1>4, <2>2, OnlyAsks DEF Request
<1>5. QED
  BY <1>2, <1>3, <1>4 DEF UseMain

LEMMA ChooseCreateEffect ==
    ASSUME Structure, ChooseCreate PROVE \E s, rs : Effect(s, rs)
<1>1. Key /\ Top.kind = "create" /\ UNCHANGED <<stack, exists, broken, thrown>>
  BY DEF ChooseCreate, KeyIn
<1>2. CASE Request(<<Asks("quit", Top.id)>>)
  BY <1>1, <1>2, Asking, OnlyAsks DEF Request
<1>3. ASSUME NEW kind \in {"new", "import"}, Request(<<Opens("set", Top.id, Make(kind))>>)
      PROVE  \E s, rs : Effect(s, rs)
  <2>1. Asked(<<Opens("set", Top.id, Make(kind))>>)
    BY <1>1, AtKey, MadeScreen, MadeAsked, Opening DEF Creates
  <2>2. QED
    BY <1>1, <1>3, <2>1, OnlyAsks DEF Request
<1>4. QED
  BY <1>2, <1>3 DEF ChooseCreate

\* The form on top goes on to another field, or is done.
LEMMA Fill ==
    ASSUME Structure, Key, Top.form = "fields", NEW l \in 0..3
    PROVE  LET s == [stack EXCEPT ![Len(stack)].left = l] IN
           /\ Touched(s) /\ s[Len(stack)].form = "fields" /\ s[Len(stack)].left = l
           /\ s[Len(stack)].kind = Top.kind
<1> DEFINE c == [Top EXCEPT !.left = l]
<1>1. /\ c \in Controller
      /\ c.id = Top.id /\ c.kind = Top.kind /\ c.parent = Top.parent
      /\ c.form = "fields" /\ c.left = l
  BY AtKey DEF Controller
<1>2. Shape(c) /\ c.kind # "new"
  BY <1>1, AtKey DEF Shape
<1>3. [stack EXCEPT ![Len(stack)].left = l] = [stack EXCEPT ![Len(stack)] = c]
  BY AtKey DEF Controller
<1> HIDE DEF c
<1>4. QED
  BY <1>1, <1>2, <1>3, TouchTop

LEMMA AdvanceEffect ==
    ASSUME Structure, Advance PROVE \E s, rs : Effect(s, rs)
<1> DEFINE l == Top.left - 1
           s == [stack EXCEPT ![Len(stack)].left = l]
<1>1. /\ Key /\ Top.form = "fields" /\ Top.left > 1
      /\ UNCHANGED <<requests, exists, broken, thrown>>
  BY DEF Advance
<1>2. l \in 0..3 /\ l > 0 /\ stack' = s
  <2>1. Top = stack[Len(stack)] /\ Top.left \in 0..3
    BY <1>1, AtKey
  <2>2. stack' = [stack EXCEPT ![Len(stack)].left = stack[Len(stack)].left - 1]
    BY DEF Advance
  <2>3. QED
    BY <1>1, <2>1, <2>2
<1>3. requests' = requests \o <<>>
  BY <1>1, AtKey
<1>4. Touched(s) /\ s[Len(stack)].left = l /\ s[Len(stack)].form = "fields"
  BY <1>1, <1>2, Fill
<1> HIDE DEF l, s
<1>5. Finishes(s, <<>>)
  BY <1>2, <1>4 DEF Finishes, IsDone
<1>6. Effect(s, <<>>)
  BY <1>1, <1>2, <1>3, <1>4, <1>5, AskNothing, SameKeychain, Throwing DEF Effect
<1>7. QED
  BY <1>6

\* A form that is done asks for its end.
LEMMA Finishing ==
    ASSUME Structure, Key, Top.form = "fields", NEW r \in Ask, Asked(<<r>>),
           r.op \in {"pop", "set"}, stack' = Finished, requests' = requests \o <<r>>,
           UNCHANGED broken, UNCHANGED thrown \/ Fails, Exists(Finished, <<r>>)
    PROVE  Effect(Finished, <<r>>)
<1>1. Touched(Finished) /\ Finished[Len(stack)].form = "fields"
  BY Fill DEF Finished
<1>2. Len(<<r>>) = 1 /\ <<r>>[1] = r /\ <<r>> # <<>>
  OBVIOUS
<1>3. Finishes(Finished, <<r>>)
  BY <1>1, <1>2 DEF Finishes
<1>4. QED
  BY <1>1, <1>3, Throwing DEF Effect

LEMMA ErrorAsked ==
    ASSUME Structure, Key
    PROVE  /\ SetError(Top.id) \in Ask /\ SetError(Top.id).op = "set"
           /\ Asked(<<SetError(Top.id)>>)
<1>1. SetError(Top.id) = Opens("set", Top.id, Make("error"))
  BY DEF SetError
<1>2. AskedScreen(Opens("set", Top.id, Make("error"))) /\ Make("error") \in Controller
      /\ ~Creates(Make("error"))
  BY AtKey, MadeScreen, MadeAsked DEF Creates
<1>3. QED
  BY <1>1, <1>2, Opening DEF Opens

LEMMA FinishNewEffect ==
    ASSUME Structure, FinishNew PROVE \E s, rs : Effect(s, rs)
<1>1. /\ Key /\ Top.kind = "newForm" /\ Top.form = "fields" /\ stack' = Finished
      /\ UNCHANGED <<exists, broken>>
  BY DEF FinishNew, KeyIn
<1>2. PICK kind \in {"generate", "error"} :
         /\ UNCHANGED thrown \/ Fails
         /\ requests' = requests \o <<Asks("pop", Top.id), Opens("set", Top.parent, Make(kind))>>
  BY DEF FinishNew, Request, SetError
<1> DEFINE r == Asks("pop", Top.id)
           q == Opens("set", Top.parent, Make(kind))
<1>3. r \in Ask /\ r.op = "pop" /\ r.by = Top.id
  BY <1>1, AtKey DEF Asks, Ask
<1>4. Top.parent \in Id
  BY <1>1, AtKey DEF Controller, Shape
<1>5. /\ q \in Ask /\ q.op = "set" /\ q.by = Top.parent /\ q.screen.kind \in {"generate", "error"}
      /\ AskedScreen(q)
  BY <1>1, <1>4, AtKey, MadeScreen, MadeAsked DEF Opens, Ask
<1> HIDE DEF r, q
<1>6. Asked(<<r, q>>)
  BY <1>1, <1>3, <1>5, AskTwo
<1>7. Touched(Finished) /\ Finished[Len(stack)].form = "fields"
  BY <1>1, Fill DEF Finished
<1>8. <<r, q>>[1] = r /\ <<r, q>> # <<>>
  OBVIOUS
<1>9. Top.parent # None
  BY <1>4, IdAssumption
<1>10. Finishes(Finished, <<r, q>>)
  BY <1>1, <1>3, <1>7, <1>8, <1>9 DEF Finishes
<1>11. Effect(Finished, <<r, q>>)
  BY <1>1, <1>2, <1>6, <1>7, <1>10, SameKeychain, Throwing DEF Effect, r, q
<1>12. QED
  BY <1>11

LEMMA FinishImportEffect ==
    ASSUME Structure, FinishImport PROVE \E s, rs : Effect(s, rs)
<1>1. /\ Key /\ Top.kind = "import" /\ Top.form = "fields" /\ Top.left = 1
      /\ stack' = Finished /\ UNCHANGED broken
  BY DEF FinishImport, KeyIn
<1>2. Actor = Top
  BY <1>1, AtKey DEF IsDone
<1>3. CASE /\ ~exists /\ exists' = TRUE /\ UNCHANGED thrown
           /\ Request(<<Opens("set", Top.id, Make("main"))>>)
  <2> DEFINE r == Opens("set", Top.id, Make("main"))
  <2>1. /\ r \in Ask /\ Asked(<<r>>) /\ r.op = "set" /\ r.screen.kind = "main"
    BY <1>1, AtKey, MadeScreen, MadeAsked, Opening DEF Opens, Creates
  <2>2. requests' = requests \o <<r>>
    BY <1>3 DEF Request
  <2> HIDE DEF r
  <2>3. Len(<<r>>) = 1 /\ <<r>>[1] = r
    OBVIOUS
  <2>4. Exists(Finished, <<r>>)
    BY <1>1, <1>2, <1>3, <2>1, <2>3 DEF Exists, Creates
  <2>5. QED
    BY <1>1, <1>3, <2>1, <2>2, <2>4, Finishing
<1>4. CASE /\ \/ ~exists /\ Fails /\ exists' \in BOOLEAN
              \/ exists /\ UNCHANGED <<exists, thrown>>
           /\ Request(<<SetError(Top.id)>>)
  <2>1. Exists(Finished, <<SetError(Top.id)>>)
    BY <1>4, Throwing DEF Exists, Structure, TypeOK
  <2>2. QED
    BY <1>1, <1>4, <2>1, ErrorAsked, Finishing DEF Request
<1>5. QED
  BY <1>3, <1>4 DEF FinishImport

LEMMA FinishExportEffect ==
    ASSUME Structure, FinishExport PROVE \E s, rs : Effect(s, rs)
<1>1. /\ Key /\ Top.form = "fields" /\ stack' = Finished /\ UNCHANGED <<exists, broken>>
  BY DEF FinishExport, KeyIn
<1>2. CASE Request(<<Asks("pop", Top.id)>>) /\ UNCHANGED thrown
  <2>1. Asks("pop", Top.id).op = "pop"
    BY DEF Asks
  <2>2. QED
    BY <1>1, <1>2, <2>1, Asking, SameKeychain, Finishing DEF Request
<1>3. CASE Fails /\ Request(<<SetError(Top.id)>>)
  BY <1>1, <1>3, ErrorAsked, SameKeychain, Finishing DEF Request
<1>4. QED
  BY <1>2, <1>3 DEF FinishExport

Refit(c, f, l) == [c EXCEPT !.form = f, !.left = l]

LEMMA Reformed ==
    ASSUME NEW t \in Controller, NEW f \in {"none", "fields", "menu", "blank"}, NEW l \in 0..3
    PROVE  /\ Refit(t, f, l) \in Controller
           /\ Refit(t, f, l).id = t.id /\ Refit(t, f, l).kind = t.kind
           /\ Refit(t, f, l).parent = t.parent
           /\ Refit(t, f, l).form = f /\ Refit(t, f, l).left = l
BY DEF Controller, Refit

\* The forms of OpenKeychainScreen.
LEMMA Reform ==
    ASSUME Structure, Key, Top.kind = "open", NEW f \in {"none", "menu"}, NEW l \in {0, 1}
    PROVE  LET s == [stack EXCEPT ![Len(stack)].form = f, ![Len(stack)].left = l] IN
           /\ Touched(s) /\ s[Len(stack)].form = f /\ s[Len(stack)].left = l
<1> DEFINE c == Refit(Top, f, l)
<1>1. /\ c \in Controller
      /\ c.id = Top.id /\ c.kind = Top.kind /\ c.parent = Top.parent
      /\ c.form = f /\ c.left = l
  <2>1. f \in {"none", "fields", "menu", "blank"} /\ l \in 0..3 /\ Top \in Controller
    BY AtKey
  <2>2. QED
    BY <2>1, Reformed
<1>2. Shape(c) /\ c.kind # "new"
  BY <1>1, AtKey DEF Shape
<1>3. [stack EXCEPT ![Len(stack)].form = f, ![Len(stack)].left = l]
         = [stack EXCEPT ![Len(stack)] = c]
  BY AtKey DEF Controller, Refit
<1> HIDE DEF c
<1>4. QED
  BY <1>1, <1>2, <1>3, TouchTop

LEMMA FinishOpenEffect ==
    ASSUME Structure, FinishOpen PROVE \E s, rs : Effect(s, rs)
<1>1. /\ Key /\ Top.kind = "open" /\ Top.form = "fields" /\ Top.left = 1
      /\ UNCHANGED <<exists, broken>>
  BY DEF FinishOpen, KeyIn
<1>2. CASE Fails /\ stack' = Finished /\ Request(<<SetError(Top.id)>>)
  BY <1>1, <1>2, ErrorAsked, SameKeychain, Finishing DEF Request
<1>3. CASE stack' = [stack EXCEPT ![Len(stack)].form = "menu"] /\ UNCHANGED <<requests, thrown>>
  <2> DEFINE s == [stack EXCEPT ![Len(stack)].form = "menu", ![Len(stack)].left = 1]
  <2>1. stack' = s
    BY <1>1, <1>3, AtKey DEF Controller
  <2>2. Touched(s) /\ s[Len(stack)].form = "menu" /\ s[Len(stack)].left = 1
    BY <1>1, Reform
  <2> HIDE DEF s
  <2>3. Finishes(s, <<>>)
    BY <2>2 DEF Finishes, IsDone
  <2>4. requests' = requests \o <<>>
    BY <1>1, <1>3, AtKey
  <2>5. Effect(s, <<>>)
    BY <1>1, <1>3, <2>1, <2>2, <2>3, <2>4, AskNothing, SameKeychain, Throwing DEF Effect
  <2>6. QED
    BY <2>5
<1>4. QED
  BY <1>2, <1>3 DEF FinishOpen

LEMMA ChooseOpenEffect ==
    ASSUME Structure, ChooseOpen PROVE \E s, rs : Effect(s, rs)
<1> DEFINE s == [stack EXCEPT ![Len(stack)].form = "none", ![Len(stack)].left = 0]
<1>1. /\ Key /\ Top.kind = "open" /\ stack' = s /\ UNCHANGED <<exists, broken>>
      /\ UNCHANGED thrown \/ Fails
  BY DEF ChooseOpen, KeyIn
<1>2. PICK r \in Ask : /\ Asked(<<r>>) /\ r.op \in {"push", "quit"}
                       /\ requests' = requests \o <<r>>
  <2>1. CASE Request(<<Asks("quit", Top.id)>>)
    BY <1>1, <2>1, Asking DEF Request, Asks
  <2>2. ASSUME NEW kind \in {"main", "export", "error"},
               Request(<<Opens("push", Top.id, Make(kind))>>)
        PROVE  \E r \in Ask : /\ Asked(<<r>>) /\ r.op \in {"push", "quit"}
                              /\ requests' = requests \o <<r>>
    <3> DEFINE r == Opens("push", Top.id, Make(kind))
    <3>1. r \in Ask /\ Asked(<<r>>) /\ r.op = "push"
      BY <1>1, AtKey, MadeScreen, MadeAsked, Opening DEF Opens, Creates
    <3>2. QED
      BY <2>2, <3>1 DEF Request
  <2>3. QED
    BY <2>1, <2>2 DEF ChooseOpen
<1>3. Touched(s) /\ s[Len(stack)].form = "none"
  BY <1>1, Reform
<1> HIDE DEF s
<1>4. 1 \in 1..Len(<<r>>) /\ <<r>>[1] = r
  OBVIOUS
<1>5. Finishes(s, <<r>>)
  BY <1>2, <1>3, <1>4 DEF Finishes, IsDone
<1>6. Effect(s, <<r>>)
  BY <1>1, <1>2, <1>3, <1>5, SameKeychain, Throwing DEF Effect
<1>7. QED
  BY <1>6

LEMMA FinishMainEffect ==
    ASSUME Structure, FinishMain PROVE \E s, rs : Effect(s, rs)
<1>1. /\ Key /\ Top.kind = "mainForm" /\ Top.form = "fields" /\ UNCHANGED <<exists, broken>>
  BY DEF FinishMain, KeyIn
<1>2. /\ Asks("pop", Top.id) \in Ask /\ Asks("pop", Top.id).op = "pop"
      /\ Asked(<<Asks("pop", Top.id)>>)
  BY <1>1, Asking DEF Asks
<1>3. CASE stack' = Finished /\ Request(<<Asks("pop", Top.id)>>) /\ UNCHANGED thrown
  BY <1>1, <1>2, <1>3, SameKeychain, Finishing DEF Request
<1>4. CASE /\ Fails /\ stack' = Covered(Finished)
           /\ Request(<<Asks("pop", Top.id)>>) \/ UNCHANGED requests
  <2>1. PICK rs \in {<<>>, <<Asks("pop", Top.id)>>} : requests' = requests \o rs
    BY <1>1, <1>4, AtKey DEF Request
  <2>2. Asked(rs) /\ \A k \in 1..Len(rs) : ~IsOpening(rs[k])
    BY <1>2, <2>1, AskNothing DEF IsOpening
  <2>3. Touched(Finished) /\ Finished[Len(stack)].form = "fields"
    BY <1>1, Fill DEF Finished
  <2>4. Top.parent # None /\ thrown' # thrown
    BY <1>1, <1>4, AtKey, Throwing DEF Shape
  <2>5. Finishes(Finished, rs)
    BY <2>3, <2>4 DEF Finishes
  <2>6. stack' = Append(Finished, Make("error"))
    BY <1>4 DEF Covered
  <2>7. Effect(Finished, rs)
    BY <1>1, <1>4, <2>1, <2>2, <2>3, <2>5, <2>6, SameKeychain, Throwing DEF Effect
  <2>8. QED
    BY <2>7
<1>5. QED
  BY <1>3, <1>4 DEF FinishMain

LEMMA EscapeEffect ==
    ASSUME Structure, Escape PROVE \E s, rs : Effect(s, rs)
<1>1. Key /\ UNCHANGED <<stack, exists, broken, thrown>>
  BY DEF Escape
<1>2. CASE Top.kind = "newForm"
  <2> DEFINE r == Asks("pop", Top.id)
             q == Asks("pop", Top.parent)
  <2>1. requests' = requests \o <<r, q>>
    BY <1>2 DEF Escape, Request
  <2>2. /\ r \in Ask /\ r.op = "pop" /\ r.by = Top.id
        /\ q \in Ask /\ q.op = "pop" /\ q.by = Top.parent
    BY <1>1, <1>2, AtKey DEF Asks, Ask, Controller, Shape
  <2> HIDE DEF r, q
  <2>3. Asked(<<r, q>>)
    BY <1>2, <2>2, AskTwo
  <2>4. QED
    BY <1>1, <2>1, <2>3, OnlyAsks
<1>3. CASE Top.kind = "import"
  <2>1. requests' = requests \o <<Opens("set", Top.id, Make("create"))>>
    BY <1>3 DEF Escape, Request
  <2>2. Asked(<<Opens("set", Top.id, Make("create"))>>)
    BY <1>1, <1>3, AtKey, MadeScreen, MadeAsked, Opening DEF Creates
  <2>3. QED
    BY <1>1, <2>1, <2>2, OnlyAsks
<1>4. CASE Top.kind \notin {"newForm", "import"}
  <2>1. PICK op \in {"pop", "quit"} : requests' = requests \o <<Asks(op, Top.id)>>
    BY <1>4 DEF Escape, Request
  <2>2. QED
    BY <1>1, <2>1, Asking, OnlyAsks
<1>5. QED
  BY <1>2, <1>3, <1>4

KeyStep == \/ Dismiss \/ Continue \/ UseMain
           \/ ChooseCreate \/ Advance \/ FinishNew \/ FinishImport \/ FinishOpen
           \/ ChooseOpen \/ FinishExport \/ FinishMain \/ Escape

\* Every key has an effect of the kind above.
LEMMA KeyEffect ==
    ASSUME Structure, KeyStep PROVE \E s, rs : Effect(s, rs)
BY DismissEffect, ContinueEffect, UseMainEffect, ChooseCreateEffect, AdvanceEffect,
   FinishNewEffect, FinishImportEffect, FinishOpenEffect, ChooseOpenEffect,
   FinishExportEffect, FinishMainEffect, EscapeEffect DEF KeyStep

-----------------------------------------------------------------------------
(* What handling a request does. *)

\* The controllers s, the last of them about to be initialised, and the requests
\* rs that are left.
Ready(s, rs) ==
    /\ s \in Seq(Controller) /\ s # <<>> /\ rs \in Seq(Ask)
    /\ \A i, j \in 1..Len(s) : i # j => s[i].id # s[j].id
    /\ \A i \in 1..Len(s) : /\ Shape(s[i]) /\ s[i].id # Fresh
                            /\ s[i].kind = "open" => i = 1
    /\ \A i \in 1..(Len(s) - 1) : /\ s[i].kind = "new" => s[i].left = 0
                                  /\ s[i].parent # None =>
                                        \E j \in 1..(i - 1) : s[j].id = s[i].parent
    /\ s[Len(s)].kind = "new" => s[Len(s)].left \in {0, 1}
    /\ \A k \in 1..Len(rs) : IsOpening(rs[k]) =>
          LET c == rs[k].screen IN
          /\ Shape(c) /\ ~IsDone(c) /\ c.kind # "open" /\ c.id # Fresh
          /\ c.kind = "new" => c.left = 1
          /\ rs[k].op = "set" => c.parent = None
          /\ \A i \in 1..Len(s) : c.id # s[i].id
          /\ \A l \in 1..Len(rs) : IsOpening(rs[l]) /\ k # l => c.id # rs[l].screen.id

NewForm(c) == Opens("push", c.id, MakeForm("newForm", "fields", 1, c.id))

Posts(c) == c.kind = "new" /\ c.left = 1

LEMMA Posted ==
    ASSUME Free # {}, NEW c \in Controller, c.id # Fresh
    PROVE  LET r == NewForm(c) IN
           /\ r \in Ask /\ r.op = "push" /\ IsOpening(r) /\ r.by = c.id
           /\ r.screen.id = Fresh /\ r.screen.kind = "newForm" /\ r.screen.parent = c.id
           /\ Shape(r.screen) /\ ~IsDone(r.screen)
<1>1. c.id \in Id
  BY DEF Controller
<1>2. MakeForm("newForm", "fields", 1, c.id) \in Controller
  BY <1>1, MadeForm
<1>3. QED
  BY <1>1, <1>2, MadeForm DEF NewForm, Opens, Ask, IsOpening

\* What Initialise does to the controllers s and the requests rs.
LEMMA Initialising ==
    ASSUME Free # {}, NEW s, NEW rs, Ready(s, rs), Initialise(s, rs)
    PROVE  LET c == s[Len(s)]
               d == stack'[Len(s)]
           IN
           /\ Len(s) \in Nat \ {0} /\ c \in Controller
           /\ stack' \in Seq(Controller) /\ Len(stack') = Len(s)
           /\ \A i \in 1..(Len(s) - 1) : stack'[i] = s[i]
           /\ d.id = c.id /\ d.kind = c.kind /\ d.parent = c.parent
           /\ c.kind \notin {"open", "new"} => d = c
           /\ c.kind = "open" => d.form # "none" /\ (IsDone(d) => IsDone(c))
           /\ Shape(d) /\ (c.kind = "new" => d.left = 0)
           /\ requests' \in Seq(Ask)
           /\ requests' = IF Posts(c) THEN Append(rs, NewForm(c)) ELSE rs
<1> DEFINE n == Len(s)
           c == s[n]
<1>1. /\ s \in Seq(Controller) /\ s # <<>> /\ rs \in Seq(Ask)
      /\ n \in Nat \ {0} /\ c \in Controller /\ Shape(c) /\ c.id # Fresh
      /\ c.kind = "new" => c.left \in {0, 1}
      /\ Last(s) = c
  BY DEF Ready, Last
<1>2. /\ requests' = IF Posts(c) THEN Append(rs, NewForm(c)) ELSE rs
      /\ stack' = IF c.kind = "open" /\ c.form = "none"
                    THEN [s EXCEPT ![n].form = "menu", ![n].left = 1]
                  ELSE IF Posts(c) THEN [s EXCEPT ![n].left = 0] ELSE s
  BY <1>1 DEF Initialise, Posts, NewForm
<1>3. requests' \in Seq(Ask)
  BY <1>1, <1>2, Posted
<1>4. CASE c.kind = "open" /\ c.form = "none"
  <2> DEFINE d == Refit(c, "menu", 1)
  <2>1. /\ d \in Controller /\ d.id = c.id /\ d.kind = c.kind /\ d.parent = c.parent
        /\ d.form = "menu" /\ d.left = 1
    BY <1>1, Reformed
  <2>2. stack' = [s EXCEPT ![n] = d]
    BY <1>1, <1>2, <1>4 DEF Controller, Refit
  <2> HIDE DEF d
  <2>3. Shape(d) /\ ~IsDone(d)
    BY <1>1, <1>4, <2>1 DEF Shape, IsDone
  <2>4. /\ stack' \in Seq(Controller) /\ Len(stack') = n /\ stack'[n] = d
        /\ \A i \in 1..(n - 1) : stack'[i] = s[i]
    BY <1>1, <2>1, <2>2
  <2>5. QED
    BY <1>1, <1>2, <1>3, <1>4, <2>1, <2>3, <2>4
<1>5. CASE Posts(c)
  <2> DEFINE d == Refit(c, c.form, 0)
  <2>1. /\ d \in Controller /\ d.id = c.id /\ d.kind = c.kind /\ d.parent = c.parent
        /\ d.form = c.form /\ d.left = 0
    BY <1>1, Reformed DEF Controller
  <2>2. stack' = [s EXCEPT ![n] = d]
    BY <1>1, <1>2, <1>5 DEF Controller, Refit, Posts
  <2> HIDE DEF d
  <2>3. Shape(d) /\ c.kind = "new"
    BY <1>1, <1>5, <2>1 DEF Shape, Posts
  <2>4. /\ stack' \in Seq(Controller) /\ Len(stack') = n /\ stack'[n] = d
        /\ \A i \in 1..(n - 1) : stack'[i] = s[i]
    BY <1>1, <2>1, <2>2
  <2>5. QED
    BY <1>1, <1>2, <1>3, <1>5, <2>1, <2>3, <2>4
<1>6. CASE ~(c.kind = "open" /\ c.form = "none") /\ ~Posts(c)
  BY <1>1, <1>2, <1>3, <1>6 DEF Posts
<1>7. QED
  BY <1>4, <1>5, <1>6

\* Initialising the controller on top of a stack that is ready keeps the structure.
LEMMA HandlingKeepsStructure ==
    ASSUME Structure, Running, Free # {}, NEW s, NEW rs, Ready(s, rs), Initialise(s, rs),
           UNCHANGED <<exists, rushed, thrown>>, resized' \in BOOLEAN
    PROVE  Structure'
<1> DEFINE n == Len(s)
           c == s[n]
           m == Len(rs)
<1>1. /\ n \in Nat \ {0} /\ c \in Controller /\ c.id # Fresh /\ Shape(c)
      /\ s \in Seq(Controller) /\ rs \in Seq(Ask) /\ m \in Nat
      /\ c.kind = "open" => n = 1
  <2>1. /\ n \in Nat \ {0} /\ s \in Seq(Controller) /\ rs \in Seq(Ask) /\ m \in Nat
    BY DEF Ready
  <2>2. n \in 1..n /\ c \in Controller
    BY <2>1
  <2>3. QED
    BY <2>1, <2>2 DEF Ready
<1>2. /\ stack' \in Seq(Controller) /\ Len(stack') = n
      /\ \A i \in 1..(n - 1) : stack'[i] = s[i]
      /\ stack'[n].id = c.id /\ stack'[n].kind = c.kind /\ stack'[n].parent = c.parent
      /\ stack'[n].kind = "open" => stack'[n].form # "none"
      /\ Shape(stack'[n]) /\ (c.kind = "new" => stack'[n].left = 0)
      /\ requests' \in Seq(Ask)
      /\ requests' = IF Posts(c) THEN Append(rs, NewForm(c)) ELSE rs
  BY Initialising
<1>3. /\ IsOpening(NewForm(c)) /\ NewForm(c).op = "push"
      /\ NewForm(c).screen.id = Fresh /\ NewForm(c).screen.kind = "newForm"
      /\ Shape(NewForm(c).screen) /\ ~IsDone(NewForm(c).screen)
  BY <1>1, Posted
<1>4. \A i \in 1..n : /\ stack'[i].id = s[i].id /\ stack'[i].parent = s[i].parent
                      /\ stack'[i].kind = s[i].kind
  <2>1. \A i \in 1..n : i = n \/ i \in 1..(n - 1)
    BY <1>1
  <2>2. QED
    BY <1>2, <2>1
<1>5. \A k \in DOMAIN requests' :
         \/ k \in 1..m /\ requests'[k] = rs[k]
         \/ k = m + 1 /\ requests'[k] = NewForm(c)
  BY <1>1, <1>2
<1>6. TypeOK'
  <2>1. \A i, j \in DOMAIN stack' : i # j => stack'[i].id # stack'[j].id
    BY <1>1, <1>2, <1>4 DEF Ready
  <2>2. broken' \in {None, "parent", "windows"}
    BY DEF Initialise
  <2>3. QED
    BY <1>2, <2>1, <2>2 DEF Structure, TypeOK
<1>7. Initialised'
  <2> SUFFICES ASSUME NEW i \in DOMAIN stack'
               PROVE  /\ Shape(stack'[i])
                      /\ stack'[i].kind = "new" => stack'[i].left = 0
                      /\ stack'[i].kind = "open" => i = 1
    BY DEF Initialised, Shape
  <2>1. CASE i = n
    BY <1>1, <1>2, <2>1
  <2>2. CASE i \in 1..(n - 1)
    <3>1. stack'[i] = s[i]
      BY <1>2, <2>2
    <3>2. i \in 1..n
      BY <1>1, <2>2
    <3>3. QED
      BY <2>2, <3>1, <3>2 DEF Ready
  <2>3. QED
    BY <1>1, <1>2, <2>1, <2>2
<1>8. Uninitialised'
  <2> SUFFICES ASSUME NEW k \in DOMAIN requests', IsOpening(requests'[k])
               PROVE  LET d == requests'[k].screen IN
                      /\ Shape(d) /\ ~IsDone(d) /\ d.kind # "open"
                      /\ d.kind = "new" => d.left = 1
                      /\ requests'[k].op = "set" => d.parent = None
    BY DEF Uninitialised, IsOpening, Shape, IsDone
  <2>1. CASE k \in 1..m /\ requests'[k] = rs[k]
    BY <2>1 DEF Ready
  <2>2. CASE requests'[k] = NewForm(c)
    BY <1>3, <2>2
  <2>3. QED
    BY <1>5, <2>1, <2>2
<1>9. Distinct'
  <2>1. ASSUME NEW k \in DOMAIN requests', NEW i \in DOMAIN stack', IsOpening(requests'[k])
        PROVE  requests'[k].screen.id # stack'[i].id
    <3>1. i \in 1..n /\ stack'[i].id = s[i].id /\ s[i].id # Fresh
      BY <1>2, <1>4 DEF Ready
    <3>2. CASE k \in 1..m /\ requests'[k] = rs[k]
      BY <2>1, <3>1, <3>2 DEF Ready
    <3>3. CASE requests'[k] = NewForm(c)
      BY <1>3, <3>1, <3>3
    <3>4. QED
      BY <1>5, <3>2, <3>3
  <2>2. ASSUME NEW k \in DOMAIN requests', NEW l \in DOMAIN requests', k # l,
               IsOpening(requests'[k]), IsOpening(requests'[l])
        PROVE  requests'[k].screen.id # requests'[l].screen.id
    <3>1. \A q \in 1..m : IsOpening(rs[q]) => rs[q].screen.id # Fresh
      BY DEF Ready
    <3>2. CASE k \in 1..m /\ l \in 1..m /\ requests'[k] = rs[k] /\ requests'[l] = rs[l]
      BY <2>2, <3>2 DEF Ready
    <3>3. QED
      BY <1>3, <1>5, <2>2, <3>1, <3>2
  <2>3. QED
    BY <2>1, <2>2 DEF Distinct, IsOpening
<1>10. ParentsBelow'
  <2> SUFFICES ASSUME broken' = None, NEW i \in DOMAIN stack', stack'[i].parent # None
               PROVE  \E j \in 1..(i - 1) : stack'[j].id = stack'[i].parent
    BY DEF ParentsBelow
  <2>1. \E j \in 1..(i - 1) : s[j].id = s[i].parent
    <3>1. CASE i = n
      <4>1. c = Last(s) /\ c.parent # None /\ c.parent # c.id
        BY <1>1, <1>2, <3>1 DEF Shape, Last
      <4>2. \E p \in ToSet(s) : p.id = c.parent
        BY <4>1, IdAssumption DEF Initialise
      <4>3. PICK j \in 1..n : s[j].id = c.parent
        BY <1>1, <4>2 DEF ToSet
      <4>4. j # n
        BY <4>1, <4>3
      <4>5. QED
        BY <1>1, <3>1, <4>3, <4>4
    <3>2. CASE i \in 1..(n - 1)
      BY <1>1, <1>4, <3>2 DEF Ready
    <3>3. QED
      BY <1>1, <1>2, <3>1, <3>2
  <2>2. i \in 1..n
    BY <1>2
  <2>3. QED
    BY <1>1, <1>4, <2>1, <2>2
<1>11. MenuComesBack'
  <2>1. stack' # <<>> => Top' = stack'[n]
    BY <1>2 DEF Top, Last
  <2>2. QED
    BY <1>2, <2>1 DEF MenuComesBack
<1>12. QED
  BY <1>1, <1>2, <1>6, <1>7, <1>8, <1>9, <1>10, <1>11 DEF Structure

\* What Structure says of the controllers on the stack, of those asked for, and of
\* parts of both.
LEMMA Held ==
    ASSUME Structure, Running, Free # {}
    PROVE  /\ stack \in Seq(Controller) /\ requests \in Seq(Ask)
           /\ Len(stack) \in Nat \ {0} /\ Len(requests) \in Nat
           /\ \A i, j \in 1..Len(stack) : i # j => stack[i].id # stack[j].id
           /\ \A i \in 1..Len(stack) :
                 /\ Shape(stack[i]) /\ stack[i].id # Fresh
                 /\ stack[i].kind = "new" => stack[i].left = 0
                 /\ stack[i].kind = "open" => i = 1
                 /\ stack[i].parent # None =>
                       \E j \in 1..(i - 1) : stack[j].id = stack[i].parent
<1>1. /\ stack \in Seq(Controller) /\ requests \in Seq(Ask)
      /\ Len(stack) \in Nat \ {0} /\ Len(requests) \in Nat /\ broken = None
  BY DEF Structure, TypeOK, Running
<1>2. \A i \in 1..Len(stack) : stack[i].id # Fresh
  BY <1>1, FreshIsFree DEF ToSet
<1>3. \A i, j \in 1..Len(stack) : i # j => stack[i].id # stack[j].id
  BY <1>1 DEF Structure, TypeOK
<1>4. \A i \in 1..Len(stack) : /\ Shape(stack[i])
                               /\ stack[i].kind = "new" => stack[i].left = 0
                               /\ stack[i].kind = "open" => i = 1
  BY <1>1 DEF Structure, Initialised
<1>5. \A i \in 1..Len(stack) : stack[i].parent # None =>
         \E j \in 1..(i - 1) : stack[j].id = stack[i].parent
  BY <1>1 DEF Structure, ParentsBelow
<1>6. QED
  BY <1>1, <1>2, <1>3, <1>4, <1>5

LEMMA Wanted ==
    ASSUME Structure, Running, Free # {}, NEW k \in 1..Len(requests), IsOpening(requests[k])
    PROVE  LET c == requests[k].screen IN
           /\ Shape(c) /\ ~IsDone(c) /\ c.kind # "open" /\ c.id # Fresh
           /\ c.kind = "new" => c.left = 1
           /\ requests[k].op = "set" => c.parent = None
           /\ \A i \in 1..Len(stack) : c.id # stack[i].id
           /\ \A l \in 1..Len(requests) : IsOpening(requests[l]) /\ k # l =>
                 c.id # requests[l].screen.id
<1>1. requests[k].screen \in Coming
  BY Held DEF Coming, ToSet
<1>2. requests[k].screen.id # Fresh
  BY <1>1, FreshIsFree
<1>3. \A i \in 1..Len(stack) : requests[k].screen.id # stack[i].id
  BY Held DEF Structure, Distinct
<1>4. \A l \in 1..Len(requests) : IsOpening(requests[l]) /\ k # l =>
          requests[k].screen.id # requests[l].screen.id
  BY Held DEF Structure, Distinct
<1>5. QED
  BY <1>2, <1>3, <1>4, Held DEF Structure, Uninitialised

\* A part of the stack, or one with the screen of the first request on it, and the
\* requests but for the first d.
Rest(rs, d) ==
    /\ rs \in Seq(Ask) /\ d \in {0, 1} /\ Len(rs) = Len(requests) - d
    /\ \A k \in 1..Len(rs) : rs[k] = requests[k + d]

Stacked(s, d) ==
    /\ s \in Seq(Controller) /\ s # <<>> /\ Len(s) - 1 <= Len(stack)
    /\ \A i \in 1..(Len(s) - 1) : s[i] = stack[i]
    /\ \/ Len(s) <= Len(stack) /\ s[Len(s)] = stack[Len(s)]
       \/ /\ d = 1 /\ requests # <<>> /\ IsOpening(requests[1])
          /\ s[Len(s)] = requests[1].screen

LEMMA RestWanted ==
    ASSUME Structure, Running, Free # {}, NEW rs, NEW d, Rest(rs, d),
           NEW k \in 1..Len(rs), IsOpening(rs[k])
    PROVE  LET c == rs[k].screen IN
           /\ Shape(c) /\ ~IsDone(c) /\ c.kind # "open" /\ c.id # Fresh
           /\ c.kind = "new" => c.left = 1
           /\ rs[k].op = "set" => c.parent = None
           /\ \A i \in 1..Len(stack) : c.id # stack[i].id
           /\ \A l \in 1..Len(rs) : IsOpening(rs[l]) /\ k # l => c.id # rs[l].screen.id
           /\ requests # <<>> /\ IsOpening(requests[1]) /\ d = 1 =>
                 c.id # requests[1].screen.id
<1> DEFINE j == k + d
<1>1. Len(rs) \in Nat /\ Len(requests) \in Nat /\ d \in {0, 1} /\ Len(rs) = Len(requests) - d
  BY Held DEF Rest
<1>2. j \in 1..Len(requests) /\ (d = 1 => j # 1)
  BY <1>1
<1>3. rs[k] = requests[j]
  BY DEF Rest
<1> HIDE DEF j
<1>4. IsOpening(requests[j])
  BY <1>3
<1>5. LET c == requests[j].screen IN
      /\ Shape(c) /\ ~IsDone(c) /\ c.kind # "open" /\ c.id # Fresh
      /\ c.kind = "new" => c.left = 1
      /\ requests[j].op = "set" => c.parent = None
      /\ \A i \in 1..Len(stack) : c.id # stack[i].id
      /\ \A l \in 1..Len(requests) : IsOpening(requests[l]) /\ j # l =>
            c.id # requests[l].screen.id
  BY <1>2, <1>4, Wanted
<1>6. ASSUME NEW l \in 1..Len(rs), IsOpening(rs[l]), k # l
      PROVE  rs[k].screen.id # rs[l].screen.id
  <2> DEFINE i == l + d
  <2>1. j # i /\ i \in 1..Len(requests)
    BY <1>1, <1>6 DEF j
  <2>2. rs[l] = requests[i]
    BY DEF Rest
  <2> HIDE DEF i
  <2>3. QED
    BY <1>3, <1>5, <1>6, <2>1, <2>2
<1>7. requests # <<>> => 1 \in 1..Len(requests)
  BY Held
<1>8. QED
  BY <1>2, <1>3, <1>5, <1>6, <1>7

LEMMA LastStacked ==
    ASSUME Structure, Running, Free # {}, NEW s, NEW d, Stacked(s, d)
    PROVE  LET q == Len(s) IN
           /\ Shape(s[q]) /\ s[q].id # Fresh
           /\ s[q].kind = "open" => q = 1
           /\ s[q].kind = "new" => s[q].left \in {0, 1}
           /\ \A i \in 1..(q - 1) : stack[i].id # s[q].id
           /\ \A rs : Rest(rs, d) =>
                 \A k \in 1..Len(rs) : IsOpening(rs[k]) => rs[k].screen.id # s[q].id
<1> DEFINE q == Len(s)
<1>1. /\ q \in Nat \ {0} /\ q - 1 <= Len(stack) /\ Len(stack) \in Nat \ {0} /\ Len(requests) \in Nat
  BY Held DEF Stacked
<1>2. CASE q <= Len(stack) /\ s[q] = stack[q]
  <2>1. q \in 1..Len(stack) /\ \A i \in 1..(q - 1) : i \in 1..Len(stack) /\ i # q
    BY <1>1, <1>2
  <2> HIDE DEF q
  <2>2. /\ Shape(s[q]) /\ s[q].id # Fresh /\ (s[q].kind = "open" => q = 1)
        /\ s[q].kind = "new" => s[q].left \in {0, 1}
        /\ \A i \in 1..(q - 1) : stack[i].id # s[q].id
    BY <1>2, <2>1, Held
  <2>3. \A rs : Rest(rs, d) =>
           \A k \in 1..Len(rs) : IsOpening(rs[k]) => rs[k].screen.id # s[q].id
    BY <1>2, <2>1, RestWanted
  <2>4. QED
    BY <2>2, <2>3 DEF q
<1>3. CASE d = 1 /\ requests # <<>> /\ IsOpening(requests[1]) /\ s[q] = requests[1].screen
  <2>1. 1 \in 1..Len(requests) /\ \A i \in 1..(q - 1) : i \in 1..Len(stack)
    BY <1>1, <1>3, Held
  <2> HIDE DEF q
  <2>2. /\ Shape(s[q]) /\ s[q].id # Fresh /\ s[q].kind # "open"
        /\ s[q].kind = "new" => s[q].left = 1
        /\ \A i \in 1..(q - 1) : stack[i].id # s[q].id
    BY <1>3, <2>1, Wanted
  <2>3. \A rs : Rest(rs, d) =>
           \A k \in 1..Len(rs) : IsOpening(rs[k]) => rs[k].screen.id # s[q].id
    BY <1>3, RestWanted
  <2>4. QED
    BY <2>2, <2>3 DEF q
<1>4. QED
  BY <1>2, <1>3 DEF Stacked

\* A part of the stack, or one with the screen of the first request on it, is ready.
LEMMA Gathered ==
    ASSUME Structure, Running, Free # {}, NEW s, NEW rs, NEW d, Stacked(s, d), Rest(rs, d)
    PROVE  Ready(s, rs)
<1> DEFINE n == Len(stack)
           q == Len(s)
<1>1. /\ s \in Seq(Controller) /\ s # <<>> /\ rs \in Seq(Ask)
      /\ n \in Nat \ {0} /\ q \in Nat \ {0} /\ q - 1 <= n
  BY Held DEF Stacked, Rest
<1>2. /\ \A i \in 1..q : i = q \/ i \in 1..(q - 1)
      /\ \A i \in 1..(q - 1) : i \in 1..q /\ i \in 1..n /\ i # q
      /\ \A i \in 1..(q - 1) : \A j \in 1..(i - 1) : j \in 1..(q - 1)
  BY <1>1
<1>3. \A i \in 1..(q - 1) : s[i] = stack[i]
  BY DEF Stacked
<1>4. /\ Shape(s[q]) /\ s[q].id # Fresh
      /\ s[q].kind = "open" => q = 1
      /\ s[q].kind = "new" => s[q].left \in {0, 1}
      /\ \A i \in 1..(q - 1) : stack[i].id # s[q].id
      /\ \A k \in 1..Len(rs) : IsOpening(rs[k]) => rs[k].screen.id # s[q].id
  BY LastStacked
<1>5. /\ \A i, j \in 1..n : i # j => stack[i].id # stack[j].id
      /\ \A i \in 1..n : /\ Shape(stack[i]) /\ stack[i].id # Fresh
                         /\ stack[i].kind = "new" => stack[i].left = 0
                         /\ stack[i].kind = "open" => i = 1
                         /\ stack[i].parent # None =>
                               \E j \in 1..(i - 1) : stack[j].id = stack[i].parent
  BY Held
<1> HIDE DEF n, q
<1>6. ASSUME NEW i \in 1..q, NEW j \in 1..q, i # j PROVE s[i].id # s[j].id
  <2>1. CASE i = q
    BY <1>2, <1>3, <1>4, <1>6, <2>1
  <2>2. CASE j = q
    BY <1>2, <1>3, <1>4, <1>6, <2>2
  <2>3. CASE i \in 1..(q - 1) /\ j \in 1..(q - 1)
    BY <1>2, <1>3, <1>5, <1>6, <2>3
  <2>4. QED
    BY <1>2, <2>1, <2>2, <2>3
<1>7. \A i \in 1..q : Shape(s[i]) /\ s[i].id # Fresh /\ (s[i].kind = "open" => i = 1)
  BY <1>2, <1>3, <1>4, <1>5
<1>8. ASSUME NEW i \in 1..(q - 1)
      PROVE  /\ s[i].kind = "new" => s[i].left = 0
             /\ s[i].parent # None => \E j \in 1..(i - 1) : s[j].id = s[i].parent
  <2>1. i \in 1..n /\ s[i] = stack[i] /\ \A j \in 1..(i - 1) : s[j] = stack[j]
    BY <1>2, <1>3
  <2>2. QED
    BY <1>5, <2>1
<1>9. ASSUME NEW k \in 1..Len(rs), IsOpening(rs[k])
      PROVE  LET c == rs[k].screen IN
             /\ Shape(c) /\ ~IsDone(c) /\ c.kind # "open" /\ c.id # Fresh
             /\ c.kind = "new" => c.left = 1
             /\ rs[k].op = "set" => c.parent = None
             /\ \A i \in 1..q : c.id # s[i].id
             /\ \A l \in 1..Len(rs) : IsOpening(rs[l]) /\ k # l => c.id # rs[l].screen.id
  <2>1. \A i \in 1..n : rs[k].screen.id # stack[i].id
    BY <1>9, RestWanted DEF n
  <2>2. \A i \in 1..q : rs[k].screen.id # s[i].id
    BY <1>2, <1>3, <1>4, <1>9, <2>1
  <2>3. QED
    BY <1>9, <2>2, RestWanted
<1>10. QED
  BY <1>1, <1>4, <1>6, <1>7, <1>8, <1>9 DEF Ready, q

LEMMA Prefix ==
    ASSUME NEW S, NEW s \in Seq(S), NEW n \in 0..Len(s)
    PROVE  SubSeq(s, 1, n) = [i \in 1..n |-> s[i]]
BY SubSeqRestrict DEF Restrict

LEMMA FrontOfSequence ==
    ASSUME NEW S, NEW s \in Seq(S), s # <<>>
    PROVE  /\ Front(s) \in Seq(S) /\ Len(Front(s)) = Len(s) - 1
           /\ \A i \in 1..(Len(s) - 1) : Front(s)[i] = s[i]
<1> DEFINE n == Len(s) - 1
<1>1. n \in 0..Len(s) /\ \A i \in 1..n : s[i] \in S
  OBVIOUS
<1>2. Front(s) = SubSeq(s, 1, n)
  BY DEF Front
<1> HIDE DEF n
<1>3. Front(s) = [i \in 1..n |-> s[i]]
  BY <1>1, <1>2, Prefix
<1>4. /\ Front(s) \in Seq(S) /\ Len(Front(s)) = n
      /\ \A i \in 1..n : Front(s)[i] = s[i]
  BY <1>1, <1>3
<1>5. QED
  BY <1>4 DEF n

\* What is known when a request is handled.
LEMMA AtRequest ==
    ASSUME Structure, NEW op, Handles(op)
    PROVE  /\ Running /\ Free # {} /\ stack \in Seq(Controller) /\ requests \in Seq(Ask)
           /\ Len(stack) \in Nat \ {0} /\ Len(requests) \in Nat \ {0} /\ requests # <<>>
           /\ Head(requests) = requests[1] /\ requests[1] \in Ask /\ requests[1].op = op
           /\ Tail(requests) \in Seq(Ask) /\ Len(Tail(requests)) = Len(requests) - 1
           /\ \A k \in 1..Len(Tail(requests)) : Tail(requests)[k] = requests[k + 1]
           /\ Below \in Seq(Controller) /\ Len(Below) = Len(stack) - 1
           /\ \A i \in 1..Len(Below) : Below[i] = stack[i]
<1>1. /\ Running /\ Free # {} /\ stack \in Seq(Controller) /\ requests \in Seq(Ask)
      /\ stack # <<>> /\ requests # <<>> /\ Head(requests).op = op
  BY DEF Handles, Running, Structure, TypeOK
<1>2. /\ Len(stack) \in Nat \ {0} /\ Len(requests) \in Nat \ {0}
      /\ Head(requests) = requests[1] /\ requests[1] \in Ask
      /\ Tail(requests) \in Seq(Ask) /\ Len(Tail(requests)) = Len(requests) - 1
      /\ \A k \in 1..Len(Tail(requests)) : Tail(requests)[k] = requests[k + 1]
  BY <1>1
<1>3. /\ Below \in Seq(Controller) /\ Len(Below) = Len(stack) - 1
      /\ \A i \in 1..Len(Below) : Below[i] = stack[i]
  BY <1>1, FrontOfSequence DEF Below
<1>4. QED
  BY <1>1, <1>2, <1>3

LEMMA AtOpening ==
    ASSUME Structure, NEW op \in {"set", "push"}, Handles(op)
    PROVE  IsOpening(requests[1]) /\ requests[1].screen \in Controller
BY AtRequest DEF IsOpening, Ask

LEMMA ResizeReady ==
    ASSUME Structure, Running, Free # {} PROVE Ready(stack, requests)
<1>1. Stacked(stack, 0) /\ Rest(requests, 0)
  BY Held DEF Stacked, Rest, Running
<1>2. QED
  BY <1>1, Gathered

LEMMA TailRest ==
    ASSUME Structure, NEW op, Handles(op) PROVE Rest(Tail(requests), 1)
BY AtRequest DEF Rest

LEMMA PopReady ==
    ASSUME Structure, Handles("pop"), Below # <<>> PROVE Ready(Below, Tail(requests))
<1>1. Stacked(Below, 1)
  BY AtRequest DEF Stacked
<1>2. QED
  BY <1>1, AtRequest, TailRest, Gathered

LEMMA PushReady ==
    ASSUME Structure, Handles("push")
    PROVE  Ready(Append(stack, Head(requests).screen), Tail(requests))
<1> DEFINE s == Append(stack, requests[1].screen)
<1>1. /\ s \in Seq(Controller) /\ s # <<>> /\ Len(s) = Len(stack) + 1
      /\ Len(s) - 1 <= Len(stack) /\ \A i \in 1..(Len(s) - 1) : s[i] = stack[i]
      /\ s[Len(s)] = requests[1].screen
  BY AtRequest, AtOpening
<1> HIDE DEF s
<1>2. Stacked(s, 1)
  BY <1>1, AtRequest, AtOpening DEF Stacked
<1>3. Ready(s, Tail(requests))
  BY <1>2, AtRequest, TailRest, Gathered
<1>4. QED
  BY <1>3, AtRequest DEF s

LEMMA SetReady ==
    ASSUME Structure, Handles("set")
    PROVE  Ready(Append(Below, Head(requests).screen), Tail(requests))
<1> DEFINE s == Append(Below, requests[1].screen)
<1>1. /\ s \in Seq(Controller) /\ s # <<>> /\ Len(s) = Len(stack)
      /\ Len(s) - 1 <= Len(stack) /\ \A i \in 1..(Len(s) - 1) : s[i] = stack[i]
      /\ s[Len(s)] = requests[1].screen
  BY AtRequest, AtOpening
<1> HIDE DEF s
<1>2. Stacked(s, 1)
  BY <1>1, AtRequest, AtOpening DEF Stacked
<1>3. Ready(s, Tail(requests))
  BY <1>2, AtRequest, TailRest, Gathered
<1>4. QED
  BY <1>3, AtRequest DEF s

\* The controller on top is one there was, or the one the first request brings,
\* and what is left are the other requests.
HandleStep == HandleSet \/ HandlePush \/ HandlePop \/ Resize

\* Every request, and a resize, initialises the last controller of a stack that is
\* ready.
LEMMA HandleEffect ==
    ASSUME Structure, HandleStep
    PROVE  \E s, rs : /\ Ready(s, rs) /\ Initialise(s, rs) /\ Running /\ Free # {}
                      /\ \/ /\ Handles("set") /\ rs = Tail(requests)
                            /\ s = Append(Below, Head(requests).screen)
                         \/ /\ Handles("push") /\ rs = Tail(requests)
                            /\ s = Append(stack, Head(requests).screen)
                         \/ Handles("pop") /\ Below # <<>> /\ rs = Tail(requests) /\ s = Below
                         \/ rs = requests /\ s = stack
                      /\ UNCHANGED <<exists, rushed, thrown>> /\ resized' \in BOOLEAN
<1>1. resized \in BOOLEAN
  BY DEF Structure, TypeOK
<1>2. CASE HandleSet
  BY <1>1, <1>2, SetReady, AtRequest DEF HandleSet, haste
<1>3. CASE HandlePush
  BY <1>1, <1>3, PushReady, AtRequest DEF HandlePush, haste
<1>4. CASE HandlePop
  BY <1>1, <1>4, PopReady, AtRequest DEF HandlePop, haste
<1>5. CASE Resize
  BY <1>1, <1>5, ResizeReady DEF Resize
<1>6. QED
  BY <1>2, <1>3, <1>4, <1>5 DEF HandleStep

LEMMA HandleKeepsStructure ==
    ASSUME Structure, HandleStep PROVE Structure'
BY HandleEffect, HandlingKeepsStructure

LEMMA EndKeepsStructure ==
    ASSUME Structure, End PROVE Structure'
<1>1. /\ stack' = <<>> /\ requests' = <<>> /\ broken' \in {None, "windows"}
      /\ UNCHANGED <<exists, rushed, resized, thrown>>
  BY DEF End, haste
<1>2. TypeOK'
  BY <1>1 DEF Structure, TypeOK
<1>3. Initialised' /\ Uninitialised' /\ Distinct' /\ ParentsBelow' /\ MenuComesBack'
  BY <1>1 DEF Initialised, Uninitialised, Distinct, ParentsBelow, MenuComesBack
<1>4. QED
  BY <1>1, <1>2, <1>3 DEF Structure

LEMMA InitStructure ==
    ASSUME Init PROVE Structure
<1>1. PICK c \in Controller : /\ stack = <<c>> /\ Shape(c) /\ c.parent = None
                              /\ c.kind \in {"open", "create"} /\ c.form # "none"
  BY IdAssumption DEF Init, Controller, Kinds, Shape
<1>2. /\ stack \in Seq(Controller) /\ Len(stack) = 1 /\ stack[1] = c
      /\ requests = <<>> /\ broken = None /\ rushed = 0 /\ resized = FALSE /\ thrown = 0
      /\ exists \in BOOLEAN
  BY <1>1 DEF Init
<1>3. TypeOK
  <2>1. \A i \in DOMAIN stack : i = 1
    BY <1>2
  <2>2. rushed \in 0..MaxRushed /\ thrown \in 0..MaxThrown
    BY <1>2, BoundAssumption
  <2>3. requests \in Seq(Ask)
    BY <1>2
  <2>4. QED
    BY <1>2, <2>1, <2>2, <2>3 DEF TypeOK
<1>4. Initialised /\ Uninitialised /\ Distinct /\ ParentsBelow
  BY <1>1, <1>2 DEF Initialised, Uninitialised, Distinct, ParentsBelow
<1>5. MenuComesBack
  BY <1>1, <1>2 DEF MenuComesBack, Top, Last
<1>6. QED
  BY <1>2, <1>3, <1>4, <1>5 DEF Structure

-----------------------------------------------------------------------------
(* Keys that wait for their turn. *)

\* With nobody in a hurry, a key comes when nothing is pending.
LEMMA PatientKey ==
    ASSUME Structure, NEW s, NEW rs, Effect(s, rs), rushed' = 0
    PROVE  rushed = 0 /\ requests = <<>> /\ requests' = rs
<1>1. /\ rushed \in Nat /\ requests \in Seq(Ask) /\ rs \in Seq(Ask)
      /\ requests' = requests \o rs
      /\ rushed' = IF requests = <<>> THEN rushed ELSE rushed + 1
  BY DEF Effect, Asked, Key, Structure, TypeOK
<1>2. QED
  BY <1>1

LEMMA KeyKeepsPatient ==
    ASSUME Structure, Patient, NEW s, NEW rs, Effect(s, rs)
    PROVE  Patient'
<1> SUFFICES ASSUME rushed' = 0 PROVE broken' = None /\ Calm(stack', requests')
  BY DEF Patient, Calm, OneBatch, ParentIsThere, DoneIsLeaving, IsDone
<1> DEFINE n == Len(stack)
<1>1. rushed = 0 /\ requests = <<>> /\ requests' = rs
  BY PatientKey
<1>2. broken' = None /\ Calm(stack, <<>>)
  BY <1>1 DEF Patient, Effect
<1>3. /\ Running /\ Free # {}
      /\ \A i \in 1..n : stack'[i].id = stack[i].id /\ stack'[i].parent = stack[i].parent
      /\ n \in Nat \ {0} /\ Len(stack') \in {n, n + 1}
      /\ Top = stack[n]
  BY KeyKeepsControllers, AfterKey, AtKey DEF Effect, Key
<1>4. OneBatch(rs)
  <2>1. Len(rs) \in Nat /\ Len(rs) <= 2
    BY AfterKey
  <2>2. CASE Len(rs) = 2
    BY <2>2 DEF Effect, Asked, OneBatch
  <2>3. CASE Len(rs) <= 1
    BY <2>3 DEF OneBatch
  <2>4. QED
    BY <2>1, <2>2, <2>3, TwoOrFewer
<1>5. ParentIsThere(stack', rs)
  <2> SUFFICES ASSUME rs # <<>>, rs[1].op = "push", rs[1].screen.parent # None
               PROVE  \E i \in 1..Len(stack') : stack'[i].id = rs[1].screen.parent
    BY DEF ParentIsThere
  <2>1. rs \in Seq(Ask) /\ 1 \in 1..Len(rs)
    BY AfterKey
  <2>2. rs[1].screen.parent = Actor.id
    BY <2>1 DEF Effect, Asked, AskedScreen, IsOpening
  <2>3. PICK i \in 1..n : stack[i] = Actor
    BY <1>3, ActorIsThere
  <2>4. i \in 1..Len(stack') /\ stack'[i].id = Actor.id
    BY <1>3, <2>3
  <2>5. QED
    BY <2>2, <2>4
<1>6. DoneIsLeaving(stack', rs)
  <2> SUFFICES ASSUME NEW i \in 1..Len(stack'), IsDone(stack'[i]), stack'[i].parent = None
               PROVE  i = Len(stack') /\ Len(rs) = 1 /\ rs[1].op \in {"pop", "set"}
    BY DEF DoneIsLeaving
  <2>1. \A j \in 1..n : ~(IsDone(stack[j]) /\ stack[j].parent = None)
    BY <1>2 DEF Calm, DoneIsLeaving
  <2>2. CASE i < n
    <3>1. i \in 1..n /\ i \in 1..(n - 1)
      BY <1>3, <2>2
    <3>2. stack'[i] = stack[i]
      BY <3>1, AfterKey
    <3>3. QED
      BY <2>1, <3>1, <3>2
  <2>3. CASE i = n
    <3>1. stack'[n] = s[n] /\ n \in 1..n
      BY <1>3, AfterKey
    <3>2. Top.parent = None /\ ~IsDone(Top)
      BY <1>3, <2>1, <2>3, <3>1
    <3>3. stack' = s /\ rs[1].op \in {"pop", "set"} /\ Len(rs) = 1
      BY <2>3, <3>1, <3>2 DEF Effect, Finishes
    <3>4. Len(stack') = n
      BY <3>3 DEF Effect, Touched
    <3>5. QED
      BY <2>3, <3>3, <3>4
  <2>4. CASE i = n + 1
    <3>1. stack'[i] = Make("error")
      BY <1>3, <2>4, AfterKey
    <3>2. QED
      BY <1>3, <3>1, MadeScreen
  <2>5. QED
    BY <1>3, <2>2, <2>3, <2>4
<1>7. QED
  BY <1>1, <1>2, <1>4, <1>5, <1>6 DEF Calm

-----------------------------------------------------------------------------
(* Requests handled before the next key. *)

\* The controller initialised is the one it was, and its form is no more done
\* than before.
LEMMA Alike ==
    ASSUME Free # {}, NEW s, NEW rs, Ready(s, rs), Initialise(s, rs)
    PROVE  /\ Len(stack') = Len(s) /\ Len(s) \in Nat \ {0}
           /\ \A i \in 1..Len(s) : /\ stack'[i].id = s[i].id /\ stack'[i].kind = s[i].kind
                                   /\ stack'[i].parent = s[i].parent
                                   /\ IsDone(stack'[i]) => IsDone(s[i])
<1> DEFINE n == Len(s)
<1>1. /\ n \in Nat \ {0} /\ Len(stack') = n
      /\ \A i \in 1..(n - 1) : stack'[i] = s[i]
      /\ stack'[n].id = s[n].id /\ stack'[n].kind = s[n].kind /\ stack'[n].parent = s[n].parent
      /\ s[n].kind \notin {"open", "new"} => stack'[n] = s[n]
      /\ s[n].kind = "open" => (IsDone(stack'[n]) => IsDone(s[n]))
      /\ Shape(stack'[n])
  BY Initialising
<1>2. s[n].kind = "new" => ~IsDone(stack'[n])
  BY <1>1 DEF Shape, IsDone
<1>3. \A i \in 1..n : i = n \/ i \in 1..(n - 1)
  BY <1>1
<1>4. QED
  BY <1>1, <1>2, <1>3

\* Only the screen of a new keychain that has just come posts a form, and then
\* nothing else is pending.
PostsAlone(s, rs) == Posts(s[Len(s)]) => rs = <<>>

\* What is pending once the controller on top is initialised.
LEMMA Pending ==
    ASSUME Free # {}, NEW s, NEW rs, Ready(s, rs), Initialise(s, rs), PostsAlone(s, rs)
    PROVE  \/ requests' = rs /\ ~Posts(s[Len(s)])
           \/ /\ rs = <<>> /\ requests' = <<NewForm(s[Len(s)])>> /\ Posts(s[Len(s)])
              /\ Len(requests') = 1 /\ requests'[1] = NewForm(s[Len(s)])
<1>1. requests' = IF Posts(s[Len(s)]) THEN Append(rs, NewForm(s[Len(s)])) ELSE rs
  BY Initialising
<1>2. CASE Posts(s[Len(s)])
  <2>1. rs = <<>> /\ requests' = Append(<<>>, NewForm(s[Len(s)]))
    BY <1>1, <1>2 DEF PostsAlone
  <2>2. QED
    BY <1>2, <2>1
<1>3. QED
  BY <1>1, <1>2

LEMMA HandlingKeepsCalm ==
    ASSUME Free # {}, NEW s, NEW rs, Ready(s, rs), Initialise(s, rs),
           PostsAlone(s, rs), Calm(s, rs)
    PROVE  Calm(stack', requests')
<1> DEFINE n == Len(s)
<1>1. /\ Len(stack') = n /\ n \in Nat \ {0}
      /\ \A i \in 1..n : /\ stack'[i].id = s[i].id /\ stack'[i].kind = s[i].kind
                         /\ stack'[i].parent = s[i].parent
                         /\ IsDone(stack'[i]) => IsDone(s[i])
  BY Alike
<1>2. CASE requests' = rs
  <2>1. OneBatch(requests')
    BY <1>2 DEF Calm
  <2>2. ParentIsThere(stack', requests')
    BY <1>1, <1>2 DEF Calm, ParentIsThere
  <2>3. DoneIsLeaving(stack', requests')
    BY <1>1, <1>2 DEF Calm, DoneIsLeaving
  <2>4. QED
    BY <2>1, <2>2, <2>3 DEF Calm
<1>3. CASE rs = <<>> /\ Len(requests') = 1 /\ requests'[1] = NewForm(s[n])
  <2>1. NewForm(s[n]).screen.parent = s[n].id
    <3>1. s[n] \in Controller /\ s[n].id # Fresh
      BY <1>1 DEF Ready
    <3>2. QED
      BY <3>1, Posted
  <2>2. OneBatch(requests')
    BY <1>3 DEF OneBatch
  <2>3. ParentIsThere(stack', requests')
    <3>1. n \in 1..n
      BY <1>1
    <3>2. QED
      BY <1>1, <1>3, <2>1, <3>1 DEF ParentIsThere
  <2>4. DoneIsLeaving(stack', requests')
    <3>1. \A i \in 1..n : ~(IsDone(s[i]) /\ s[i].parent = None)
      BY <1>3 DEF Calm, DoneIsLeaving
    <3>2. QED
      BY <1>1, <3>1 DEF DoneIsLeaving
  <2>5. QED
    BY <2>2, <2>3, <2>4 DEF Calm
<1>4. QED
  BY <1>2, <1>3, Pending

LEMMA HandlingKeepsEven ==
    ASSUME Free # {}, NEW s, NEW rs, Ready(s, rs), Initialise(s, rs),
           PostsAlone(s, rs), Even(s, rs), UNCHANGED exists
    PROVE  Even(stack, requests)'
<1> DEFINE n == Len(s)
<1>1. /\ Len(stack') = n /\ n \in Nat \ {0}
      /\ \A i \in 1..n : /\ stack'[i].id = s[i].id /\ stack'[i].kind = s[i].kind
                         /\ stack'[i].parent = s[i].parent
                         /\ IsDone(stack'[i]) => IsDone(s[i])
  BY Alike
<1>2. n \in 1..n /\ \A i \in 1..n : i > 1 => i - 1 \in 1..n
  BY <1>1
<1>3. CASE requests' = rs
  <2>1. AllDoneAreLeaving(stack', requests')
    BY <1>1, <1>3 DEF Even, AllDoneAreLeaving
  <2>2. AskedFromTheTop(stack', requests')
    <3>1. rs \in Seq(Ask)
      BY DEF Ready
    <3> SUFFICES ASSUME NEW k \in 1..Len(rs)
                 PROVE  k <= n /\ rs[k].by = stack'[n + 1 - k].id
      BY <1>1, <1>3 DEF AskedFromTheTop
    <3>2. k <= n /\ rs[k].by = s[n + 1 - k].id
      BY DEF Even, AskedFromTheTop
    <3>3. n + 1 - k \in 1..n
      BY <1>1, <3>1, <3>2
    <3>4. QED
      BY <1>1, <3>2, <3>3
  <2>3. FormsLieOnParents(stack', requests')
    BY <1>1, <1>2, <1>3 DEF Even, FormsLieOnParents, LiesOn
  <2>4. CreatorsAreFirst(stack', requests')
    BY <1>1, <1>3 DEF Even, CreatorsAreFirst, Creates
  <2>5. exists => CreatorsGo(stack', requests')
    BY <1>1, <1>3 DEF Even, CreatorsGo, Creates
  <2>6. QED
    BY <2>1, <2>2, <2>3, <2>4, <2>5 DEF Even
<1>4. CASE /\ rs = <<>> /\ Posts(s[n])
           /\ Len(requests') = 1 /\ requests'[1] = NewForm(s[n])
  <2>1. /\ NewForm(s[n]).by = s[n].id /\ NewForm(s[n]).op = "push"
        /\ NewForm(s[n]).screen.parent = s[n].id /\ NewForm(s[n]).screen.kind = "newForm"
    <3>1. s[n] \in Controller /\ s[n].id # Fresh
      BY <1>1 DEF Ready
    <3>2. QED
      BY <3>1, Posted
  <2>2. AllDoneAreLeaving(stack', requests')
    <3>1. \A i \in 1..n : ~IsDone(s[i])
      BY <1>4 DEF Even, AllDoneAreLeaving
    <3>2. QED
      BY <1>1, <3>1 DEF AllDoneAreLeaving
  <2>3. AskedFromTheTop(stack', requests')
    <3>1. n + 1 - 1 = n /\ 1 <= n /\ \A k \in 1..1 : k = 1
      BY <1>1
    <3>2. QED
      BY <1>1, <1>2, <1>4, <2>1, <3>1 DEF AskedFromTheTop
  <2>4. FormsLieOnParents(stack', requests')
    BY <1>1, <1>2, <1>4, <2>1 DEF Even, FormsLieOnParents, LiesOn, Posts
  <2>5. CreatorsAreFirst(stack', requests')
    BY <1>1, <1>4, <2>1 DEF Even, CreatorsAreFirst, Creates
  <2>6. ~exists
    <3>1. exists => Len(rs) = 1 \/ ~Creates(s[n])
      BY <1>2 DEF Even, CreatorsGo
    <3>2. QED
      BY <1>4, <3>1 DEF Posts, Creates
  <2>7. QED
    BY <2>2, <2>3, <2>4, <2>5, <2>6 DEF Even
<1>5. QED
  BY <1>3, <1>4, Pending

\* The stack and the requests that are left when one is handled.
Handled(s, rs) ==
    \/ /\ Handles("set") /\ rs = Tail(requests)
       /\ s = Append(Below, Head(requests).screen)
    \/ /\ Handles("push") /\ rs = Tail(requests)
       /\ s = Append(stack, Head(requests).screen)
    \/ Handles("pop") /\ Below # <<>> /\ rs = Tail(requests) /\ s = Below
    \/ rs = requests /\ s = stack

\* A screen to be opened is all that is left when its turn comes.
LEMMA OpensAlone ==
    ASSUME Structure, NEW op \in {"set", "push"}, Handles(op), Calm(stack, requests)
    PROVE  Len(requests) = 1 /\ Tail(requests) = <<>>
<1>1. Len(requests) \in Nat \ {0} /\ requests[1].op = op
  BY AtRequest
<1>2. Len(requests) <= 1
  BY <1>1 DEF Calm, OneBatch
<1>3. Len(requests) = 1
  BY <1>1, <1>2, AtMostOne
<1>4. Tail(requests) \in Seq(Ask) /\ Len(Tail(requests)) = 0
  BY <1>3, AtRequest
<1>5. QED
  BY <1>3, <1>4, NoneIsEmpty

\* The stack a set leaves, the stack a push leaves, and the requests a pop leaves.
LEMMA SetStack ==
    ASSUME Structure, Handles("set"), NEW s, s = Append(Below, Head(requests).screen)
    PROVE  /\ Len(s) = Len(stack) /\ Len(s) \in Nat \ {0}
           /\ s[Len(s)] = requests[1].screen
           /\ \A i \in 1..(Len(s) - 1) : s[i] = stack[i]
BY AtRequest, AtOpening

LEMMA PushStack ==
    ASSUME Structure, Handles("push"), NEW s, s = Append(stack, Head(requests).screen)
    PROVE  /\ Len(s) = Len(stack) + 1 /\ Len(s) \in Nat \ {0}
           /\ s[Len(s)] = requests[1].screen
           /\ \A i \in 1..(Len(s) - 1) : s[i] = stack[i]
BY AtRequest, AtOpening

LEMMA PopRequests ==
    ASSUME Structure, Handles("pop"), Calm(stack, requests), NEW rs, rs = Tail(requests)
    PROVE  /\ rs \in Seq(Ask) /\ Len(rs) \in Nat /\ Len(rs) <= 1
           /\ Len(rs) = Len(requests) - 1
           /\ \A k \in 1..Len(rs) : rs[k] = requests[k + 1]
           /\ rs # <<>> => /\ Len(requests) = 2 /\ rs[1] = requests[2] /\ rs[1].op \in {"pop", "set"}
                           /\ IsOpening(rs[1]) => rs[1].screen.kind \in {"generate", "error"}
<1>1. /\ Len(requests) \in Nat \ {0} /\ rs \in Seq(Ask) /\ Len(rs) = Len(requests) - 1
      /\ \A k \in 1..Len(rs) : rs[k] = requests[k + 1]
  BY AtRequest
<1>2. Len(requests) <= 1 \/ Len(requests) = 2
  BY DEF Calm, OneBatch
<1>3. CASE Len(requests) = 2
  <2>1. Len(rs) = 1 /\ 1 \in 1..1 /\ 1 + 1 = 2
    BY <1>1, <1>3
  <2>2. rs[1] = requests[2]
    BY <1>1, <2>1
  <2>3. /\ requests[2].op \in {"pop", "set"}
        /\ IsOpening(requests[2]) => requests[2].screen.kind \in {"generate", "error"}
    BY <1>3 DEF Calm, OneBatch, IsOpening
  <2>4. QED
    BY <1>1, <1>3, <2>1, <2>2, <2>3
<1>4. CASE Len(requests) <= 1
  <2>1. Len(rs) = 0
    BY <1>1, <1>4
  <2>2. rs = <<>>
    BY <1>1, <2>1, NoneIsEmpty
  <2>3. Len(rs) \in Nat /\ Len(rs) <= 1
    BY <2>1
  <2>4. QED
    BY <1>1, <2>2, <2>3
<1>5. QED
  BY <1>2, <1>3, <1>4

LEMMA PostsOnArrival ==
    ASSUME Structure, Running, Free # {}, Calm(stack, requests),
           NEW s, NEW rs, Handled(s, rs)
    PROVE  PostsAlone(s, rs)
<1>1. CASE Handles("set") \/ Handles("push")
  <2>1. Tail(requests) = <<>> /\ requests # <<>>
    BY <1>1, OpensAlone, AtRequest
  <2>2. CASE rs = Tail(requests)
    BY <2>1, <2>2 DEF PostsAlone
  <2>3. CASE rs = requests /\ s = stack
    BY <2>3, Held DEF PostsAlone, Posts
  <2>4. QED
    BY <2>2, <2>3 DEF Handled
<1>2. CASE Handles("pop") /\ Below # <<>> /\ s = Below
  <2>1. Len(s) \in 1..Len(stack) /\ s[Len(s)] = stack[Len(s)]
    BY <1>2, AtRequest
  <2>2. QED
    BY <2>1, Held DEF PostsAlone, Posts
<1>3. CASE s = stack
  BY <1>3, Held DEF PostsAlone, Posts
<1>4. QED
  BY <1>1, <1>2, <1>3 DEF Handled

\* A request handled leaves it calm.
LEMMA HandledCalm ==
    ASSUME Structure, Running, Free # {}, Calm(stack, requests),
           NEW s, NEW rs, Handled(s, rs)
    PROVE  /\ Calm(s, rs)
           /\ s[Len(s)].parent # None => \E i \in 1..Len(s) : s[i].id = s[Len(s)].parent
<1> DEFINE n == Len(stack)
<1>1. n \in Nat \ {0}
  BY Held
<1>2. \A i \in 1..n : IsDone(stack[i]) /\ stack[i].parent = None =>
         i = n /\ Len(requests) = 1 /\ requests[1].op \in {"pop", "set"}
  BY DEF Calm, DoneIsLeaving
<1>3. CASE Handles("set") /\ rs = Tail(requests) /\ s = Append(Below, Head(requests).screen)
  <2>1. /\ Len(s) = n /\ s[n] = requests[1].screen /\ \A i \in 1..(n - 1) : s[i] = stack[i]
    BY <1>3, SetStack
  <2>2. rs = <<>> /\ Len(requests) = 1 /\ requests[1].op = "set" /\ IsOpening(requests[1])
    BY <1>3, OpensAlone, AtRequest, AtOpening
  <2>3. s[n].parent = None /\ ~IsDone(s[n])
    BY <1>1, <2>1, <2>2, Wanted
  <2>4. DoneIsLeaving(s, rs)
    <3> SUFFICES ASSUME NEW i \in 1..n, IsDone(s[i]), s[i].parent = None PROVE FALSE
      BY <2>1 DEF DoneIsLeaving
    <3>1. i \in 1..(n - 1)
      BY <1>1, <2>3
    <3>2. i # n /\ s[i] = stack[i]
      BY <1>1, <2>1, <3>1
    <3>3. QED
      BY <1>2, <3>2
  <2>5. QED
    BY <2>1, <2>2, <2>3, <2>4 DEF Calm, OneBatch, ParentIsThere
<1>4. CASE Handles("push") /\ rs = Tail(requests) /\ s = Append(stack, Head(requests).screen)
  <2>1. /\ Len(s) = n + 1 /\ s[n + 1] = requests[1].screen /\ \A i \in 1..n : s[i] = stack[i]
    BY <1>1, <1>4, PushStack
  <2>2. rs = <<>> /\ Len(requests) = 1 /\ requests[1].op = "push" /\ IsOpening(requests[1])
    BY <1>4, OpensAlone, AtRequest, AtOpening
  <2>3. ~IsDone(s[n + 1])
    BY <1>1, <2>1, <2>2, Wanted
  <2>4. DoneIsLeaving(s, rs)
    BY <1>1, <1>2, <2>1, <2>2, <2>3 DEF DoneIsLeaving
  <2>5. ASSUME s[n + 1].parent # None PROVE \E i \in 1..(n + 1) : s[i].id = s[n + 1].parent
    <3>1. requests # <<>> /\ requests[1].screen.parent # None
      BY <1>4, <2>1, <2>5, AtRequest
    <3>2. PICK i \in 1..n : stack[i].id = requests[1].screen.parent
      BY <2>2, <3>1 DEF Calm, ParentIsThere
    <3>3. QED
      BY <1>1, <2>1, <3>2
  <2>6. QED
    BY <2>1, <2>2, <2>4, <2>5 DEF Calm, OneBatch, ParentIsThere
<1>5. CASE Handles("pop") /\ Below # <<>> /\ rs = Tail(requests) /\ s = Below
  <2>1. /\ Len(s) = n - 1 /\ n - 1 \in 1..n /\ \A i \in 1..(n - 1) : s[i] = stack[i]
    BY <1>5, AtRequest
  <2>2. /\ Len(rs) \in Nat /\ Len(rs) <= 1 /\ (rs # <<>> => rs[1].op \in {"pop", "set"})
    BY <1>5, PopRequests
  <2>3. DoneIsLeaving(s, rs)
    BY <1>1, <1>2, <2>1 DEF DoneIsLeaving
  <2>4. ParentIsThere(s, rs)
    BY <2>2 DEF ParentIsThere
  <2>5. OneBatch(rs)
    BY <2>2 DEF OneBatch
  <2>6. ASSUME stack[n - 1].parent # None
        PROVE  \E i \in 1..(n - 1) : s[i].id = stack[n - 1].parent
    <3>1. PICK j \in 1..(n - 1 - 1) : stack[j].id = stack[n - 1].parent
      BY <2>1, <2>6, Held
    <3>2. j \in 1..(n - 1)
      BY <1>1, <3>1
    <3>3. QED
      BY <2>1, <3>1, <3>2
  <2>7. s[n - 1] = stack[n - 1]
    BY <1>1, <2>1
  <2>8. QED
    BY <2>1, <2>3, <2>4, <2>5, <2>6, <2>7 DEF Calm
<1>6. CASE rs = requests /\ s = stack
  <2>1. ASSUME stack[n].parent # None PROVE \E i \in 1..n : stack[i].id = stack[n].parent
    <3>1. n \in 1..n
      BY <1>1
    <3>2. PICK j \in 1..(n - 1) : stack[j].id = stack[n].parent
      BY <2>1, <3>1, Held
    <3>3. QED
      BY <1>1, <3>2
  <2>2. QED
    BY <1>6, <2>1
<1>7. QED
  BY <1>3, <1>4, <1>5, <1>6 DEF Handled

\* A request handled leaves it even: what it does, it does to the controller it was
\* asked for.
LEMMA HandledEven ==
    ASSUME Structure, Running, Free # {}, Calm(stack, requests), Even(stack, requests),
           NEW s, NEW rs, Handled(s, rs)
    PROVE  Even(s, rs)
<1> DEFINE n == Len(stack)
<1>1. n \in Nat \ {0}
  BY Held
<1>2. /\ \A i \in 1..n : IsDone(stack[i]) => i = n /\ requests[1].op \in {"pop", "set"}
      /\ \A i \in 1..n : stack[i].parent # None => i > 1 /\ LiesOn(stack[i], stack[i - 1])
      /\ requests # <<>> /\ requests[1].op = "push" => LiesOn(requests[1].screen, stack[n])
      /\ \A i \in 1..n : Creates(stack[i]) => i = 1
  BY DEF Even, AllDoneAreLeaving, FormsLieOnParents, CreatorsAreFirst
<1>3. exists => \/ /\ \A i \in 1..n : ~Creates(stack[i])
                   /\ \A k \in 1..Len(requests) :
                         IsOpening(requests[k]) => ~Creates(requests[k].screen)
                \/ /\ n = 1 /\ Len(requests) = 1
                   /\ requests[1].op = "set" /\ ~Creates(requests[1].screen)
  BY DEF Even, CreatorsGo
<1>4. CASE Handles("set") /\ rs = Tail(requests) /\ s = Append(Below, Head(requests).screen)
  <2>1. /\ Len(s) = n /\ s[n] = requests[1].screen /\ \A i \in 1..(n - 1) : s[i] = stack[i]
    BY <1>4, SetStack
  <2>2. /\ rs = <<>> /\ Len(requests) = 1 /\ 1 \in 1..Len(requests)
        /\ requests[1].op = "set" /\ IsOpening(requests[1])
    BY <1>4, OpensAlone, AtRequest, AtOpening
  <2>3. s[n].parent = None /\ ~IsDone(s[n])
    BY <2>1, <2>2, Wanted
  <2>4. Creates(s[n]) => n = 1
    BY <2>1, <2>2 DEF Even, CreatorsAreFirst
  <2>5. \A i \in 1..n : i = n \/ (i \in 1..(n - 1) /\ i # n)
    BY <1>1
  <2>6. \A i \in 1..(n - 1) : i \in 1..n /\ (i > 1 => i - 1 \in 1..(n - 1))
    BY <1>1
  <2>7. AllDoneAreLeaving(s, rs)
    BY <1>2, <2>1, <2>3, <2>5, <2>6 DEF AllDoneAreLeaving
  <2>8. AskedFromTheTop(s, rs)
    BY <2>2 DEF AskedFromTheTop
  <2>9. FormsLieOnParents(s, rs)
    BY <1>2, <2>1, <2>2, <2>3, <2>5, <2>6 DEF FormsLieOnParents
  <2>10. CreatorsAreFirst(s, rs)
    BY <1>2, <2>1, <2>2, <2>4, <2>5, <2>6 DEF CreatorsAreFirst
  <2>11. exists => CreatorsGo(s, rs)
    <3> SUFFICES ASSUME exists PROVE \A i \in 1..n : ~Creates(s[i])
      BY <2>1, <2>2 DEF CreatorsGo
    <3>1. ~Creates(s[n])
      BY <1>3, <2>1, <2>2
    <3>2. ASSUME NEW i \in 1..(n - 1) PROVE ~Creates(stack[i])
      <4>1. i \in 1..n /\ n # 1
        BY <1>1, BelowTheTop
      <4>2. QED
        BY <1>3, <4>1
    <3>3. QED
      BY <2>1, <2>5, <3>1, <3>2
  <2>12. QED
    BY <2>7, <2>8, <2>9, <2>10, <2>11 DEF Even
<1>5. CASE Handles("push") /\ rs = Tail(requests) /\ s = Append(stack, Head(requests).screen)
  <2>1. /\ Len(s) = n + 1 /\ s[n + 1] = requests[1].screen /\ \A i \in 1..n : s[i] = stack[i]
    BY <1>1, <1>5, PushStack
  <2>2. /\ rs = <<>> /\ Len(requests) = 1 /\ 1 \in 1..Len(requests) /\ requests # <<>>
        /\ requests[1].op = "push" /\ IsOpening(requests[1])
    BY <1>5, OpensAlone, AtRequest, AtOpening
  <2>3. ~IsDone(s[n + 1])
    BY <2>1, <2>2, Wanted
  <2>4. ~Creates(s[n + 1])
    BY <2>1, <2>2 DEF Even, CreatorsAreFirst
  <2>5. /\ \A i \in 1..(n + 1) : i = n + 1 \/ i \in 1..n
        /\ \A i \in 1..n : i > 1 => i - 1 \in 1..n
        /\ n + 1 > 1 /\ n \in 1..n /\ n + 1 - 1 = n
    BY <1>1
  <2>6. AllDoneAreLeaving(s, rs)
    BY <1>2, <2>1, <2>2, <2>3, <2>5 DEF AllDoneAreLeaving
  <2>7. AskedFromTheTop(s, rs)
    BY <2>2 DEF AskedFromTheTop
  <2>8. FormsLieOnParents(s, rs)
    <3>1. LiesOn(s[n + 1], s[n + 1 - 1])
      BY <1>2, <2>1, <2>2, <2>5
    <3>2. QED
      BY <1>2, <2>1, <2>2, <2>5, <3>1 DEF FormsLieOnParents
  <2>9. CreatorsAreFirst(s, rs)
    BY <1>2, <2>1, <2>2, <2>4, <2>5 DEF CreatorsAreFirst
  <2>10. exists => CreatorsGo(s, rs)
    BY <1>3, <2>1, <2>2, <2>4, <2>5 DEF CreatorsGo
  <2>11. QED
    BY <2>6, <2>7, <2>8, <2>9, <2>10 DEF Even
<1>6. CASE Handles("pop") /\ Below # <<>> /\ rs = Tail(requests) /\ s = Below
  <2>1. /\ Len(s) = n - 1 /\ n - 1 \in 1..n /\ \A i \in 1..(n - 1) : s[i] = stack[i]
        /\ requests[1].op = "pop"
    BY <1>6, AtRequest
  <2>2. /\ rs \in Seq(Ask) /\ Len(rs) \in Nat /\ Len(rs) <= 1 /\ Len(rs) = Len(requests) - 1
        /\ Len(requests) \in Nat
        /\ \A k \in 1..Len(rs) : rs[k] = requests[k + 1]
        /\ rs # <<>> => rs[1].op \in {"pop", "set"}
    BY <1>6, PopRequests, AtRequest
  <2>3. \A i \in 1..(n - 1) : i \in 1..n /\ i # n /\ (i > 1 => i - 1 \in 1..(n - 1))
    BY <1>1
  <2>4. AllDoneAreLeaving(s, rs)
    BY <1>2, <2>1, <2>3 DEF AllDoneAreLeaving
  <2>5. ASSUME NEW k \in 1..Len(rs)
        PROVE  /\ k \in Nat /\ k + 1 \in 1..Len(requests) /\ rs[k] = requests[k + 1]
               /\ k <= n - 1 /\ n - k \in 1..(n - 1)
               /\ rs[k].by = stack[n - k].id
    <3>1. k \in Nat \ {0} /\ k + 1 \in 1..Len(requests) /\ rs[k] = requests[k + 1]
      BY <2>2
    <3>2. k + 1 <= n /\ requests[k + 1].by = stack[n + 1 - (k + 1)].id
      BY <3>1 DEF Even, AskedFromTheTop
    <3>3. n + 1 - (k + 1) = n - k /\ k <= n - 1 /\ n - k \in 1..(n - 1)
      BY <1>1, <3>1, <3>2
    <3>4. QED
      BY <3>1, <3>2, <3>3
  <2>6. AskedFromTheTop(s, rs)
    <3> SUFFICES ASSUME NEW k \in 1..Len(rs)
                 PROVE  k <= n - 1 /\ rs[k].by = s[n - 1 + 1 - k].id
      BY <2>1 DEF AskedFromTheTop
    <3>1. n - 1 + 1 - k = n - k
      BY <1>1, <2>5
    <3>2. QED
      BY <2>1, <2>5, <3>1
  <2>7. FormsLieOnParents(s, rs)
    BY <1>2, <2>1, <2>2, <2>3 DEF FormsLieOnParents
  <2>8. CreatorsAreFirst(s, rs)
    <3>1. ASSUME NEW k \in 1..Len(rs), IsOpening(rs[k]), Creates(rs[k].screen)
          PROVE  rs[k].op = "set" /\ k = n - 1
      <4>1. rs[k].op = "set" /\ k + 1 = n
        BY <2>5, <3>1 DEF Even, CreatorsAreFirst
      <4>2. QED
        BY <1>1, <2>5, <4>1
    <3>2. QED
      BY <1>2, <2>1, <2>3, <3>1 DEF CreatorsAreFirst
  <2>9. exists => CreatorsGo(s, rs)
    BY <1>3, <2>1, <2>3, <2>5 DEF CreatorsGo
  <2>10. QED
    BY <2>4, <2>6, <2>7, <2>8, <2>9 DEF Even
<1>7. CASE rs = requests /\ s = stack
  BY <1>7
<1>8. QED
  BY <1>4, <1>5, <1>6, <1>7 DEF Handled

-----------------------------------------------------------------------------
(* Keys that wait for their turn, and calls that do not throw. *)

\* When nothing came early and nothing threw, a key finds the queue empty.
LEMMA SmoothKey ==
    ASSUME Structure, NEW s, NEW rs, Effect(s, rs), Smooth'
    PROVE  Smooth /\ requests = <<>> /\ requests' = rs /\ thrown' = thrown
<1>1. rushed' = 0 /\ thrown' = 0
  BY DEF Smooth
<1>2. rushed = 0 /\ requests = <<>> /\ requests' = rs
  BY <1>1, PatientKey
<1>3. thrown \in Nat /\ thrown' \in {thrown, thrown + 1}
  BY BoundAssumption DEF Structure, TypeOK, Effect
<1>4. thrown = 0
  BY <1>1, <1>3
<1>5. QED
  BY <1>1, <1>2, <1>4 DEF Smooth

\* The form of a new keychain lies on the first screen.
LEMMA NewFormIsSecond ==
    ASSUME Structure, Running, Even(stack, <<>>), Top.kind = "newForm"
    PROVE  /\ Len(stack) = 2 /\ Creates(stack[1])
           /\ Top.parent = stack[1].id /\ ~exists
<1> DEFINE n == Len(stack)
<1>1. /\ n \in Nat \ {0} /\ Top = stack[n] /\ stack # <<>>
  BY TopIsLast DEF Structure, TypeOK, Running
<1>2. n \in 1..n /\ Shape(Top)
  BY <1>1 DEF Structure, Initialised
<1>3. Top.parent # None
  BY <1>2 DEF Shape
<1>4. n > 1 /\ LiesOn(stack[n], stack[n - 1])
  BY <1>1, <1>2, <1>3 DEF Even, FormsLieOnParents
<1>5. n - 1 \in 1..n /\ Creates(stack[n - 1]) /\ Top.parent = stack[n - 1].id
  BY <1>1, <1>3, <1>4 DEF LiesOn, Creates
<1>6. n - 1 = 1
  BY <1>5 DEF Even, CreatorsAreFirst
<1>7. n = 2
  BY <1>1, <1>6
<1>8. ~exists
  BY <1>5 DEF Even, CreatorsGo
<1>9. QED
  BY <1>5, <1>6, <1>7, <1>8

\* What a key asks for, it asks for the controllers on top.
LEMMA KeyKeepsEven ==
    ASSUME Structure, NEW s, NEW rs, Effect(s, rs), Even(stack, <<>>),
           requests = <<>>, requests' = rs, thrown' = thrown
    PROVE  Even(stack, requests)'
<1> DEFINE n == Len(stack)
<1>1. /\ n \in Nat \ {0} /\ Running /\ Free # {} /\ Top = stack[n] /\ n \in 1..n
      /\ Len(stack') \in {n, n + 1}
  BY AtKey, AfterKey DEF Effect, Key
<1>2. \A i \in 1..n : /\ stack'[i].id = stack[i].id /\ stack'[i].kind = stack[i].kind
                      /\ stack'[i].parent = stack[i].parent
  BY KeyKeepsControllers
<1>3. \A i \in 1..n : ~IsDone(stack[i])
  BY DEF Even, AllDoneAreLeaving
<1>4. Actor = Top
  BY <1>1, <1>3, ActorIsThere
<1>5. /\ \A i \in 1..n : stack[i].parent # None => i > 1 /\ LiesOn(stack[i], stack[i - 1])
      /\ \A i \in 1..n : Creates(stack[i]) => i = 1
      /\ exists => \A i \in 1..n : ~Creates(stack[i])
  BY DEF Even, FormsLieOnParents, CreatorsAreFirst, CreatorsGo
<1>6. \A i \in 1..n : i = n \/ (i < n /\ i \in 1..(n - 1))
  BY <1>1
<1>7. \A i \in 1..n : i > 1 => i - 1 \in 1..n
  BY <1>1
<1>8. \A i \in 1..n : IsDone(stack'[i]) => i = n /\ stack' = s /\ rs # <<>> /\ rs[1].op \in {"pop", "set"}
  <2> SUFFICES ASSUME NEW i \in 1..n, IsDone(stack'[i])
               PROVE  i = n /\ stack' = s /\ rs # <<>> /\ rs[1].op \in {"pop", "set"}
    OBVIOUS
  <2>1. CASE i \in 1..(n - 1)
    BY <1>3, <2>1, AfterKey
  <2>2. CASE i = n
    <3>1. IsDone(s[n]) /\ ~IsDone(Top)
      BY <1>1, <1>3, <2>2, AfterKey
    <3>2. QED
      BY <2>2, <3>1 DEF Effect, Finishes
  <2>3. QED
    BY <1>6, <2>1, <2>2
<1>9. CASE stack' = Append(s, Make("error"))
  <2>1. rs = <<>> /\ Len(stack') = n + 1 /\ stack'[n + 1] = Make("error")
    <3>1. s \in Seq(Controller) /\ Len(s) = n
      BY DEF Effect, Touched
    <3>2. stack' # s /\ Len(stack') = n + 1
      BY <1>1, <1>9, <3>1
    <3>3. rs = <<>>
      BY <3>2 DEF Effect
    <3>4. QED
      BY <3>2, <3>3, AfterKey
  <2>2. Make("error").parent = None /\ ~IsDone(Make("error")) /\ ~Creates(Make("error"))
    BY <1>1, MadeScreen DEF Creates
  <2>3. \A i \in 1..(n + 1) : i = n + 1 \/ i \in 1..n
    BY <1>1
  <2>4. AllDoneAreLeaving(stack', rs)
    BY <1>8, <2>1, <2>2, <2>3 DEF AllDoneAreLeaving
  <2>5. AskedFromTheTop(stack', rs)
    BY <2>1 DEF AskedFromTheTop
  <2>6. FormsLieOnParents(stack', rs)
    BY <1>2, <1>5, <1>7, <2>1, <2>2, <2>3 DEF FormsLieOnParents, LiesOn
  <2>7. CreatorsAreFirst(stack', rs)
    BY <1>2, <1>5, <2>1, <2>2, <2>3 DEF CreatorsAreFirst, Creates
  <2>8. exists' => CreatorsGo(stack', rs)
    <3>1. exists' => exists
      <4>1. Len(rs) # 1
        BY <2>1
      <4>2. exists' = exists
        BY <4>1 DEF Effect, Exists
      <4>3. QED
        BY <4>2
    <3>2. QED
      BY <1>2, <1>5, <2>1, <2>2, <2>3, <3>1 DEF CreatorsGo, Creates
  <2>9. QED
    BY <2>4, <2>5, <2>6, <2>7, <2>8 DEF Even
<1>10. CASE stack' = s
  <2>1. Len(stack') = n
    BY <1>10 DEF Effect, Touched
  <2>2. Len(rs) \in Nat /\ Len(rs) <= 2 /\ rs \in Seq(Ask)
    BY AfterKey
  <2>3. CASE Len(rs) = 2
    <3>1. /\ Top.kind = "newForm" /\ rs[1].op = "pop" /\ rs[1].by = Top.id /\ rs[2].by = Top.parent
          /\ ~IsOpening(rs[1])
          /\ \/ rs[2].op = "pop"
             \/ rs[2].op = "set" /\ rs[2].screen.kind \in {"generate", "error"}
      BY <2>3 DEF Effect, Asked, IsOpening
    <3>2. n = 2 /\ Top.parent = stack[1].id /\ Creates(stack[1]) /\ ~exists
      BY <1>1, <3>1, NewFormIsSecond
    <3>3. rs # <<>> /\ \A k \in 1..2 : k = 1 \/ k = 2
      BY <2>3
    <3>4. AllDoneAreLeaving(stack', rs)
      BY <1>8, <2>1 DEF AllDoneAreLeaving
    <3>5. AskedFromTheTop(stack', rs)
      <4>1. 2 + 1 - 1 = 2 /\ 2 + 1 - 2 = 1 /\ 1 \in 1..n /\ 2 \in 1..n
        BY <3>2
      <4>2. stack'[2].id = rs[1].by /\ stack'[1].id = rs[2].by
        BY <1>1, <1>2, <3>1, <3>2, <4>1
      <4>3. QED
        BY <2>1, <2>3, <3>2, <3>3, <4>1, <4>2 DEF AskedFromTheTop
    <3>6. FormsLieOnParents(stack', rs)
      BY <1>2, <1>5, <1>7, <2>1, <3>1 DEF FormsLieOnParents, LiesOn
    <3>7. CreatorsAreFirst(stack', rs)
      <4>1. IsOpening(rs[2]) => rs[2].op = "set"
        BY <3>1 DEF IsOpening
      <4>2. QED
        BY <1>2, <1>5, <2>1, <2>3, <3>1, <3>2, <3>3, <4>1 DEF CreatorsAreFirst, Creates
    <3>8. ~exists'
      <4>1. ~(exists' # exists)
        BY <2>3 DEF Effect, Exists
      <4>2. QED
        BY <3>2, <4>1
    <3>9. QED
      BY <3>4, <3>5, <3>6, <3>7, <3>8 DEF Even
  <2>4. CASE Len(rs) <= 1
    <3>1. rs = <<>> \/ Len(rs) = 1
      <4>1. CASE Len(rs) = 0
        BY <2>2, <4>1, NoneIsEmpty
      <4>2. CASE Len(rs) # 0
        BY <2>2, <2>4, <4>2, AtMostOne
      <4>3. QED
        BY <4>1, <4>2
    <3>2. AllDoneAreLeaving(stack', rs)
      BY <1>8, <2>1 DEF AllDoneAreLeaving
    <3>3. CASE rs = <<>>
      <4>1. AskedFromTheTop(stack', rs)
        BY <3>3 DEF AskedFromTheTop
      <4>2. FormsLieOnParents(stack', rs)
        BY <1>2, <1>5, <1>7, <2>1, <3>3 DEF FormsLieOnParents, LiesOn
      <4>3. CreatorsAreFirst(stack', rs)
        BY <1>2, <1>5, <2>1, <3>3 DEF CreatorsAreFirst, Creates
      <4>4. exists' => exists
        <5>1. Len(rs) # 1
          BY <3>3
        <5>2. exists' = exists
          BY <5>1 DEF Effect, Exists
        <5>3. QED
          BY <5>2
      <4>5. exists' => CreatorsGo(stack', rs)
        BY <1>2, <1>5, <2>1, <3>3, <4>4 DEF CreatorsGo, Creates
      <4>6. QED
        BY <3>2, <4>1, <4>2, <4>3, <4>5 DEF Even
    <3>4. CASE Len(rs) = 1
      <4>1. /\ rs # <<>> /\ rs[1].by = Top.id
            /\ IsOpening(rs[1]) => AskedScreen(rs[1])
            /\ IsOpening(rs[1]) /\ Creates(rs[1].screen) => Creates(Top)
            /\ \A k \in 1..1 : k = 1
        <5>1. 1 \in 1..Len(rs) /\ rs # <<>> /\ \A k \in 1..1 : k = 1
          BY <3>4
        <5>2. QED
          BY <1>4, <3>4, <5>1 DEF Effect, Asked
      <4>2. AskedFromTheTop(stack', rs)
        <5>1. n + 1 - 1 = n /\ 1 <= n
          BY <1>1
        <5>2. stack'[n].id = rs[1].by
          BY <1>1, <1>2, <4>1
        <5>3. QED
          BY <2>1, <3>4, <4>1, <5>1, <5>2 DEF AskedFromTheTop
      <4>3. FormsLieOnParents(stack', rs)
        <5>1. ASSUME rs[1].op = "push" PROVE LiesOn(rs[1].screen, stack'[n])
          <6>1. /\ rs[1].screen.parent \in {None, Top.id}
                /\ rs[1].screen.kind # "newForm"
            BY <1>4, <4>1, <5>1 DEF AskedScreen, IsOpening
          <6>2. stack'[n].id = Top.id
            BY <1>1, <1>2
          <6>3. QED
            BY <6>1, <6>2 DEF LiesOn
        <5>2. QED
          BY <1>2, <1>5, <1>7, <2>1, <5>1 DEF FormsLieOnParents, LiesOn
      <4>4. CreatorsAreFirst(stack', rs)
        <5>1. ASSUME IsOpening(rs[1]), Creates(rs[1].screen) PROVE rs[1].op = "set" /\ n = 1
          BY <1>1, <1>5, <4>1, <5>1 DEF AskedScreen, IsOpening
        <5>2. QED
          BY <1>2, <1>5, <2>1, <3>4, <4>1, <5>1 DEF CreatorsAreFirst, Creates
      <4>5. exists' => CreatorsGo(stack', rs)
        <5>1. CASE exists
          <6>1. ~Creates(Top)
            BY <1>1, <1>5, <5>1
          <6>2. QED
            BY <1>2, <1>5, <2>1, <3>4, <4>1, <5>1, <6>1 DEF CreatorsGo, Creates
        <5>2. CASE exists' # exists
          <6>1. Creates(Top) /\ rs[1].op = "set" /\ rs[1].screen.kind = "main"
            BY <1>4, <5>2 DEF Effect, Exists
          <6>2. n = 1 /\ ~Creates(rs[1].screen)
            BY <1>1, <1>5, <6>1 DEF Creates
          <6>3. QED
            BY <2>1, <3>4, <6>1, <6>2 DEF CreatorsGo
        <5>3. QED
          BY <5>1, <5>2
      <4>6. QED
        BY <3>2, <4>2, <4>3, <4>4, <4>5 DEF Even
    <3>5. QED
      BY <3>1, <3>3, <3>4
  <2>5. QED
    BY <2>2, <2>3, <2>4, TwoOrFewer
<1>11. QED
  BY <1>9, <1>10 DEF Effect

-----------------------------------------------------------------------------
(* The invariant. *)

\* Each kind of step keeps all three parts.
LEMMA KeyKeepsInvariant ==
    ASSUME IndInv, KeyStep PROVE IndInv'
<1>1. PICK s, rs : Effect(s, rs)
  BY KeyEffect DEF IndInv
<1>2. Structure' /\ Patient'
  BY <1>1, KeyKeepsStructure, KeyKeepsPatient DEF IndInv
<1>3. ASSUME Smooth' PROVE Even(stack, requests)'
  <2>1. Smooth /\ requests = <<>> /\ requests' = rs /\ thrown' = thrown
    BY <1>1, <1>3, SmoothKey DEF IndInv
  <2>2. Even(stack, <<>>)
    BY <2>1 DEF IndInv, Steady
  <2>3. QED
    BY <1>1, <2>1, <2>2, KeyKeepsEven DEF IndInv
<1>4. Steady'
  BY <1>3 DEF Steady
<1>5. QED
  BY <1>2, <1>4 DEF IndInv

LEMMA HandleKeepsInvariant ==
    ASSUME IndInv, HandleStep PROVE IndInv'
<1>1. PICK s, rs : /\ Ready(s, rs) /\ Initialise(s, rs) /\ Running /\ Free # {}
                   /\ Handled(s, rs) /\ UNCHANGED <<exists, rushed, thrown>>
  BY HandleEffect DEF IndInv, Handled
<1>2. Structure /\ Structure'
  BY HandleKeepsStructure DEF IndInv
<1>3. ASSUME rushed' = 0 PROVE /\ Calm(stack, requests) /\ PostsAlone(s, rs)
                               /\ broken' = None /\ Calm(stack, requests)'
  <2>1. Calm(stack, requests)
    BY <1>1, <1>3 DEF IndInv, Patient
  <2>2. /\ Calm(s, rs) /\ PostsAlone(s, rs)
        /\ s[Len(s)].parent # None => \E i \in 1..Len(s) : s[i].id = s[Len(s)].parent
    BY <1>1, <1>2, <2>1, HandledCalm, PostsOnArrival
  <2>3. Calm(stack, requests)'
    BY <1>1, <2>2, HandlingKeepsCalm
  <2>4. broken' = None
    <3>1. s \in Seq(Controller) /\ Last(s) = s[Len(s)]
      BY <1>1 DEF Ready, Last
    <3>2. s[Len(s)].parent # None => \E p \in ToSet(s) : p.id = s[Len(s)].parent
      BY <2>2, <3>1 DEF ToSet
    <3>3. QED
      BY <1>1, <3>1, <3>2 DEF Initialise
  <2>5. QED
    BY <2>1, <2>2, <2>3, <2>4
<1>4. Patient'
  BY <1>3 DEF Patient
<1>5. ASSUME Smooth' PROVE Even(stack, requests)'
  <2>1. rushed' = 0 /\ Smooth
    BY <1>1, <1>5 DEF Smooth
  <2>2. Even(stack, requests)
    BY <2>1 DEF IndInv, Steady
  <2>3. Even(s, rs)
    BY <1>1, <1>2, <1>3, <2>1, <2>2, HandledEven
  <2>4. QED
    BY <1>1, <1>3, <2>1, <2>3, HandlingKeepsEven
<1>6. Steady'
  BY <1>5 DEF Steady
<1>7. QED
  BY <1>2, <1>4, <1>6 DEF IndInv

\* What is dropped from the queue when the loop ends holds no main screen.
LEMMA EndKeepsInvariant ==
    ASSUME IndInv, End PROVE IndInv'
<1>1. /\ stack' = <<>> /\ requests' = <<>>
      /\ broken' = IF \E c \in Coming : c.kind = "main" THEN "windows" ELSE None
      /\ UNCHANGED <<exists, rushed, thrown>>
      /\ Handles("quit") \/ Handles("pop")
  BY DEF End, haste
<1>2. Structure /\ Structure'
  BY EndKeepsStructure DEF IndInv
<1>3. ASSUME Calm(stack, requests), NEW c \in Coming PROVE c.kind # "main"
  <2>1. PICK k \in 1..Len(requests) : IsOpening(requests[k]) /\ requests[k].screen = c
    BY <1>1, <1>2, AtRequest DEF Coming, ToSet
  <2>2. /\ ~IsOpening(requests[1]) /\ Len(requests) \in Nat \ {0}
    BY <1>1, <1>2, AtRequest DEF IsOpening
  <2>3. Len(requests) = 2
    <3>1. ASSUME Len(requests) <= 1 PROVE FALSE
      <4>1. Len(requests) = 1
        BY <2>2, <3>1, AtMostOne
      <4>2. k = 1
        BY <2>1, <4>1
      <4>3. QED
        BY <2>1, <2>2, <4>2
    <3>2. QED
      BY <1>3, <3>1 DEF Calm, OneBatch
  <2>4. k = 2
    BY <2>1, <2>2, <2>3
  <2>5. requests[2].screen.kind \in {"generate", "error"}
    BY <1>3, <2>1, <2>2, <2>3, <2>4 DEF Calm, OneBatch, IsOpening
  <2>6. QED
    BY <2>1, <2>4, <2>5
<1>4. Patient'
  <2> SUFFICES ASSUME rushed' = 0 PROVE broken' = None /\ Calm(stack, requests)'
    BY DEF Patient
  <2>1. Calm(stack, requests)
    BY <1>1 DEF IndInv, Patient
  <2>2. broken' = None
    BY <1>1, <1>3, <2>1
  <2>3. Calm(<<>>, <<>>)
    BY DEF Calm, OneBatch, ParentIsThere, DoneIsLeaving
  <2>4. QED
    BY <1>1, <2>2, <2>3
<1>5. Even(stack, requests)'
  BY <1>1 DEF Even, AllDoneAreLeaving, AskedFromTheTop, FormsLieOnParents,
              CreatorsAreFirst, CreatorsGo
<1>6. QED
  BY <1>2, <1>4, <1>5 DEF IndInv, Steady

LEMMA InitInvariant ==
    ASSUME Init PROVE IndInv
<1>1. Structure
  BY InitStructure
<1>2. PICK c : /\ stack = <<c>> /\ c.parent = None /\ ~IsDone(c) /\ (exists => ~Creates(c))
  BY DEF Init, IsDone, Creates
<1>3. requests = <<>> /\ broken = None /\ Len(stack) = 1 /\ stack[1] = c
  BY <1>2 DEF Init
<1>4. \A i \in 1..1 : i = 1
  OBVIOUS
<1>5. Patient
  BY <1>2, <1>3, <1>4 DEF Patient, Calm, OneBatch, ParentIsThere, DoneIsLeaving
<1>6. Even(stack, requests)
  BY <1>2, <1>3, <1>4 DEF Even, AllDoneAreLeaving, AskedFromTheTop, FormsLieOnParents,
                          CreatorsAreFirst, CreatorsGo
<1>7. QED
  BY <1>1, <1>5, <1>6 DEF IndInv, Steady

LEMMA StutterKeepsInvariant ==
    ASSUME IndInv, UNCHANGED vars PROVE IndInv'
<1>1. UNCHANGED <<stack, requests, exists, broken, rushed, resized, thrown>>
  BY DEF vars, haste
<1>2. Structure'
  BY <1>1 DEF IndInv, Structure, TypeOK, Initialised, Uninitialised, Distinct, ParentsBelow,
              MenuComesBack, Top, Last
<1>3. Patient'
  BY <1>1 DEF IndInv, Patient
<1>4. Steady'
  BY <1>1 DEF IndInv, Steady, Smooth, Even, CreatorsGo
<1>5. QED
  BY <1>2, <1>3, <1>4 DEF IndInv

\* Whatever is typed, however early, and whatever fails or is resized, the
\* structure holds; its other two parts, for those who wait.
THEOREM Invariance == Spec => []IndInv
<1>1. Init => IndInv
  BY InitInvariant
<1>2. IndInv /\ [Next]_vars => IndInv'
  <2> SUFFICES ASSUME IndInv, [Next]_vars PROVE IndInv'
    OBVIOUS
  <2>1. CASE KeyStep
    BY <2>1, KeyKeepsInvariant
  <2>2. CASE HandleStep
    BY <2>2, HandleKeepsInvariant
  <2>3. CASE End
    BY <2>3, EndKeepsInvariant
  <2>4. CASE UNCHANGED vars
    BY <2>4, StutterKeepsInvariant
  <2>5. QED
    BY <2>1, <2>2, <2>3, <2>4 DEF Next, KeyStep, HandleStep
<1>3. QED
  BY <1>1, <1>2, PTL DEF Spec

-----------------------------------------------------------------------------
(* What follows from it. *)

\* The stack holds well-formed controllers, no two with one identity, and the
\* counters keep to their bounds.
THEOREM TypeCorrect == Spec => []TypeOK
<1>1. IndInv => TypeOK
  BY DEF IndInv, Structure
<1>2. QED
  BY <1>1, Invariance, PTL

\* For a user who waits, and without failing calls, the request at the head of
\* the queue was asked for the controller it finds on top.
THEOREM RequestsMeetTheirScreen == Spec => []MeetsItsScreen
<1>1. IndInv => MeetsItsScreen
  <2> SUFFICES ASSUME IndInv, Smooth, requests # <<>> PROVE Head(requests).by = Top.id
    BY DEF MeetsItsScreen
  <2>1. /\ requests \in Seq(Ask) /\ stack \in Seq(Controller) /\ stack # <<>>
    BY DEF IndInv, Structure, TypeOK
  <2>2. /\ Head(requests) = requests[1] /\ 1 \in 1..Len(requests)
        /\ Top = stack[Len(stack)] /\ Len(stack) + 1 - 1 = Len(stack)
    BY <2>1, TopIsLast
  <2>3. requests[1].by = stack[Len(stack) + 1 - 1].id
    BY <2>2 DEF IndInv, Steady, Even, AskedFromTheTop
  <2>4. QED
    BY <2>2, <2>3
<1>2. QED
  BY <1>1, Invariance, PTL

\* The raw pointer of a form to its parent dangles only after an early key.
THEOREM ParentsAreAlive == Spec => []ParentsOutliveForms
<1>1. IndInv => ParentsOutliveForms
  <2> SUFFICES ASSUME IndInv, broken = "parent" PROVE rushed > 0
    BY DEF ParentsOutliveForms
  <2>1. rushed \in Nat /\ rushed # 0
    BY IdAssumption DEF IndInv, Structure, TypeOK, Patient
  <2>2. QED
    BY <2>1
<1>2. QED
  BY <1>1, Invariance, PTL

\* A main screen is destroyed before it was initialised only after an early key.
THEOREM WindowsHaveInit == Spec => []WindowsAreInitialised
<1>1. IndInv => WindowsAreInitialised
  <2> SUFFICES ASSUME IndInv, broken = "windows" PROVE rushed > 0
    BY DEF WindowsAreInitialised
  <2>1. rushed \in Nat /\ rushed # 0
    BY IdAssumption DEF IndInv, Structure, TypeOK, Patient
  <2>2. QED
    BY <2>1
<1>2. QED
  BY <1>1, Invariance, PTL

\* For a user who waits, and without failing calls, a mnemonic is not on the
\* screen once its keychain exists.
THEOREM NobodyIsTrapped == Spec => []NeverTrapped
<1>1. IndInv => NeverTrapped
  <2> SUFFICES ASSUME IndInv, Smooth, exists, requests = <<>>, NEW c \in ToSet(stack)
               PROVE  c.kind # "generate"
    BY DEF NeverTrapped
  <2>1. PICK i \in 1..Len(stack) : stack[i] = c
    BY DEF ToSet, IndInv, Structure, TypeOK
  <2>2. ~Creates(stack[i])
    BY DEF IndInv, Steady, Even, CreatorsGo
  <2>3. QED
    BY <2>1, <2>2 DEF Creates
<1>2. QED
  BY <1>1, Invariance, PTL

\* With nothing pending, OpenKeychainScreen has a form, whatever came early, and,
\* when nothing did, no form without a parent is done.
THEOREM TopListens == Spec => []TopAnswers
<1>1. IndInv => TopAnswers
  <2> SUFFICES ASSUME IndInv, stack # <<>>, requests = <<>>
               PROVE  /\ Top.kind = "open" => Top.form # "none"
                      /\ rushed = 0 /\ IsDone(Top) => Top.parent # None
    BY DEF TopAnswers
  <2>1. Top.kind = "open" => Top.form # "none"
    BY DEF IndInv, Structure, MenuComesBack
  <2>2. Len(stack) \in 1..Len(stack) /\ Top = stack[Len(stack)]
    BY TopIsLast DEF IndInv, Structure, TypeOK
  <2>3. rushed = 0 /\ IsDone(Top) => Top.parent # None
    BY <2>2 DEF IndInv, Patient, Calm, DoneIsLeaving
  <2>4. QED
    BY <2>1, <2>3
<1>2. QED
  BY <1>1, Invariance, PTL

-----------------------------------------------------------------------------
(* The one main screen: what keys ask for.                                   *)

\* What a key may ask for, as to main screens: one is asked for by whoever makes the
\* keychain exist, or pushed by the menu of OpenKeychainScreen; and whatever that
\* menu pushes, it goes.
AsksOnce ==
    \A k \in (Len(requests) + 1)..Len(requests') :
        /\ AsksMain(requests'[k]) =>
              \/ ~exists /\ exists' /\ Len(requests') = Len(requests) + 1
              \/ Top.kind = "open" /\ Top.form = "menu" /\ requests'[k].op = "push"
        /\ Top.kind = "open" /\ requests'[k].op = "push" =>
              stack'[Len(stack)].form = "none"

LEMMA NothingAsked ==
    ASSUME Structure, Key, UNCHANGED requests PROVE AsksOnce
BY AtKey DEF AsksOnce

LEMMA OneAsked ==
    ASSUME Structure, Key, NEW r, Request(<<r>>)
    PROVE  /\ Len(requests') = Len(requests) + 1
           /\ \A k \in (Len(requests) + 1)..Len(requests') : requests'[k] = r
<1>1. requests \in Seq(Ask) /\ requests' = requests \o <<r>>
  BY AtKey DEF Request
<1>2. Len(requests) \in Nat /\ Len(<<r>>) = 1 /\ <<r>>[1] = r
  BY <1>1
<1>3. QED
  BY <1>1, <1>2

LEMMA OtherAsked ==
    ASSUME Structure, Key, NEW r, Request(<<r>>), ~AsksMain(r),
           Top.kind = "open" => r.op # "push"
    PROVE  AsksOnce
BY OneAsked DEF AsksOnce

LEMMA PopAsked ==
    ASSUME Structure, Key, NEW op \in {"pop", "quit"}, NEW by, Request(<<Asks(op, by)>>)
    PROVE  AsksOnce
<1>1. Asks(op, by).op = op
  BY DEF Asks
<1>2. QED
  BY <1>1, OtherAsked DEF AsksMain, IsOpening

LEMMA MadeKind ==
    ASSUME NEW op, NEW by, NEW kind \in {"create", "new", "import", "export", "generate", "main", "help", "error"}
    PROVE  /\ Opens(op, by, Make(kind)).op = op
           /\ AsksMain(Opens(op, by, Make(kind))) => kind = "main"
<1>1. Make(kind).kind = kind
  BY DEF Make, MakeForm
<1>2. QED
  BY <1>1 DEF Opens, AsksMain

LEMMA SetAsked ==
    ASSUME Structure, Key, NEW by, NEW kind \in {"create", "new", "import", "generate", "error"},
           Request(<<Opens("set", by, Make(kind))>>)
    PROVE  AsksOnce
BY MadeKind, OtherAsked

\* The menu gets its keys itself: no other screen is below it.
LEMMA MenuActs ==
    ASSUME Structure, Key, Top.kind = "open" PROVE Actor = Top
BY AtKey DEF Shape, Actor

LEMMA DismissAsks ==
    ASSUME Structure, Dismiss PROVE AsksOnce
BY PopAsked DEF Dismiss

LEMMA ContinueAsks ==
    ASSUME Structure, Continue PROVE AsksOnce
<1>1. Key /\ Actor.kind = "generate"
  BY DEF Continue, KeyTo
<1>2. CASE UNCHANGED requests
  BY <1>1, <1>2, NothingAsked
<1>3. CASE ~exists /\ exists' /\ Request(<<Opens("set", Top.id, Make("main"))>>)
  BY <1>1, <1>3, OneAsked, MadeKind DEF AsksOnce
<1>4. QED
  BY <1>2, <1>3 DEF Continue

LEMMA UseMainAsks ==
    ASSUME Structure, UseMain PROVE AsksOnce
<1>1. Key /\ Actor.kind = "main"
  BY DEF UseMain, KeyTo
<1>2. CASE UNCHANGED requests
  BY <1>1, <1>2, NothingAsked
<1>3. CASE Request(<<Asks("pop", Actor.id)>>)
  BY <1>1, <1>3, PopAsked
<1>4. ASSUME NEW screen \in {MakeForm("mainForm", "fields", 1, Actor.id),
                             MakeForm("mainForm", "blank", 0, Actor.id), Make("help")},
             Request(<<Opens("push", Actor.id, screen)>>)
      PROVE  AsksOnce
  <2>1. screen.kind # "main"
    BY DEF MakeForm, Make
  <2>2. ~AsksMain(Opens("push", Actor.id, screen))
    BY <2>1 DEF AsksMain, Opens
  <2>3. Top.kind # "open"
    BY <1>1, MenuActs
  <2>4. QED
    BY <1>1, <1>4, <2>2, <2>3, OtherAsked
<1>5. QED
  BY <1>2, <1>3, <1>4 DEF UseMain

LEMMA FinishNewAsks ==
    ASSUME Structure, FinishNew PROVE AsksOnce
<1>1. Key /\ Top.kind = "newForm"
  BY DEF FinishNew, KeyIn
<1>2. PICK kind \in {"generate", "error"} :
         Request(<<Asks("pop", Top.id), Opens("set", Top.parent, Make(kind))>>)
  BY DEF FinishNew, SetError
<1> DEFINE r == Asks("pop", Top.id)
           q == Opens("set", Top.parent, Make(kind))
<1>3. ~AsksMain(r) /\ ~AsksMain(q)
  BY MadeKind DEF AsksMain, IsOpening, Asks
<1>4. requests' = requests \o <<r, q>>
  BY <1>2 DEF Request
<1> HIDE DEF r, q
<1>5. \A k \in (Len(requests) + 1)..Len(requests') : requests'[k] \in {r, q}
  <2>1. requests \in Seq(Ask) /\ Len(requests) \in Nat
    BY <1>1, AtKey
  <2>2. Len(<<r, q>>) = 2 /\ <<r, q>>[1] = r /\ <<r, q>>[2] = q
    OBVIOUS
  <2>3. QED
    BY <1>4, <2>1, <2>2
<1>6. QED
  BY <1>1, <1>3, <1>5 DEF AsksOnce

LEMMA FinishImportAsks ==
    ASSUME Structure, FinishImport PROVE AsksOnce
<1>1. Key /\ Top.kind = "import"
  BY DEF FinishImport, KeyIn
<1>2. CASE ~exists /\ exists' /\ Request(<<Opens("set", Top.id, Make("main"))>>)
  BY <1>1, <1>2, OneAsked, MadeKind DEF AsksOnce
<1>3. CASE Request(<<SetError(Top.id)>>)
  BY <1>1, <1>3, SetAsked DEF SetError
<1>4. QED
  BY <1>2, <1>3 DEF FinishImport

LEMMA ChooseOpenAsks ==
    ASSUME Structure, ChooseOpen PROVE AsksOnce
<1>1. Key /\ Top.kind = "open" /\ Top.form = "menu"
  BY DEF ChooseOpen, KeyIn
<1>2. stack'[Len(stack)].form = "none"
  BY <1>1, Reform DEF ChooseOpen
<1>3. ASSUME NEW kind \in {"main", "export", "error"},
             Request(<<Opens("push", Top.id, Make(kind))>>)
      PROVE  AsksOnce
  BY <1>1, <1>2, <1>3, OneAsked, MadeKind DEF AsksOnce
<1>4. CASE Request(<<Asks("quit", Top.id)>>)
  BY <1>1, <1>4, PopAsked
<1>5. QED
  BY <1>3, <1>4 DEF ChooseOpen

LEMMA EscapeAsks ==
    ASSUME Structure, Escape PROVE AsksOnce
<1>1. Key
  BY DEF Escape
<1>2. CASE Top.kind = "newForm"
  <2> DEFINE r == Asks("pop", Top.id)
             q == Asks("pop", Top.parent)
  <2>1. requests' = requests \o <<r, q>>
    BY <1>2 DEF Escape, Request
  <2>2. ~AsksMain(r) /\ ~AsksMain(q)
    BY DEF AsksMain, IsOpening, Asks
  <2> HIDE DEF r, q
  <2>3. \A k \in (Len(requests) + 1)..Len(requests') : requests'[k] \in {r, q}
    <3>1. requests \in Seq(Ask) /\ Len(requests) \in Nat
      BY <1>1, AtKey
    <3>2. Len(<<r, q>>) = 2 /\ <<r, q>>[1] = r /\ <<r, q>>[2] = q
      OBVIOUS
    <3>3. QED
      BY <2>1, <3>1, <3>2
  <2>4. QED
    BY <1>2, <2>2, <2>3 DEF AsksOnce
<1>3. CASE Top.kind = "import"
  BY <1>1, <1>3, SetAsked DEF Escape
<1>4. CASE Top.kind \notin {"newForm", "import"}
  BY <1>1, <1>4, PopAsked DEF Escape
<1>5. QED
  BY <1>2, <1>3, <1>4

LEMMA KeyAsks ==
    ASSUME Structure, KeyStep PROVE AsksOnce
<1>1. CASE ChooseCreate
  BY <1>1, PopAsked, SetAsked DEF ChooseCreate, KeyIn
<1>2. CASE Advance
  BY <1>2, NothingAsked DEF Advance
<1>3. CASE FinishOpen
  BY <1>3, NothingAsked, SetAsked DEF FinishOpen, KeyIn, SetError
<1>4. CASE FinishExport
  BY <1>4, PopAsked, SetAsked DEF FinishExport, KeyIn, SetError
<1>5. CASE FinishMain
  BY <1>5, NothingAsked, PopAsked DEF FinishMain, KeyIn
<1>6. QED
  BY <1>1, <1>2, <1>3, <1>4, <1>5, DismissAsks, ContinueAsks, UseMainAsks, FinishNewAsks,
     FinishImportAsks, ChooseOpenAsks, EscapeAsks DEF KeyStep

\* Without its menu, OpenKeychainScreen has no use for a key.
LEMMA MenuAnswers ==
    ASSUME Structure, KeyStep, Top.kind = "open" PROVE Top.form # "none"
<1>1. Key
  BY DEF KeyStep, Dismiss, Continue, UseMain, ChooseCreate, Advance, FinishNew, FinishImport,
         FinishOpen, ChooseOpen, FinishExport, FinishMain, Escape, KeyTo, KeyIn
<1>2. Actor = Top
  BY <1>1, MenuActs
<1>3. SUFFICES ASSUME Top.form = "none" PROVE FALSE
  OBVIOUS
<1>4. QED
  BY <1>2, <1>3 DEF KeyStep, Dismiss, Continue, UseMain, ChooseCreate, Advance, FinishNew,
         FinishImport, FinishOpen, ChooseOpen, FinishExport, FinishMain, Escape, KeyTo, KeyIn

-----------------------------------------------------------------------------
(* What handling a request does to main screens.                             *)

\* A request handled, or a resize, takes controllers and requests from where they
\* were.
LEMMA HandledParts ==
    ASSUME Structure, NEW s, NEW rs, Handled(s, rs), Running, Free # {}
    PROVE  \E d \in {0, 1} :
              /\ Rest(rs, d) /\ Stacked(s, d)
              /\ d = 0 => rs = requests /\ s = stack
<1>1. CASE Handles("set") /\ rs = Tail(requests) /\ s = Append(Below, Head(requests).screen)
  <2>1. Rest(rs, 1)
    BY <1>1, TailRest
  <2>2. Ready(s, rs)
    BY <1>1, SetReady
  <2>3. /\ s \in Seq(Controller) /\ s # <<>> /\ Len(s) = Len(stack) /\ Len(s) \in Nat \ {0}
        /\ s[Len(s)] = requests[1].screen /\ \A i \in 1..(Len(s) - 1) : s[i] = stack[i]
        /\ requests # <<>> /\ IsOpening(requests[1])
    BY <1>1, <2>2, SetStack, AtRequest, AtOpening DEF Ready
  <2>4. Stacked(s, 1)
    BY <2>3 DEF Stacked
  <2>5. QED
    BY <2>1, <2>4
<1>2. CASE Handles("push") /\ rs = Tail(requests) /\ s = Append(stack, Head(requests).screen)
  <2>1. Rest(rs, 1)
    BY <1>2, TailRest
  <2>2. Ready(s, rs)
    BY <1>2, PushReady
  <2>3. /\ s \in Seq(Controller) /\ s # <<>> /\ Len(s) - 1 <= Len(stack)
        /\ s[Len(s)] = requests[1].screen /\ \A i \in 1..(Len(s) - 1) : s[i] = stack[i]
        /\ requests # <<>> /\ IsOpening(requests[1])
    BY <1>2, <2>2, PushStack, AtRequest, AtOpening DEF Ready
  <2>4. Stacked(s, 1)
    BY <2>3 DEF Stacked
  <2>5. QED
    BY <2>1, <2>4
<1>3. CASE Handles("pop") /\ Below # <<>> /\ rs = Tail(requests) /\ s = Below
  <2>1. Rest(rs, 1)
    BY <1>3, TailRest
  <2>2. Stacked(s, 1)
    BY <1>3, AtRequest DEF Stacked
  <2>3. QED
    BY <2>1, <2>2
<1>4. CASE rs = requests /\ s = stack
  BY <1>4, Held DEF Rest, Stacked
<1>5. QED
  BY <1>1, <1>2, <1>3, <1>4 DEF Handled

\* What is on a stack so made.
LEMMA StackedFrom ==
    ASSUME Structure, Running, Free # {}, NEW s, NEW d, Stacked(s, d), NEW i \in 1..Len(s)
    PROVE  \/ i \in 1..Len(stack) /\ s[i] = stack[i]
           \/ /\ i = Len(s) /\ d = 1 /\ 1 \in 1..Len(requests)
              /\ IsOpening(requests[1]) /\ s[i] = requests[1].screen
<1>1. Len(s) \in Nat /\ Len(stack) \in Nat /\ Len(requests) \in Nat /\ requests \in Seq(Ask)
  BY Held DEF Stacked
<1>2. CASE i = Len(s)
  BY <1>1, <1>2 DEF Stacked
<1>3. CASE i # Len(s)
  <2>1. i \in 1..(Len(s) - 1) /\ i \in 1..Len(stack)
    BY <1>1, <1>3 DEF Stacked
  <2>2. QED
    BY <2>1 DEF Stacked
<1>4. QED
  BY <1>2, <1>3

LEMMA RestFrom ==
    ASSUME Structure, Running, Free # {}, NEW rs, NEW d, Rest(rs, d), NEW k \in 1..Len(rs)
    PROVE  /\ k + d \in 1..Len(requests) /\ rs[k] = requests[k + d]
           /\ d = 1 => k + d # 1
<1>1. Len(rs) \in Nat /\ Len(requests) \in Nat /\ d \in {0, 1} /\ Len(rs) = Len(requests) - d
  BY Held DEF Rest
<1>2. k + d \in 1..Len(requests) /\ (d = 1 => k + d # 1)
  BY <1>1
<1>3. QED
  BY <1>2 DEF Rest

\* No main screen comes from nowhere, and none twice.
LEMMA PartsNoMain ==
    ASSUME Structure, Running, Free # {}, NEW s, NEW rs, NEW d, Stacked(s, d), Rest(rs, d),
           NoMain(stack, requests)
    PROVE  NoMain(s, rs)
<1>1. ASSUME NEW i \in 1..Len(s) PROVE s[i].kind # "main"
  BY StackedFrom DEF NoMain, AsksMain
<1>2. ASSUME NEW k \in 1..Len(rs) PROVE ~AsksMain(rs[k])
  BY RestFrom DEF NoMain
<1>3. QED
  BY <1>1, <1>2 DEF NoMain

LEMMA PartsSingleMain ==
    ASSUME Structure, Running, Free # {}, NEW s, NEW rs, NEW d, Stacked(s, d), Rest(rs, d),
           SingleMain(stack, requests)
    PROVE  SingleMain(s, rs)
<1>1. ASSUME NEW i \in 1..Len(s), s[i].kind = "main"
      PROVE  \/ i \in 1..Len(stack) /\ stack[i].kind = "main"
             \/ i = Len(s) /\ d = 1 /\ 1 \in 1..Len(requests) /\ AsksMain(requests[1])
  BY <1>1, StackedFrom DEF AsksMain
<1>2. ASSUME NEW i \in 1..Len(s), NEW j \in 1..Len(s), s[i].kind = "main", s[j].kind = "main"
      PROVE  i = j
  BY <1>1, <1>2 DEF SingleMain
<1>3. ASSUME NEW k \in 1..Len(rs), NEW l \in 1..Len(rs), AsksMain(rs[k]), AsksMain(rs[l])
      PROVE  k = l
  <2>1. k + d = l + d /\ d \in {0, 1}
    BY <1>3, RestFrom DEF SingleMain, Rest
  <2>2. QED
    BY <2>1
<1>4. ASSUME NEW i \in 1..Len(s), NEW k \in 1..Len(rs), s[i].kind = "main", AsksMain(rs[k])
      PROVE  FALSE
  <2>1. k + d \in 1..Len(requests) /\ AsksMain(requests[k + d]) /\ (d = 1 => k + d # 1)
    BY <1>4, RestFrom
  <2>2. QED
    BY <1>1, <1>4, <2>1 DEF SingleMain
<1>5. QED
  BY <1>2, <1>3, <1>4 DEF SingleMain

LEMMA PartsCreateNothing ==
    ASSUME Structure, Running, Free # {}, NEW s, NEW rs, NEW d, Stacked(s, d), Rest(rs, d),
           CreatesNothing(stack, requests)
    PROVE  CreatesNothing(s, rs)
<1>1. ASSUME NEW i \in 1..Len(s) PROVE ~Creates(s[i]) /\ s[i].kind # "newForm"
  BY StackedFrom DEF CreatesNothing
<1>2. ASSUME NEW k \in 1..Len(rs), IsOpening(rs[k])
      PROVE  ~Creates(rs[k].screen) /\ rs[k].screen.kind # "newForm"
  BY <1>2, RestFrom DEF CreatesNothing
<1>3. QED
  BY <1>1, <1>2 DEF CreatesNothing

\* OpenKeychainScreen is never asked for.
LEMMA PartsFromMenu ==
    ASSUME Structure, Running, Free # {}, NEW s, NEW d, Stacked(s, d), FromMenu(s)
    PROVE  FromMenu(stack) /\ 1 \in 1..Len(stack) /\ s[1] = stack[1]
<1>1. 1 \in 1..Len(s) /\ s[1].kind = "open"
  BY DEF FromMenu, Stacked
<1>2. 1 \in 1..Len(stack) /\ s[1] = stack[1]
  BY <1>1, StackedFrom, Wanted
<1>3. QED
  BY <1>1, <1>2, Held DEF FromMenu

\* Initialising a controller opens no main screen.
LEMMA InitialisedAlike ==
    ASSUME Free # {}, NEW s, NEW rs, Ready(s, rs), Initialise(s, rs)
    PROVE  /\ NoMain(s, rs) => NoMain(stack', requests')
           /\ SingleMain(s, rs) => SingleMain(stack', requests')
           /\ FromMenu(stack') => FromMenu(s)
           /\ CreatesNothing(s, rs) => /\ requests' = rs
                                       /\ CreatesNothing(stack', requests')
<1>1. /\ Len(stack') = Len(s) /\ Len(s) \in Nat \ {0} /\ s # <<>>
      /\ \A i \in 1..Len(s) : stack'[i].kind = s[i].kind
  BY Alike DEF Ready
<1>2. /\ requests' = IF Posts(s[Len(s)]) THEN Append(rs, NewForm(s[Len(s)])) ELSE rs
      /\ rs \in Seq(Ask)
  BY Initialising DEF Ready
<1>3. ~AsksMain(NewForm(s[Len(s)]))
  BY DEF AsksMain, NewForm, Opens, MakeForm
<1>4. \A k \in 1..Len(requests') : AsksMain(requests'[k]) =>
          k \in 1..Len(rs) /\ requests'[k] = rs[k]
  <2>1. CASE ~Posts(s[Len(s)])
    BY <1>2, <2>1
  <2>2. CASE Posts(s[Len(s)])
    <3> DEFINE r == NewForm(s[Len(s)])
    <3>1. requests' = Append(rs, r) /\ ~AsksMain(r)
      BY <1>2, <1>3, <2>2
    <3> HIDE DEF r
    <3>2. \A k \in 1..Len(requests') : requests'[k] = r \/ (k \in 1..Len(rs) /\ requests'[k] = rs[k])
      BY <1>2, <3>1
    <3>3. QED
      BY <3>1, <3>2
  <2>3. QED
    BY <2>1, <2>2
<1>5. NoMain(s, rs) => NoMain(stack', requests')
  BY <1>1, <1>4 DEF NoMain
<1>6. SingleMain(s, rs) => SingleMain(stack', requests')
  BY <1>1, <1>4 DEF SingleMain
<1>7. FromMenu(stack') => FromMenu(s)
  BY <1>1 DEF FromMenu
<1>8. ASSUME CreatesNothing(s, rs)
      PROVE  requests' = rs /\ CreatesNothing(stack', requests')
  <2>1. ~Creates(s[Len(s)])
    BY <1>1, <1>8 DEF CreatesNothing
  <2>2. ~Posts(s[Len(s)])
    BY <2>1 DEF Posts, Creates
  <2>3. requests' = rs
    BY <1>2, <2>2
  <2>4. QED
    BY <1>1, <1>8, <2>3 DEF CreatesNothing, Creates
<1>9. QED
  BY <1>5, <1>6, <1>7, <1>8

LEMMA OneOrMore ==
    ASSUME NEW q \in Nat \ {0} PROVE q = 1 \/ q > 1
OBVIOUS

\* A request handled brings the main screen asked for forward, and keeps the menu
\* covered.
LEMMA HandledWaits ==
    ASSUME Structure, Running, Free # {}, NEW s, NEW rs, Ready(s, rs), Initialise(s, rs),
           Handled(s, rs), requests # <<>>, rs = Tail(requests), FromMenu(s),
           MenuWaits(stack, requests), requests' = rs, UNCHANGED rushed
    PROVE  MenuWaits(stack, requests)'
<1>1. rs # requests /\ \E op : Handles(op)
  <2>1. rs # requests
    BY Held
  <2>2. QED
    BY <2>1 DEF Handled
<1>2. /\ Len(requests) \in Nat \ {0} /\ Len(rs) = Len(requests) - 1
      /\ \A k \in 1..Len(rs) : rs[k] = requests[k + 1] /\ k + 1 \in 1..Len(requests)
      /\ Len(stack) \in Nat \ {0} /\ rushed \in Nat
  BY <1>1, AtRequest DEF Structure, TypeOK
<1>3. Len(stack') = Len(s) /\ Len(s) \in Nat \ {0} /\ s[1].kind = "open"
  BY Alike DEF FromMenu
<1>4. \/ Len(stack) > 1
      \/ Len(stack) = 1 /\ Len(s) = 2 /\ requests[1].op = "push"
  <2>1. CASE Handles("set") /\ s = Append(Below, Head(requests).screen)
    <3>1. Len(s) = Len(stack) /\ s[Len(s)] = requests[1].screen
      BY <2>1, SetStack
    <3>2. s[Len(s)].kind # "open"
      BY <1>2, <2>1, <3>1, AtOpening, Wanted
    <3>3. QED
      BY <1>2, <1>3, <3>1, <3>2
  <2>2. CASE Handles("push") /\ s = Append(stack, Head(requests).screen)
    <3>1. Len(s) = Len(stack) + 1 /\ requests[1].op = "push"
      BY <2>2, PushStack, AtRequest
    <3>2. Len(stack) = 1 \/ Len(stack) > 1
      BY <1>2, OneOrMore
    <3>3. ASSUME Len(stack) = 1 PROVE Len(s) = 2
      BY <3>1, <3>3
    <3>4. QED
      BY <3>1, <3>2, <3>3
  <2>3. CASE Handles("pop") /\ s = Below
    BY <1>2, <1>3, <2>3, AtRequest
  <2>4. QED
    BY <1>1, <1>2, <2>1, <2>2, <2>3 DEF Handled
<1>5. ASSUME NEW k \in 1..Len(rs), AsksMain(rs[k]), rushed < 3
      PROVE  k = 1 /\ Len(s) # 1
  <2>1. /\ AsksMain(requests[k + 1]) /\ k + 1 \in 1..Len(requests) /\ k \in Nat /\ k + 1 # 1
    BY <1>2, <1>5
  <2>2. Len(stack) = 1 /\ (k + 1 = 2 \/ requests[1].op # "push")
    BY <1>5, <2>1 DEF MenuWaits
  <2>3. QED
    BY <1>4, <2>1, <2>2
<1>6. Len(rs) <= rushed /\ Len(rs) \in Nat
  BY <1>2 DEF MenuWaits
<1>7. QED
  BY <1>2, <1>3, <1>5, <1>6 DEF MenuWaits

LEMMA HandleKeepsMain ==
    ASSUME Structure, MainOnce, HandleStep PROVE MainOnce'
<1>1. PICK s, rs : /\ Ready(s, rs) /\ Initialise(s, rs) /\ Running /\ Free # {}
                   /\ Handled(s, rs) /\ UNCHANGED <<exists, rushed, thrown>>
  BY HandleEffect DEF Handled
<1>2. PICK d \in {0, 1} : /\ Rest(rs, d) /\ Stacked(s, d)
                          /\ d = 0 => rs = requests /\ s = stack
  BY <1>1, HandledParts
<1>3. FromMenu(stack') => FromMenu(s) /\ FromMenu(stack)
  BY <1>1, <1>2, InitialisedAlike, PartsFromMenu
<1>4. ~exists => NoMain(stack, requests)' /\ ~FromMenu(stack)'
  BY <1>1, <1>2, <1>3, InitialisedAlike, PartsNoMain DEF MainOnce
<1>5. FromMenu(stack') => requests' = rs /\ CreatesNothing(stack, requests)'
  BY <1>1, <1>2, <1>3, InitialisedAlike, PartsCreateNothing DEF MainOnce
<1>6. ASSUME rushed < 4, ~resized' PROVE /\ SingleMain(stack, requests)'
                                         /\ FromMenu(stack)' => MenuWaits(stack, requests)'
  <2>1. ~Resize
    BY <1>6 DEF Resize
  <2>2. ~resized
    BY <1>6, <2>1 DEF HandleStep, HandleSet, HandlePush, HandlePop, haste
  <2>3. SingleMain(stack, requests)'
    BY <1>1, <1>2, <1>6, <2>2, InitialisedAlike, PartsSingleMain DEF MainOnce
  <2>4. ASSUME FromMenu(stack') PROVE MenuWaits(stack, requests)'
    <3>1. PICK t, q : /\ Ready(t, q) /\ Initialise(t, q) /\ Handled(t, q)
                      /\ requests # <<>> /\ q = Tail(requests) /\ UNCHANGED rushed
      <4>1. CASE HandleSet
        BY <4>1, SetReady DEF HandleSet, Handled, Handles, haste
      <4>2. CASE HandlePush
        BY <4>2, PushReady DEF HandlePush, Handled, Handles, haste
      <4>3. CASE HandlePop
        BY <4>3, PopReady DEF HandlePop, Handled, Handles, haste
      <4>4. QED
        BY <2>1, <4>1, <4>2, <4>3 DEF HandleStep
    <3>2. PICK e \in {0, 1} : Rest(q, e) /\ Stacked(t, e)
      BY <1>1, <3>1, HandledParts
    <3>3. FromMenu(t) /\ FromMenu(stack)
      BY <1>1, <2>4, <3>1, <3>2, InitialisedAlike, PartsFromMenu
    <3>4. requests' = q
      BY <1>1, <3>1, <3>2, <3>3, InitialisedAlike, PartsCreateNothing DEF MainOnce
    <3>5. MenuWaits(stack, requests)
      BY <1>6, <2>2, <3>3 DEF MainOnce
    <3>6. QED
      BY <1>1, <3>1, <3>3, <3>4, <3>5, HandledWaits
  <2>5. QED
    BY <2>3, <2>4 DEF FromMenu
<1>7. QED
  BY <1>1, <1>4, <1>5, <1>6 DEF MainOnce, FromMenu

-----------------------------------------------------------------------------
(* What a key does to them.                                                  *)

\* What was there before a key is there after it, and what it adds to the stack is
\* an error screen.
LEMMA KeyAdds ==
    ASSUME Structure, KeyStep
    PROVE  /\ Len(stack) \in Nat \ {0} /\ Len(requests) \in Nat /\ rushed \in Nat
           /\ Top = stack[Len(stack)] /\ (Top.kind = "open" => Len(stack) = 1)
           /\ Len(stack') \in {Len(stack), Len(stack) + 1}
           /\ Len(requests') \in Nat /\ Len(requests') >= Len(requests)
           /\ \A i \in 1..Len(stack') : \/ i \in 1..Len(stack) /\ stack'[i].kind = stack[i].kind
                                        \/ stack'[i].kind = "error"
           /\ \A k \in 1..Len(requests') :
                 \/ k \in 1..Len(requests) /\ requests'[k] = requests[k]
                 \/ /\ k \in (Len(requests) + 1)..Len(requests')
                    /\ AsksMain(requests'[k]) => Len(stack') = Len(stack)
           /\ exists => exists'
           /\ \/ requests = <<>> /\ rushed' = rushed
              \/ requests # <<>> /\ rushed' = rushed + 1
           /\ resized' = resized
           /\ stack'[1].kind = stack[1].kind
<1>1. PICK s, rs : Effect(s, rs)
  BY KeyEffect
<1>2. /\ Key /\ Running /\ stack \in Seq(Controller) /\ stack # <<>> /\ requests \in Seq(Ask)
      /\ Free # {} /\ rushed \in Nat
  BY <1>1 DEF Effect, Key, Running, Structure, TypeOK
<1>3. /\ Len(stack) \in Nat \ {0} /\ Top = stack[Len(stack)] /\ Len(requests) \in Nat
      /\ 1 \in 1..Len(stack)
  BY <1>2, AtKey
<1>4. Top.kind = "open" => Len(stack) = 1
  <2>1. Len(stack) \in 1..Len(stack)
    BY <1>3
  <2>2. QED
    BY <1>2, <1>3, <2>1, Held
<1>5. /\ Len(stack') \in {Len(stack), Len(stack) + 1} /\ Len(rs) \in Nat
      /\ Len(requests') = Len(requests) + Len(rs)
      /\ Len(stack') = Len(stack) + 1 =>
            /\ stack'[Len(stack) + 1] = Make("error")
            /\ \A k \in 1..Len(rs) : ~IsOpening(rs[k])
      /\ \A k \in 1..Len(requests) : requests'[k] = requests[k]
      /\ \A k \in 1..Len(rs) : requests'[Len(requests) + k] = rs[k]
  BY <1>1, AfterKey
<1>6. ASSUME NEW i \in 1..Len(stack')
      PROVE  \/ i \in 1..Len(stack) /\ stack'[i].kind = stack[i].kind
             \/ stack'[i].kind = "error"
  <2>1. Make("error").kind = "error"
    BY DEF Make, MakeForm
  <2>2. i \in 1..Len(stack) \/ (i = Len(stack) + 1 /\ Len(stack') = Len(stack) + 1)
    BY <1>3, <1>5
  <2>3. QED
    BY <1>1, <1>5, <2>1, <2>2, KeyKeepsControllers
<1>7. ASSUME NEW k \in 1..Len(requests')
      PROVE  \/ k \in 1..Len(requests) /\ requests'[k] = requests[k]
             \/ /\ k \in (Len(requests) + 1)..Len(requests')
                /\ AsksMain(requests'[k]) => Len(stack') = Len(stack)
  <2>1. CASE k \in 1..Len(requests)
    BY <1>5, <2>1
  <2>2. CASE k \notin 1..Len(requests)
    <3> DEFINE j == k - Len(requests)
    <3>1. j \in 1..Len(rs) /\ k = Len(requests) + j /\ k \in (Len(requests) + 1)..Len(requests')
      BY <1>3, <1>5, <2>2
    <3> HIDE DEF j
    <3>2. requests'[k] = rs[j]
      BY <1>5, <3>1
    <3>3. QED
      BY <1>5, <3>1, <3>2 DEF AsksMain
  <2>3. QED
    BY <2>1, <2>2
<1>8. exists => exists'
  BY <1>1 DEF Effect, Exists
<1>9. /\ \/ requests = <<>> /\ rushed' = rushed
         \/ requests # <<>> /\ rushed' = rushed + 1
      /\ resized' = resized
  BY <1>2 DEF Key
<1>10. stack'[1].kind = stack[1].kind
  BY <1>1, <1>3, KeyKeepsControllers
<1>11. Len(requests') \in Nat /\ Len(requests') >= Len(requests)
  BY <1>3, <1>5
<1>12. QED
  BY <1>2, <1>3, <1>4, <1>5, <1>6, <1>7, <1>8, <1>9, <1>10, <1>11

\* Over OpenKeychainScreen, a key asks for one thing, which creates nothing.
LEMMA KeyCreatesNothing ==
    ASSUME Structure, KeyStep, FromMenu(stack), CreatesNothing(stack, requests)
    PROVE  CreatesNothing(stack, requests)' /\ Len(requests') <= Len(requests) + 1
<1>1. PICK s, rs : Effect(s, rs)
  BY KeyEffect
<1>2. /\ Asked(rs) /\ Len(rs) \in Nat /\ Len(rs) <= 2
      /\ Len(requests') = Len(requests) + Len(rs) /\ Len(requests) \in Nat
      /\ \A k \in 1..Len(rs) : requests'[Len(requests) + k] = rs[k]
  <2>1. Asked(rs)
    BY <1>1 DEF Effect
  <2>2. Len(requests) \in Nat
    BY KeyAdds
  <2>3. QED
    BY <1>1, <2>1, <2>2, AfterKey
<1>3. ~Creates(Top) /\ Top.kind # "newForm"
  BY KeyAdds DEF CreatesNothing
<1>4. Len(rs) # 2
  BY <1>2, <1>3 DEF Asked
<1>5. Len(rs) <= 1
  BY <1>2, <1>4, TwoOrFewer
<1>6. ASSUME NEW k \in 1..Len(requests'), IsOpening(requests'[k])
      PROVE  ~Creates(requests'[k].screen) /\ requests'[k].screen.kind # "newForm"
  <2>1. CASE k \in 1..Len(requests) /\ requests'[k] = requests[k]
    BY <1>6, <2>1 DEF CreatesNothing
  <2>2. CASE k \in (Len(requests) + 1)..Len(requests')
    <3>1. Len(rs) = 1
      BY <1>2, <1>5, <2>2, AtMostOne
    <3>2. k = Len(requests) + 1 /\ 1 \in 1..Len(rs)
      BY <1>2, <2>2, <3>1
    <3>3. requests'[k] = rs[1]
      BY <1>2, <3>2
    <3>4. AskedScreen(rs[1]) /\ ~Creates(rs[1].screen)
      BY <1>2, <1>3, <1>6, <3>1, <3>2, <3>3 DEF Asked
    <3>5. QED
      BY <3>3, <3>4 DEF AskedScreen
  <2>3. QED
    BY <2>1, <2>2, KeyAdds
<1>7. ASSUME NEW i \in 1..Len(stack') PROVE ~Creates(stack'[i]) /\ stack'[i].kind # "newForm"
  BY KeyAdds DEF CreatesNothing, Creates
<1>8. QED
  BY <1>2, <1>5, <1>6, <1>7 DEF CreatesNothing

\* A main screen is asked for only when there is none.
LEMMA NewMainIsFirst ==
    ASSUME Structure, MainOnce, KeyStep, rushed' < 4, ~resized,
           NEW k \in (Len(requests) + 1)..Len(requests'), AsksMain(requests'[k])
    PROVE  NoMain(stack, requests) /\ Len(requests') = Len(requests) + 1
<1>1. \/ ~exists /\ exists' /\ Len(requests') = Len(requests) + 1
      \/ Top.kind = "open" /\ Top.form = "menu"
  BY KeyAsks DEF AsksOnce
<1>2. CASE ~exists /\ Len(requests') = Len(requests) + 1
  BY <1>2 DEF MainOnce
<1>3. CASE Top.kind = "open" /\ Top.form = "menu"
  <2>1. Len(stack) = 1 /\ Top = stack[1] /\ FromMenu(stack)
    <3>1. Len(stack) = 1 /\ Top = stack[1]
      BY <1>3, KeyAdds
    <3>2. stack # <<>>
      BY <3>1
    <3>3. QED
      BY <1>3, <3>1, <3>2 DEF FromMenu
  <2>2. Len(requests') <= Len(requests) + 1
    BY <2>1, KeyCreatesNothing DEF MainOnce
  <2>3. Len(requests') = Len(requests) + 1
    BY <2>2, KeyAdds
  <2>4. ASSUME NEW l \in 1..Len(requests), AsksMain(requests[l]) PROVE FALSE
    <3>1. requests # <<>> /\ rushed < 3
      BY <2>4, KeyAdds
    <3>2. MenuWaits(stack, requests)
      BY <2>1, <3>1, KeyAdds DEF MainOnce
    <3>3. QED
      BY <1>3, <2>1, <2>4, <3>1, <3>2 DEF MenuWaits
  <2>5. \A i \in 1..Len(stack) : stack[i].kind # "main"
    BY <1>3, <2>1
  <2>6. QED
    BY <2>3, <2>4, <2>5 DEF NoMain
<1>4. QED
  BY <1>1, <1>2, <1>3

LEMMA KeyKeepsSingle ==
    ASSUME Structure, MainOnce, KeyStep, rushed' < 4, ~resized
    PROVE  SingleMain(stack, requests)'
<1>1. SingleMain(stack, requests)
  BY KeyAdds DEF MainOnce
<1>2. CASE \E k \in (Len(requests) + 1)..Len(requests') : AsksMain(requests'[k])
  <2>1. NoMain(stack, requests) /\ Len(requests') = Len(requests) + 1 /\ Len(requests) \in Nat
    BY <1>2, NewMainIsFirst, KeyAdds
  <2>2. \A i \in 1..Len(stack') : stack'[i].kind # "main"
    BY <2>1, KeyAdds DEF NoMain
  <2>3. \A k \in 1..Len(requests') : AsksMain(requests'[k]) => k = Len(requests')
    BY <2>1, KeyAdds DEF NoMain
  <2>4. QED
    BY <2>2, <2>3 DEF SingleMain
<1>3. CASE \A k \in (Len(requests) + 1)..Len(requests') : ~AsksMain(requests'[k])
  <2>1. \A k \in 1..Len(requests') : AsksMain(requests'[k]) =>
           k \in 1..Len(requests) /\ AsksMain(requests[k])
    BY <1>3, KeyAdds
  <2>2. \A i \in 1..Len(stack') : stack'[i].kind = "main" =>
           i \in 1..Len(stack) /\ stack[i].kind = "main"
    BY KeyAdds
  <2>3. QED
    BY <1>1, <2>1, <2>2 DEF SingleMain
<1>4. QED
  BY <1>2, <1>3

\* Each early key adds a request, and the menu goes for the first it pushes.
LEMMA KeyWaits ==
    ASSUME Structure, MainOnce, KeyStep, rushed' < 4, ~resized, FromMenu(stack)
    PROVE  MenuWaits(stack, requests)'
<1> DEFINE n == Len(stack)
           m == Len(requests)
<1>1. /\ n \in Nat \ {0} /\ m \in Nat /\ rushed \in Nat /\ Len(requests') \in Nat
      /\ Top = stack[n] /\ (Top.kind = "open" => n = 1)
      /\ Len(stack') \in {n, n + 1} /\ Len(requests') >= m
      /\ \/ requests = <<>> /\ m = 0 /\ rushed' = rushed
         \/ requests # <<>> /\ rushed' = rushed + 1 /\ 1 \in 1..m
      /\ rushed < 4 /\ exists
  <2>1. requests = <<>> => m = 0
    OBVIOUS
  <2>2. requests # <<>> => 1 \in 1..m
    BY KeyAdds DEF Structure, TypeOK
  <2>3. exists
    BY DEF MainOnce, Structure, TypeOK
  <2>4. QED
    BY <2>1, <2>2, <2>3, KeyAdds
<1>2. /\ MenuWaits(stack, requests) /\ Len(requests') <= m + 1
      /\ stack[1].kind = "open"
  BY <1>1, KeyCreatesNothing DEF MainOnce, FromMenu
<1>3. n = 1 => Top = stack[1] /\ Top.form # "none"
  BY <1>1, <1>2, MenuAnswers
<1>4. m <= rushed + 1 /\ Len(requests') <= rushed' + 1
  BY <1>1, <1>2 DEF MenuWaits
<1>5. ASSUME Len(stack') = 1, stack'[1].form # "none", requests' # <<>>, requests'[1].op = "push"
      PROVE  Len(requests') <= rushed'
  <2>1. n = 1 /\ Top = stack[1]
    BY <1>1, <1>3, <1>5
  <2>2. CASE requests # <<>>
    <3>1. requests'[1] = requests[1] /\ rushed' = rushed + 1
      BY <1>1, <2>2, KeyAdds
    <3>2. m <= rushed
      BY <1>2, <1>3, <1>5, <2>1, <2>2, <3>1 DEF MenuWaits
    <3>3. QED
      BY <1>1, <1>2, <3>1, <3>2
  <2>3. CASE requests = <<>>
    <3>1. Len(requests') # 0
      BY <1>5, AfterKey, KeyEffect, NoneIsEmpty
    <3>2. 1 \in (m + 1)..Len(requests')
      BY <1>1, <2>3, <3>1
    <3>3. stack'[n].form = "none"
      BY <1>2, <1>5, <2>1, <3>2, KeyAsks DEF AsksOnce
    <3>4. QED
      BY <1>5, <2>1, <3>3
  <2>4. QED
    BY <2>2, <2>3
<1>6. ASSUME NEW k \in 1..Len(requests'), AsksMain(requests'[k]), rushed' < 3
      PROVE  /\ Len(stack') = 1 => stack'[1].form = "none"
             /\ k = 1 \/ (Len(stack') = 1 /\ (k = 2 \/ requests'[1].op # "push"))
  <2>1. CASE k \in 1..m /\ requests'[k] = requests[k]
    <3>1. AsksMain(requests[k]) /\ rushed < 3
      BY <1>1, <1>6, <2>1
    <3>2. n # 1 /\ k = 1
      BY <1>2, <1>3, <2>1, <3>1 DEF MenuWaits
    <3>3. QED
      BY <1>1, <3>2
  <2>2. CASE k \in (m + 1)..Len(requests') /\ Len(stack') = n
    <3>1. Top.kind = "open" /\ requests'[k].op = "push"
      BY <1>1, <1>6, <2>2, KeyAsks DEF AsksOnce
    <3>2. n = 1 /\ stack'[1].form = "none" /\ k = m + 1
      BY <1>1, <1>2, <2>2, <3>1, KeyAsks DEF AsksOnce
    <3>3. CASE requests = <<>>
      BY <1>1, <2>2, <3>2, <3>3
    <3>4. CASE requests # <<>>
      <4>1. requests'[1] = requests[1] /\ rushed' = rushed + 1
        BY <1>1, <3>4, KeyAdds
      <4>2. requests[1].op = "push" => m <= rushed
        BY <1>2, <1>3, <3>2, <3>4 DEF MenuWaits
      <4>3. requests[1].op = "push" => k = 1 \/ k = 2
        BY <1>1, <1>6, <3>2, <4>1, <4>2
      <4>4. QED
        BY <2>2, <3>2, <4>1, <4>3
    <3>5. QED
      BY <3>3, <3>4
  <2>3. QED
    BY <1>6, <2>1, <2>2, KeyAdds
<1>7. QED
  BY <1>4, <1>5, <1>6 DEF MenuWaits

LEMMA KeyKeepsMain ==
    ASSUME Structure, MainOnce, KeyStep PROVE MainOnce'
<1>1. FromMenu(stack') <=> FromMenu(stack)
  <2>1. stack # <<>> /\ stack' # <<>>
    BY KeyAdds
  <2>2. QED
    BY <2>1, KeyAdds DEF FromMenu
<1>2. ASSUME ~exists' PROVE NoMain(stack, requests)' /\ ~FromMenu(stack')
  <2>1. ~exists /\ NoMain(stack, requests) /\ ~FromMenu(stack)
    BY <1>2, KeyAdds DEF MainOnce
  <2>2. \A k \in (Len(requests) + 1)..Len(requests') : ~AsksMain(requests'[k])
    <3>1. Top.kind # "open"
      BY <2>1, KeyAdds DEF FromMenu
    <3>2. QED
      BY <1>2, <3>1, KeyAsks DEF AsksOnce
  <2>3. NoMain(stack, requests)'
    BY <2>1, <2>2, KeyAdds DEF NoMain
  <2>4. QED
    BY <1>1, <2>1, <2>3
<1>3. FromMenu(stack') => CreatesNothing(stack, requests)'
  BY <1>1, KeyCreatesNothing DEF MainOnce
<1>4. ASSUME rushed' < 4, ~resized'
      PROVE  /\ SingleMain(stack, requests)'
             /\ FromMenu(stack') => MenuWaits(stack, requests)'
  <2>1. ~resized
    BY <1>4, KeyAdds
  <2>2. QED
    BY <1>1, <1>4, <2>1, KeyKeepsSingle, KeyWaits
<1>5. QED
  BY <1>2, <1>3, <1>4 DEF MainOnce, FromMenu

LEMMA EndKeepsMain ==
    ASSUME End PROVE MainOnce'
<1>1. stack' = <<>> /\ requests' = <<>>
  BY DEF End
<1>2. QED
  BY <1>1 DEF MainOnce, NoMain, SingleMain, FromMenu

LEMMA InitMain ==
    ASSUME Init PROVE MainOnce
<1>1. PICK c : stack = <<c>> /\ c.kind \in {"open", "create"} /\ (~exists => c.kind # "open")
  BY DEF Init
<1>2. requests = <<>> /\ Len(stack) = 1 /\ stack[1] = c /\ rushed = 0
  BY <1>1 DEF Init
<1>3. \A i \in 1..1 : i = 1
  OBVIOUS
<1>4. QED
  BY <1>1, <1>2, <1>3 DEF MainOnce, NoMain, SingleMain, FromMenu, CreatesNothing, MenuWaits,
                          Creates

\* While no more than three keys come early, and no resize, there is one main screen.
THEOREM OneTreeIsOpen == Spec => []OneMain
<1>1. Init => MainOnce
  BY InitMain
<1>2. MainOnce /\ IndInv /\ [Next]_vars => MainOnce'
  <2> SUFFICES ASSUME MainOnce, IndInv, [Next]_vars PROVE MainOnce'
    OBVIOUS
  <2>1. Structure
    BY DEF IndInv
  <2>2. CASE KeyStep
    BY <2>1, <2>2, KeyKeepsMain
  <2>3. CASE HandleStep
    BY <2>1, <2>3, HandleKeepsMain
  <2>4. CASE End
    BY <2>4, EndKeepsMain
  <2>5. CASE UNCHANGED vars
    BY <2>5 DEF vars, haste, MainOnce, NoMain, SingleMain, FromMenu, CreatesNothing, MenuWaits
  <2>6. QED
    BY <2>2, <2>3, <2>4, <2>5 DEF Next, KeyStep, HandleStep
<1>3. IndInv /\ MainOnce => OneMain
  <2> SUFFICES ASSUME IndInv, MainOnce, rushed < 4, ~resized
               PROVE  /\ \A i, j \in DOMAIN stack :
                            stack[i].kind = "main" /\ stack[j].kind = "main" => i = j
                      /\ \A c, d \in Coming : c.kind = "main" /\ d.kind = "main" => c = d
                      /\ \A c \in ToSet(stack), d \in Coming :
                            ~(c.kind = "main" /\ d.kind = "main")
    BY DEF OneMain
  <2>1. /\ stack \in Seq(Controller) /\ requests \in Seq(Ask) /\ SingleMain(stack, requests)
    BY DEF IndInv, Structure, TypeOK, MainOnce
  <2>2. \A d \in Coming : d.kind = "main" =>
           \E k \in 1..Len(requests) : AsksMain(requests[k]) /\ requests[k].screen = d
    BY <2>1 DEF Coming, ToSet, AsksMain
  <2>3. \A c, d \in Coming : c.kind = "main" /\ d.kind = "main" => c = d
    BY <2>1, <2>2 DEF SingleMain
  <2>4. \A c \in ToSet(stack), d \in Coming : ~(c.kind = "main" /\ d.kind = "main")
    BY <2>1, <2>2 DEF SingleMain, ToSet
  <2>5. QED
    BY <2>1, <2>3, <2>4 DEF SingleMain
<1>4. QED
  BY <1>1, <1>2, <1>3, Invariance, PTL DEF Spec

=============================================================================
