------------------------------ MODULE Screens ------------------------------
(***************************************************************************)
(* The screens of hdpwm and the forms they are made of, on the stack of    *)
(* WindowManager: which controller a key reaches, what it asks for, and    *)
(* what the request finds on top when its turn comes.                      *)
(*                                                                         *)
(* A request waits in the queue behind the keys typed before it, so keys   *)
(* still reach the controller on top after it asked to be replaced: a key  *)
(* may be handled at any time, requests are handled in their order.        *)
(*                                                                         *)
(* Abstractions.  Of the main screen only its requests are left            *)
(* (MainScreen has the rest), of the keychain only whether it exists, of a *)
(* field only that it is accepted.  A key that changes no state, such as a *)
(* character typed or a step in a menu, is no step.                        *)
(***************************************************************************)
EXTENDS Integers, FiniteSets, Sequences, SequencesExt, TLC

CONSTANTS
    None,
    Id,          \* bound: the controllers alive or referred to at a time
    MaxOpen,     \* bound: controllers on the stack and requests together
    MaxRushed,   \* bound: the keys handled while a request is pending
    MaxThrown    \* bound: the calls of the keychain that throw

ASSUME IdAssumption == None \notin Id \cup {"parent", "windows"}

ASSUME BoundAssumption == {MaxOpen, MaxRushed, MaxThrown} \subseteq Nat

Kinds == {"create", "new", "newForm", "generate", "import", "open", "export",
          "main", "mainForm", "help", "error"}

\* A controller: the form it is or (OpenKeychainScreen) holds, the fields that
\* form still asks for, and the controller its raw parent pointer points to.  A
\* form without fields is "blank"; for NewKeychainScreen, left says whether its
\* form was posted.
Controller == [id : Id, kind : Kinds, form : {"none", "fields", "menu", "blank"},
               left : 0..3, parent : Id \cup {None}]

\* What a controller asks of the window manager: by is the one it asks it for,
\* the one to be closed, to be replaced, or to be covered by screen.
Asks(op, by) == [op |-> op, by |-> by]
Opens(op, by, screen) == [op |-> op, by |-> by, screen |-> screen]

VARIABLES
    stack,       \* controller_stack, the top one last; empty once the loop ended
    requests,    \* the requests in the queue
    exists,      \* whether the directory of the keychain does
    broken,      \* the undefined behaviour the program ran into, or None
    rushed,      \* how many keys came while a request was pending
    resized,     \* a resize came while a request was pending
    thrown       \* how many calls threw

haste == <<rushed, resized>>
vars == <<stack, requests, exists, broken, haste, thrown>>

Top == Last(stack)

Below == Front(stack)

\* What is asked: to open another screen, or to close one or the program.
Ask == [op : {"set", "push"}, by : Id, screen : Controller]
          \cup [op : {"pop", "quit"}, by : Id]

IsOpening(r) == r.op \in {"set", "push"}

Coming == {r.screen : r \in {q \in ToSet(requests) : IsOpening(q)}}

Referred == {c.id : c \in ToSet(stack) \cup Coming}
              \cup {c.parent : c \in ToSet(stack) \cup Coming}
              \cup {r.by : r \in ToSet(requests)}

Free == Id \ Referred

Fresh == CHOOSE id \in Id : id \notin Referred

MakeForm(kind, form, left, parent) ==
    [id |-> Fresh, kind |-> kind, form |-> form, left |-> left, parent |-> parent]

Make(kind) ==
    CASE kind = "create" -> MakeForm(kind, "menu", 1, None)
      [] kind = "open"   -> MakeForm(kind, "fields", 1, None)
      [] kind = "import" -> MakeForm(kind, "fields", 3, None)
      [] kind = "export" -> MakeForm(kind, "fields", 1, None)
      [] kind = "new"    -> MakeForm(kind, "none", 1, None)
      [] OTHER           -> MakeForm(kind, "none", 0, None)

TypeOK ==
    /\ stack \in Seq(Controller)
    /\ requests \in Seq(Ask)
    /\ \A i, j \in DOMAIN stack : i # j => stack[i].id # stack[j].id
    /\ {exists, resized} \subseteq BOOLEAN /\ broken \in {None, "parent", "windows"}
    /\ rushed \in 0..MaxRushed /\ thrown \in 0..MaxThrown

\* main: the opening screen is initialised, and has its first form.
Init ==
    /\ requests = <<>> /\ broken = None
    /\ rushed = 0 /\ resized = FALSE /\ thrown = 0
    /\ exists \in BOOLEAN
    /\ \E id \in Id :
           stack = <<[id |-> id, kind |-> IF exists THEN "open" ELSE "create",
                      form |-> IF exists THEN "fields" ELSE "menu", left |-> 1,
                      parent |-> None]>>

-----------------------------------------------------------------------------
(* Keys. *)

Running == stack # <<>> /\ broken = None

Key ==
    /\ Running /\ Free # {}
    /\ requests # <<>> => rushed < MaxRushed
    /\ rushed' = IF requests = <<>> THEN rushed ELSE rushed + 1
    /\ UNCHANGED resized

IsDone(c) == c.form \in {"fields", "menu"} /\ c.left = 0

\* The controller that acts on a key: a form that is done hands it on.
Actor == IF IsDone(Top) /\ Top.parent # None
           THEN CHOOSE c \in ToSet(stack) : c.id = Top.parent ELSE Top

KeyTo(kind) == Key /\ Actor.kind = kind

\* A form on top that still processes keys.
KeyIn(kind, form) == Key /\ Top.kind = kind /\ Top.form = form /\ Top.left = 1

Request(rs) ==
    /\ Len(stack) + Len(requests) + Len(rs) <= MaxOpen
    /\ requests' = requests \o rs

\* advance_form after the last field: the form is done.
Finished == [stack EXCEPT ![Len(stack)].left = 0]

Fails == thrown < MaxThrown /\ thrown' = thrown + 1

\* run() puts an error screen over a controller that throws.
Covered(s) == Append(s, Make("error"))

SetError(by) == Opens("set", by, Make("error"))

-----------------------------------------------------------------------------
(* Screens without fields. *)

\* Any key on a help or error screen, on a form without fields, and on
\* NewKeychainScreen.
Dismiss ==
    /\ Key /\ (Actor.kind \in {"help", "error", "new"} \/ Top.form = "blank")
    /\ Request(<<Asks("pop", Actor.id)>>)
    /\ UNCHANGED <<stack, exists, broken, thrown>>

\* Mutant: the main screen is put over the mnemonic.
Continue_Pushes ==
    /\ KeyTo("generate")
    /\ IF exists
         THEN stack' = Covered(stack) /\ UNCHANGED <<requests, exists, thrown>>
         ELSE \/ /\ Request(<<Opens("push", Top.id, Make("main"))>>)
                 /\ exists' = TRUE /\ UNCHANGED <<stack, thrown>>
              \/ /\ Fails /\ exists' \in BOOLEAN
                 /\ stack' = Covered(stack) /\ UNCHANGED requests
    /\ UNCHANGED broken

\* Mutant: the mnemonic is closed before the main screen is opened.
Continue_PopsFirst ==
    /\ KeyTo("generate")
    /\ IF exists
         THEN stack' = Covered(stack) /\ UNCHANGED <<requests, exists, thrown>>
         ELSE \/ /\ Request(<<Asks("pop", Top.id), Opens("push", Top.id, Make("main"))>>)
                 /\ exists' = TRUE /\ UNCHANGED <<stack, thrown>>
              \/ /\ Fails /\ exists' \in BOOLEAN
                 /\ stack' = Covered(stack) /\ UNCHANGED requests
    /\ UNCHANGED broken

\* Any key when the mnemonic is shown: the keychain is created, which it cannot
\* be twice.
Continue ==
    /\ KeyTo("generate")
    /\ IF exists
         THEN stack' = Covered(stack) /\ UNCHANGED <<requests, exists, thrown>>
         ELSE \/ /\ Request(<<Opens("set", Top.id, Make("main"))>>)
                 /\ exists' = TRUE /\ UNCHANGED <<stack, thrown>>
              \/ /\ Fails /\ exists' \in BOOLEAN
                 /\ stack' = Covered(stack) /\ UNCHANGED requests
    /\ UNCHANGED broken

\* The main screen: a form over it, one without fields to view an entry, help,
\* the way out, or a save that throws.
UseMain ==
    /\ KeyTo("main")
    /\ LET by == Actor.id IN
       \/ /\ \E screen \in {MakeForm("mainForm", "fields", 1, by),
                            MakeForm("mainForm", "blank", 0, by), Make("help")} :
                 Request(<<Opens("push", by, screen)>>)
          /\ UNCHANGED <<stack, thrown>>
       \/ Request(<<Asks("pop", by)>>) /\ UNCHANGED <<stack, thrown>>
       \/ Fails /\ stack' = Covered(stack) /\ UNCHANGED requests
    /\ UNCHANGED <<exists, broken>>

-----------------------------------------------------------------------------
(* Forms. *)

\* The menu of CreateKeychainScreen: on_accept_menu returns false, so the form
\* goes on.
ChooseCreate ==
    /\ KeyIn("create", "menu")
    /\ \/ \E kind \in {"new", "import"} : Request(<<Opens("set", Top.id, Make(kind))>>)
       \/ Request(<<Asks("quit", Top.id)>>)
    /\ UNCHANGED <<stack, exists, broken, thrown>>

\* Mutant: a form that is done goes on.
Advance_PastTheEnd ==
    /\ Key /\ Top.form = "fields" /\ Top.left # 1
    /\ stack' = [stack EXCEPT ![Len(stack)].left = @ - 1]
    /\ UNCHANGED <<requests, exists, broken, thrown>>

\* A field that is not the last one.
Advance ==
    /\ Key /\ Top.form = "fields" /\ Top.left > 1
    /\ stack' = [stack EXCEPT ![Len(stack)].left = @ - 1]
    /\ UNCHANGED <<requests, exists, broken, thrown>>

\* Mutant: the screen is replaced before its form is closed.
FinishNew_SetFirst ==
    /\ KeyIn("newForm", "fields")
    /\ stack' = Finished
    /\ \/ /\ Request(<<Opens("set", Top.parent, Make("generate")), Asks("pop", Top.id)>>)
          /\ UNCHANGED thrown
       \/ Fails /\ Request(<<SetError(Top.parent), Asks("pop", Top.id)>>)
    /\ UNCHANGED <<exists, broken>>

\* The password of a new keychain: the form closes itself and replaces the
\* screen that posted it.
FinishNew ==
    /\ KeyIn("newForm", "fields")
    /\ stack' = Finished
    /\ \/ /\ Request(<<Asks("pop", Top.id), Opens("set", Top.parent, Make("generate"))>>)
          /\ UNCHANGED thrown
       \/ Fails /\ Request(<<Asks("pop", Top.id), SetError(Top.parent)>>)
    /\ UNCHANGED <<exists, broken>>

\* The mnemonic of an import: initialize_with_seed, then import_from_uri.
FinishImport ==
    /\ KeyIn("import", "fields")
    /\ stack' = Finished
    /\ \/ ~exists /\ exists' = TRUE /\ UNCHANGED thrown
             /\ Request(<<Opens("set", Top.id, Make("main"))>>)
       \/ ~exists /\ Fails /\ exists' \in BOOLEAN /\ Request(<<SetError(Top.id)>>)
       \/ exists /\ Request(<<SetError(Top.id)>>) /\ UNCHANGED <<exists, thrown>>
    /\ UNCHANGED broken

\* The password of OpenKeychainScreen: the menu takes the place of the form.
FinishOpen ==
    /\ KeyIn("open", "fields")
    /\ \/ /\ stack' = [stack EXCEPT ![Len(stack)].form = "menu"]
          /\ UNCHANGED <<requests, thrown>>
       \/ Fails /\ stack' = Finished /\ Request(<<SetError(Top.id)>>)
    /\ UNCHANGED <<exists, broken>>

\* Mutant: on_accept_menu returns false, as it does in CreateKeychainScreen.
ChooseOpen_Again ==
    /\ KeyIn("open", "menu")
    /\ UNCHANGED stack
    /\ \/ \E kind \in {"main", "export"} :
              Request(<<Opens("push", Top.id, Make(kind))>>) /\ UNCHANGED thrown
       \/ Fails /\ Request(<<Opens("push", Top.id, Make("error"))>>)
       \/ Request(<<Asks("quit", Top.id)>>) /\ UNCHANGED thrown
    /\ UNCHANGED <<exists, broken>>

\* Its menu: it is gone until the screen is initialised again.
ChooseOpen ==
    /\ KeyIn("open", "menu")
    /\ stack' = [stack EXCEPT ![Len(stack)].form = "none", ![Len(stack)].left = 0]
    /\ \/ \E kind \in {"main", "export"} :
              Request(<<Opens("push", Top.id, Make(kind))>>) /\ UNCHANGED thrown
       \/ Fails /\ Request(<<Opens("push", Top.id, Make("error"))>>)
       \/ Request(<<Asks("quit", Top.id)>>) /\ UNCHANGED thrown
    /\ UNCHANGED <<exists, broken>>

\* The destination of an export.
FinishExport ==
    /\ KeyIn("export", "fields")
    /\ stack' = Finished
    /\ \/ Request(<<Asks("pop", Top.id)>>) /\ UNCHANGED thrown
       \/ Fails /\ Request(<<SetError(Top.id)>>)
    /\ UNCHANGED <<exists, broken>>

\* The last field of a form of the main screen, whose callback may throw after
\* it asked to close the form (new entries and directories) or before (deletes).
FinishMain ==
    /\ KeyIn("mainForm", "fields")
    /\ \/ stack' = Finished /\ Request(<<Asks("pop", Top.id)>>) /\ UNCHANGED thrown
       \/ /\ Fails /\ stack' = Covered(Finished)
          /\ Request(<<Asks("pop", Top.id)>>) \/ UNCHANGED requests
    /\ UNCHANGED <<exists, broken>>

\* Escape in a form that has fields.
Escape ==
    /\ Key /\ Top.form \in {"fields", "menu"} /\ Top.left > 0
    /\ Request(CASE Top.kind = "create"  -> <<Asks("quit", Top.id)>>
                 [] Top.kind = "import"  -> <<Opens("set", Top.id, Make("create"))>>
                 [] Top.kind = "newForm" -> <<Asks("pop", Top.id), Asks("pop", Top.parent)>>
                 [] OTHER                -> <<Asks("pop", Top.id)>>)
    /\ UNCHANGED <<stack, exists, broken, thrown>>

-----------------------------------------------------------------------------
(* Requests and resizes. *)

\* Mutant: the form is posted whenever the screen is initialised.
Initialise_PostsAgain(s, rs) ==
    LET c == Last(s) IN
    /\ stack' = IF c.kind = "open" /\ c.form = "none"
                  THEN [s EXCEPT ![Len(s)].form = "menu", ![Len(s)].left = 1] ELSE s
    /\ requests' = IF c.kind = "new"
                     THEN Append(rs, Opens("push", c.id, MakeForm("newForm", "fields", 1, c.id)))
                     ELSE rs
    /\ broken' = IF c.parent = None \/ \E p \in ToSet(s) : p.id = c.parent
                   THEN None ELSE "parent"

\* Mutant: the menu stays away.
Initialise_NoMenu(s, rs) ==
    LET c == Last(s)
        posts == c.kind = "new" /\ c.left = 1
    IN
    /\ stack' = IF posts THEN [s EXCEPT ![Len(s)].left = 0] ELSE s
    /\ requests' = IF posts
                     THEN Append(rs, Opens("push", c.id, MakeForm("newForm", "fields", 1, c.id)))
                     ELSE rs
    /\ broken' = IF c.parent = None \/ \E p \in ToSet(s) : p.id = c.parent
                   THEN None ELSE "parent"

\* init() of the controller on top of s, with the requests rs pending: a form
\* initialises its parent, NewKeychainScreen posts its form the first time, and
\* OpenKeychainScreen its menu when it has no form.
Initialise(s, rs) ==
    LET c == Last(s)
        posts == c.kind = "new" /\ c.left = 1
    IN
    /\ stack' = CASE c.kind = "open" /\ c.form = "none" ->
                       [s EXCEPT ![Len(s)].form = "menu", ![Len(s)].left = 1]
                  [] posts -> [s EXCEPT ![Len(s)].left = 0]
                  [] OTHER -> s
    /\ requests' = IF posts
                     THEN Append(rs, Opens("push", c.id, MakeForm("newForm", "fields", 1, c.id)))
                     ELSE rs
    /\ broken' = IF c.parent = None \/ \E p \in ToSet(s) : p.id = c.parent
                   THEN None ELSE "parent"

Handles(op) == Running /\ Free # {} /\ requests # <<>> /\ Head(requests).op = op

HandleSet ==
    /\ Handles("set")
    /\ Initialise(Append(Below, Head(requests).screen), Tail(requests))
    /\ UNCHANGED <<exists, haste, thrown>>

HandlePush ==
    /\ Handles("push")
    /\ Initialise(Append(stack, Head(requests).screen), Tail(requests))
    /\ UNCHANGED <<exists, haste, thrown>>

HandlePop ==
    /\ Handles("pop") /\ Below # <<>>
    /\ Initialise(Below, Tail(requests))
    /\ UNCHANGED <<exists, haste, thrown>>

\* The last controller is popped, or the loop is told to quit.  What is still
\* in the queue is destroyed; the destructor of a main screen clears windows that
\* only its init() would have set.
End ==
    /\ Handles("quit") \/ (Handles("pop") /\ Below = <<>>)
    /\ stack' = <<>> /\ requests' = <<>>
    /\ broken' = IF \E c \in Coming : c.kind = "main"
                   THEN "windows" ELSE None
    /\ UNCHANGED <<exists, haste, thrown>>

\* on_resize cleans the controller on top up and initialises it again.
Resize ==
    /\ Running /\ Free # {}
    /\ requests # <<>> /\ ~resized
    /\ Initialise(stack, requests)
    /\ resized' = TRUE
    /\ UNCHANGED <<exists, rushed, thrown>>

Next ==
    \/ Dismiss \/ Continue \/ UseMain
    \/ ChooseCreate \/ Advance \/ FinishNew \/ FinishImport \/ FinishOpen
    \/ ChooseOpen \/ FinishExport \/ FinishMain \/ Escape
    \/ HandleSet \/ HandlePush \/ HandlePop \/ End \/ Resize

Spec == Init /\ [][Next]_vars

-----------------------------------------------------------------------------
(* Properties. *)

\* A user who waits for each key to take effect, and no failing calls.
Smooth == rushed = 0 /\ thrown = 0

\* What a controller asks for happens to the controller it was asked for: the
\* pop closes the screen that is done, the set replaces it, the push covers it.
MeetsItsScreen == Smooth /\ requests # <<>> => Head(requests).by = Top.id

\* FormController uses its raw parent pointer, which nothing keeps alive: only
\* a key that came early can make it outlive the parent.
ParentsOutliveForms == broken = "parent" => rushed > 0

\* No main screen is destroyed that was never initialised, so that its
\* destructor clears windows it has, but for keys that came early.
WindowsAreInitialised == broken = "windows" => rushed > 0

\* Two main screens would each save its own copy of the tree over that of the
\* other.  A key typed twice does not open a second one, nor do three keys typed
\* early: the menu of OpenKeychainScreen is gone until the screen is initialised
\* again, which takes four of them, or a resize.
OneMain ==
    rushed < 4 /\ ~resized =>
        /\ \A i, j \in DOMAIN stack :
              stack[i].kind = "main" /\ stack[j].kind = "main" => i = j
        /\ \A c, d \in Coming : c.kind = "main" /\ d.kind = "main" => c = d
        /\ \A c \in ToSet(stack), d \in Coming : ~(c.kind = "main" /\ d.kind = "main")

\* The mnemonic of a keychain that exists is no longer on the screen: from
\* there a key leads to an error and the error back to the mnemonic.
NeverTrapped ==
    Smooth /\ exists /\ requests = <<>> => \A c \in ToSet(stack) : c.kind # "generate"

\* The screen the user is left with answers to keys: it is no OpenKeychainScreen
\* without its menu, however it was come by, and, unless keys came early, no form
\* that is done and has no parent to hand keys on to.
TopAnswers ==
    stack # <<>> /\ requests = <<>> =>
        /\ Top.kind = "open" => Top.form # "none"
        /\ rushed = 0 /\ IsDone(Top) => Top.parent # None

-----------------------------------------------------------------------------
(* The inductive invariant: what makes the properties above hold (see        *)
(* ScreensProofs), all but OneMain, which has one of its own below.          *)

\* The form that goes with each kind of controller; only forms over a screen
\* have a parent.
Shape(c) ==
    /\ c.parent # None <=> c.kind \in {"newForm", "mainForm"}
    /\ c.parent # c.id
    /\ c.form \in CASE c.kind \in {"newForm", "import", "export"} -> {"fields"}
                    [] c.kind = "mainForm"                      -> {"fields", "blank"}
                    [] c.kind = "create"                        -> {"menu"}
                    [] c.kind = "open"                          -> {"none", "fields", "menu"}
                    [] OTHER                                    -> {"none"}
    /\ c.kind = "create" => c.left = 1

\* Controllers on the stack were initialised, those asked for were not.
Initialised ==
    \A i \in DOMAIN stack : /\ Shape(stack[i])
                            /\ stack[i].kind = "new" => stack[i].left = 0
                            /\ stack[i].kind = "open" => i = 1

Uninitialised ==
    \A k \in DOMAIN requests : IsOpening(requests[k]) =>
        LET c == requests[k].screen IN
        /\ Shape(c) /\ ~IsDone(c) /\ c.kind # "open"
        /\ c.kind = "new" => c.left = 1
        /\ requests[k].op = "set" => c.parent = None

\* No two controllers, there or asked for, are the same.
Distinct ==
    /\ \A k \in DOMAIN requests, i \in DOMAIN stack :
          IsOpening(requests[k]) => requests[k].screen.id # stack[i].id
    /\ \A k, l \in DOMAIN requests :
          IsOpening(requests[k]) /\ IsOpening(requests[l]) /\ k # l
              => requests[k].screen.id # requests[l].screen.id

ParentsBelow ==
    broken = None =>
        \A i \in DOMAIN stack : stack[i].parent # None =>
            \E j \in 1..(i - 1) : stack[j].id = stack[i].parent

\* What takes the menu of OpenKeychainScreen away is still to come.
MenuComesBack ==
    stack # <<>> /\ Top.kind = "open" /\ Top.form = "none" =>
        \E k \in DOMAIN requests : requests[k].op \in {"push", "quit"}

Structure == /\ TypeOK /\ Initialised /\ Uninitialised /\ Distinct
             /\ ParentsBelow /\ MenuComesBack
             /\ stack = <<>> => requests = <<>>

\* When no key comes early, what is pending was asked for by one key.
OneBatch(rs) ==
    \/ Len(rs) <= 1
    \/ /\ Len(rs) = 2
       /\ rs[1].op = "pop"
       /\ rs[2].op = "pop" \/ (rs[2].op = "set" /\ rs[2].screen.kind \in {"generate", "error"})

\* A form asked for finds its parent.
ParentIsThere(s, rs) ==
    rs # <<>> /\ rs[1].op = "push" /\ rs[1].screen.parent # None =>
        \E i \in 1..Len(s) : s[i].id = rs[1].screen.parent

\* A form that is done, and has nobody to hand keys on to, is about to go.
DoneIsLeaving(s, rs) ==
    \A i \in 1..Len(s) : IsDone(s[i]) /\ s[i].parent = None =>
        i = Len(s) /\ Len(rs) = 1 /\ rs[1].op \in {"pop", "set"}

Calm(s, rs) == OneBatch(rs) /\ ParentIsThere(s, rs) /\ DoneIsLeaving(s, rs)

Patient == rushed = 0 => broken = None /\ Calm(stack, requests)

\* When nothing throws either, all forms that are done are about to go, requests
\* are those of the controllers on top, and each form lies on its parent.
AllDoneAreLeaving(s, rs) ==
    \A i \in 1..Len(s) : IsDone(s[i]) =>
        i = Len(s) /\ rs # <<>> /\ rs[1].op \in {"pop", "set"}

AskedFromTheTop(s, rs) ==
    \A k \in 1..Len(rs) : k <= Len(s) /\ rs[k].by = s[Len(s) + 1 - k].id

LiesOn(c, below) == /\ c.parent # None => c.parent = below.id
                    /\ c.kind = "newForm" => below.kind = "new"

FormsLieOnParents(s, rs) ==
    /\ \A i \in 1..Len(s) : s[i].parent # None => i > 1 /\ LiesOn(s[i], s[i - 1])
    /\ rs # <<>> /\ rs[1].op = "push" => LiesOn(rs[1].screen, s[Len(s)])

\* The screens that create a keychain have nothing below them.
Creates(c) == c.kind \in {"create", "new", "generate", "import"}

CreatorsAreFirst(s, rs) ==
    /\ \A i \in 1..Len(s) : Creates(s[i]) => i = 1
    /\ \A k \in 1..Len(rs) : IsOpening(rs[k]) /\ Creates(rs[k].screen) =>
          rs[k].op = "set" /\ k = Len(s)

\* They go as soon as it exists.
CreatorsGo(s, rs) ==
    \/ /\ \A i \in 1..Len(s) : ~Creates(s[i])
       /\ \A k \in 1..Len(rs) : IsOpening(rs[k]) => ~Creates(rs[k].screen)
    \/ /\ Len(s) = 1 /\ Len(rs) = 1
       /\ rs[1].op = "set" /\ ~Creates(rs[1].screen)

Even(s, rs) == /\ AllDoneAreLeaving(s, rs) /\ AskedFromTheTop(s, rs)
               /\ FormsLieOnParents(s, rs) /\ CreatorsAreFirst(s, rs)
               /\ exists => CreatorsGo(s, rs)

Steady == Smooth => Even(stack, requests)

IndInv == Structure /\ Patient /\ Steady

-----------------------------------------------------------------------------
(* What makes OneMain hold, on top of Structure.                             *)

AsksMain(r) == IsOpening(r) /\ r.screen.kind = "main"

NoMain(s, rs) ==
    /\ \A i \in 1..Len(s) : s[i].kind # "main"
    /\ \A k \in 1..Len(rs) : ~AsksMain(rs[k])

SingleMain(s, rs) ==
    /\ \A i, j \in 1..Len(s) : s[i].kind = "main" /\ s[j].kind = "main" => i = j
    /\ \A k, l \in 1..Len(rs) : AsksMain(rs[k]) /\ AsksMain(rs[l]) => k = l
    /\ \A i \in 1..Len(s), k \in 1..Len(rs) : ~(s[i].kind = "main" /\ AsksMain(rs[k]))

\* OpenKeychainScreen is below everything.
FromMenu(s) == s # <<>> /\ s[1].kind = "open"

\* Then nobody creates a keychain, so that a key asks for one thing only.
CreatesNothing(s, rs) ==
    /\ \A i \in 1..Len(s) : ~Creates(s[i]) /\ s[i].kind # "newForm"
    /\ \A k \in 1..Len(rs) : IsOpening(rs[k]) =>
          ~Creates(rs[k].screen) /\ rs[k].screen.kind # "newForm"

\* So there are no more requests than keys that came early, and the first one.  The
\* menu can be back, with a main screen still asked for, only after three of them:
\* what comes before that request covers or replaces the menu, or ends the program.
MenuWaits(s, rs) ==
    LET alone == Len(s) = 1
        gone == s[1].form = "none"
    IN
    /\ Len(rs) <= rushed + 1
    /\ alone /\ ~gone /\ rs # <<>> /\ rs[1].op = "push" => Len(rs) <= rushed
    /\ \A k \in 1..Len(rs) : AsksMain(rs[k]) /\ rushed < 3 =>
          /\ alone => gone
          /\ k = 1 \/ (alone /\ (k = 2 \/ rs[1].op # "push"))

MainOnce ==
    /\ ~exists => NoMain(stack, requests) /\ ~FromMenu(stack)
    /\ FromMenu(stack) => CreatesNothing(stack, requests)
    /\ rushed < 4 /\ ~resized =>
          /\ SingleMain(stack, requests)
          /\ FromMenu(stack) => MenuWaits(stack, requests)

=============================================================================
