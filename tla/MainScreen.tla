----------------------------- MODULE MainScreen -----------------------------
(***************************************************************************)
(* The main screen of hdpwm: the tree of directories and entries as the    *)
(* pointer structure it is, the flattened rows the cursor walks over, the  *)
(* clipboard, and the forms pushed over the screen.                        *)
(*                                                                         *)
(* Forms come and go by requests in the queue of WindowManager, behind the *)
(* keys that were typed before: until a request is handled, keys still go  *)
(* to the controller on top.  So a key may be handled at any time, and     *)
(* requests are handled in their order.                                    *)
(*                                                                         *)
(* Where the code runs into undefined behaviour (rows read past their end, *)
(* a null or dangling pointer, an erase of end()) the model says so in     *)
(* broken and stops: what comes next is anybody's guess.                   *)
(*                                                                         *)
(* Abstractions.  Names, details and paths are left out (Keychain has      *)
(* them), so of filling in a form only the acceptance of its last field is *)
(* left.  The window is taller than the list of rows.                      *)
(***************************************************************************)
EXTENDS Integers, FiniteSets, Sequences, SequencesExt

CONSTANTS
    None,       \* a null pointer, an empty optional
    Id,         \* bound: the identities of objects alive at a time
    Root,       \* the identity of keychain_root_dir
    MaxForms,   \* bound: the forms open or requested
    MaxMishaps  \* bound: the keys handled while a request is pending, and the
                \* database calls that throw

ASSUME IdAssumption == IsFiniteSet(Id) /\ Root \in Id /\ None \notin Id

\* None is none of the words for what broke.
ASSUME NoneAssumption == None \notin {"rows", "parent", "erase", "dangling"}

ASSUME BoundAssumption == {MaxForms, MaxMishaps} \subseteq Nat

\* A directory or an entry: children by strong pointers, the parent by a weak
\* one, None once it expired.
Object == [isDir : BOOLEAN, parent : Id \cup {None},
           dirs : Seq(Id), entries : Seq(Id), open : BOOLEAN]

NewObject(isDir, parent) == [isDir |-> isDir, parent |-> parent,
                             dirs |-> <<>>, entries |-> <<>>, open |-> FALSE]

Kinds == {"newEntry", "newDir", "view", "edit", "delete", "help", "error"}

\* A controller above the main screen, with the object its callbacks hold; a
\* form that is done passes its keys on.
Form == [kind : Kinds, node : Id \cup {None}, done : BOOLEAN]

NewForm(kind, node) == [kind |-> kind, node |-> node, done |-> FALSE]

Pop == [op |-> "pop"]
Push(form) == [op |-> "push", form |-> form]

-----------------------------------------------------------------------------

VARIABLES
    heap,       \* the objects that are alive
    rows,       \* flat_entries_cache
    cursor,     \* c_selected_index, from 0
    clipboard,
    state,      \* "Browsing", "CreatingOrDeleting", "Editing"
    forms,      \* the controllers above the main screen, the top one last
    requests,   \* pushes and pops not handled yet
    closed,     \* the main screen itself was popped, and destroyed
    broken,     \* the undefined behaviour the program ran into, or None
    rushed,     \* how many keys came before a request that was pending
    thrown,     \* how many database calls threw
    stale       \* a save threw, and the rows were not flattened since

trouble == <<thrown, stale>>
vars == <<heap, rows, cursor, clipboard, state, forms, requests, closed, broken,
          rushed, trouble>>

-----------------------------------------------------------------------------
(* The tree. *)

Children(h, n) == h[n].dirs \o h[n].entries

\* The children that show.
Shown(h, n) == IF h[n].open THEN Children(h, n) ELSE <<>>

\* Once round the loop of flatten_dirs: the front of the work list becomes a row,
\* and what shows below it is put in its place.
Round(h, st) ==
    IF st.to_visit = <<>> THEN st
    ELSE LET n == Head(st.to_visit)
         IN  [rv |-> Append(st.rv, n), to_visit |-> Shown(h, n) \o Tail(st.to_visit)]

\* Every object is visited once, so it goes round as often as there are objects.
Flatten(h) ==
    LET Loop[k \in 0..Cardinality(Id)] ==
            IF k = 0 THEN [rv |-> <<>>, to_visit |-> <<Root>>] ELSE Round(h, Loop[k - 1])
    IN  Loop[Cardinality(Id)].rv

\* The objects in S and all below them: those in every set that contains S and
\* with an object its children.
Below(h, S) ==
    LET whole == {T \in {S \cup U : U \in SUBSET (DOMAIN h \ S)} :
                     \A n \in T : ToSet(Children(h, n)) \subseteq T}
    IN  {m \in DOMAIN h : \A T \in whole : m \in T}

Insert(h, n, parent) ==
    IF h[n].isDir THEN [h EXCEPT ![parent].dirs = Append(@, n)]
                  ELSE [h EXCEPT ![parent].entries = Append(@, n)]

Erase(h, n) ==
    LET Without(s) == IF n \in ToSet(s) THEN RemoveAt(s, CHOOSE i \in DOMAIN s : s[i] = n) ELSE s
    IN  IF h[n].isDir THEN [h EXCEPT ![h[n].parent].dirs = Without(@)]
                      ELSE [h EXCEPT ![h[n].parent].entries = Without(@)]

Free(h) == Id \ DOMAIN h

Fresh(h) == CHOOSE n \in Id : n \notin DOMAIN h

\* The objects of both.
Joined(h, k) == [n \in DOMAIN h \cup DOMAIN k |-> IF n \in DOMAIN h THEN h[n] ELSE k[n]]

Add(h, object) == Joined(h, [n \in {Fresh(h)} |-> object])

\* The identities of copies of n and of all below it.
Twins(h, n) == Injection(Below(h, {n}), Free(h))

\* The twins of those in a list.
TwinsOf(twin, s) == [i \in 1..Len(s) |-> twin[s[i]]]

\* The twin of an object: closed, with the twins of its children, under parent.
CopyOf(h, m, twin, parent) ==
    [isDir |-> h[m].isDir, parent |-> parent, dirs |-> TwinsOf(twin, h[m].dirs),
     entries |-> TwinsOf(twin, h[m].entries), open |-> FALSE]

\* Mutant: every copy is made with the parent of its original.
Graft_SameParents(h, n, parent) ==
    LET twin == CHOOSE t \in Twins(h, n) : TRUE
        Original(c) == CHOOSE m \in DOMAIN twin : twin[m] = c
        copies == [c \in {twin[m] : m \in DOMAIN twin} |->
                     LET m == Original(c) IN CopyOf(h, m, twin, h[m].parent)]
    IN  Insert(Joined(h, copies), twin[n], parent)

\* Copies of n and of all below it, with the copy of n under parent.
Graft(h, n, parent) ==
    LET twin == CHOOSE t \in Twins(h, n) : TRUE
        Original(c) == CHOOSE m \in DOMAIN twin : twin[m] = c
        copies == [c \in {twin[m] : m \in DOMAIN twin} |->
                     LET m == Original(c)
                     IN  CopyOf(h, m, twin, IF m = n THEN parent ELSE twin[h[m].parent])]
    IN  Insert(Joined(h, copies), twin[n], parent)

\* What the process reaches: the tree while the screen exists, the rows, the
\* clipboard, and what the callbacks of forms hold.
Held == ({clipboard} \cup ToSet(rows) \cup (IF closed THEN {} ELSE {Root})
           \cup {f.node : f \in ToSet(forms)}
           \cup {r.form.node : r \in {q \in ToSet(requests) : q.op = "push"}}) \ {None}

\* Reference counts: but for the objects in A all die, and weak pointers to them
\* expire.
Only(h, A) == [n \in A |-> [h[n] EXCEPT !.parent = IF @ \in A THEN @ ELSE None]]

Reclaim(h) == Only(h, Below(h, Held'))

-----------------------------------------------------------------------------

TypeOK ==
    /\ DOMAIN heap \subseteq Id /\ \A n \in DOMAIN heap : heap[n] \in Object
    /\ rows \in Seq(DOMAIN heap)
    /\ cursor \in Nat
    /\ clipboard \in DOMAIN heap \cup {None}
    /\ state \in {"Browsing", "CreatingOrDeleting", "Editing"}
    /\ forms \in Seq(Form)
    /\ requests \in Seq({Pop} \cup [op : {"push"}, form : Form])
    /\ closed \in BOOLEAN /\ stale \in BOOLEAN
    /\ broken \in {None, "rows", "parent", "erase", "dangling"}
    /\ rushed \in 0..MaxMishaps /\ thrown \in 0..MaxMishaps

\* The tree of a new keychain; get_root_dir opens the root.
Init ==
    /\ heap = [n \in {Root} |-> [NewObject(TRUE, None) EXCEPT !.open = TRUE]]
    /\ rows = <<Root>> /\ cursor = 0 /\ clipboard = None
    /\ state = "Browsing"
    /\ forms = <<>> /\ requests = <<>>
    /\ closed = FALSE /\ stale = FALSE
    /\ broken = None
    /\ rushed = 0 /\ thrown = 0

-----------------------------------------------------------------------------
(* Keys: who gets them. *)

Top == Last(forms)

IsForm(f) == f.kind \notin {"help", "error"}

\* draw_details_box reads the row at the cursor; a form draws the screen below.
DrawsOutside == /\ forms # <<>> => IsForm(Top)
                /\ state = "Browsing"
                /\ cursor >= Len(rows)

Running == broken = None /\ ~closed /\ ~DrawsOutside

Key ==
    /\ Running
    /\ requests # <<>> => rushed + thrown < MaxMishaps
    /\ rushed' = IF requests = <<>> THEN rushed ELSE rushed + 1

\* The main screen gets the key itself, or from a form that is done.
MainKey == Key /\ (forms # <<>> => Top.done)

\* A form that is not done has it.
FormKey == Key /\ forms # <<>> /\ IsForm(Top) /\ ~Top.done

Request(ev) == requests' = Append(requests, ev)

PushForm(form) ==
    /\ Len(forms) + Len(requests) < MaxForms
    /\ Request(Push(form))

Selects == cursor < Len(rows)
Selected == rows[cursor + 1]
Target == IF heap[Selected].isDir THEN Selected ELSE heap[Selected].parent

\* run() catches what a handler throws and puts an error screen on the stack.
Throws(fs) ==
    /\ rushed' + thrown < MaxMishaps
    /\ thrown' = thrown + 1
    /\ forms' = Append(fs, NewForm("error", None))

\* save_entries, then flatten_dirs; when the first throws, nothing else happens.
Saves(h, fs) ==
    /\ rows' = Flatten(h)
    /\ stale' = FALSE
    /\ forms' = fs
    /\ UNCHANGED thrown

SaveThrows(fs) ==
    /\ Throws(fs)
    /\ stale' = TRUE
    /\ UNCHANGED rows

-----------------------------------------------------------------------------
(* Keys of the main screen. *)

\* Mutant: down stops one row late.
Move_OneTooFar ==
    /\ MainKey
    /\ cursor' \in {(cursor + 1) % (Len(rows) + 1),
                    IF cursor = 0 THEN Len(rows) - 1 ELSE cursor - 1}
    /\ UNCHANGED <<heap, rows, clipboard, state, forms, requests, closed, broken, trouble>>

\* Mutant: up does not wrap.
Move_NoWrap ==
    /\ MainKey
    /\ cursor' \in {(cursor + 1) % Len(rows), cursor - 1}
    /\ UNCHANGED <<heap, rows, clipboard, state, forms, requests, closed, broken, trouble>>

Move ==
    /\ MainKey
    /\ cursor' \in {(cursor + 1) % Len(rows),
                    IF cursor = 0 THEN Len(rows) - 1 ELSE cursor - 1}
    /\ UNCHANGED <<heap, rows, clipboard, state, forms, requests, closed, broken, trouble>>

\* Mutant: the rows are left as they were.
Toggle_NotFlattened ==
    /\ MainKey /\ Selects /\ heap[Selected].isDir
    /\ heap' = [heap EXCEPT ![Selected].open = ~@]
    /\ UNCHANGED <<rows, cursor, clipboard, state, forms, requests, closed, broken, trouble>>

\* Return on a directory.
Toggle ==
    /\ MainKey /\ Selects /\ heap[Selected].isDir
    /\ LET h == [heap EXCEPT ![Selected].open = ~@] IN
       /\ rows' = Flatten(h)
       /\ stale' = FALSE
       /\ UNCHANGED <<cursor, clipboard, state, forms, requests, closed, broken, thrown>>
       /\ heap' = Reclaim(h)

\* Return on an entry: its secret is derived, then shown in a form without
\* fields.
View ==
    /\ MainKey /\ Selects /\ ~heap[Selected].isDir
    /\ \/ /\ PushForm(NewForm("view", None)) /\ state' = "Editing"
          /\ UNCHANGED <<forms, thrown>>
       \/ Throws(forms) /\ UNCHANGED <<state, requests>>
    /\ UNCHANGED <<heap, rows, cursor, clipboard, closed, broken, stale>>

\* 'n', 'N', 'e' and '?'.
PostForm ==
    /\ MainKey
    /\ \/ PushForm(NewForm("newEntry", None)) /\ state' = "CreatingOrDeleting"
       \/ PushForm(NewForm("newDir", None)) /\ state' = "CreatingOrDeleting"
       \/ /\ Selects /\ state' = "Editing"
          /\ PushForm(NewForm("edit", Selected))
       \/ PushForm(NewForm("help", None)) /\ UNCHANGED state
    /\ UNCHANGED <<heap, rows, cursor, clipboard, forms, closed, broken, trouble>>

\* 'c', and with a form that asks for confirmation, 'd' and 'x'.
Copy ==
    /\ MainKey /\ Selects
    /\ clipboard' = Selected
    /\ \/ UNCHANGED <<requests, state>>
       \/ PushForm(NewForm("delete", Selected)) /\ state' = "CreatingOrDeleting"
    /\ UNCHANGED <<rows, cursor, forms, closed, broken, trouble>>
    /\ heap' = Reclaim(heap)

\* 'p' with a clipboard.
Paste ==
    /\ MainKey /\ Selects
    /\ clipboard # None
    /\ UNCHANGED <<cursor, clipboard, state, requests, closed>>
    /\ IF Target = None
         THEN broken' = "parent" /\ UNCHANGED <<heap, rows, forms, trouble>>
         ELSE LET h == Graft(heap, clipboard, Target) IN
              /\ Twins(heap, clipboard) # {}
              /\ Saves(h, forms) \/ SaveThrows(forms)
              /\ UNCHANGED broken
              /\ heap' = Reclaim(h)

\* 'q'
Quit ==
    /\ MainKey
    /\ Request(Pop)
    /\ UNCHANGED <<heap, rows, cursor, clipboard, state, forms, closed, broken, trouble>>

-----------------------------------------------------------------------------
(* Keys of the controllers above it. *)

Done == [forms EXCEPT ![Len(forms)].done = TRUE]

\* Any key on a help or an error screen.
Dismiss ==
    /\ Key /\ forms # <<>> /\ ~IsForm(Top)
    /\ Request(Pop)
    /\ UNCHANGED <<heap, rows, cursor, clipboard, state, forms, closed, broken, trouble>>

\* Mutant: the main screen is not told.
Leave_KeepsState ==
    /\ FormKey
    /\ Request(Pop)
    /\ UNCHANGED <<heap, rows, cursor, clipboard, state, forms, closed, broken, trouble>>

\* Escape, and any key in a form without fields.  The form stays as it is until
\* the pop is handled, and would ask for another one.
Leave ==
    /\ FormKey
    /\ state' = "Browsing"
    /\ Request(Pop)
    /\ UNCHANGED <<heap, rows, cursor, clipboard, forms, closed, broken, trouble>>

\* The last field of an edit form, and the answers "n" and "" to a delete form.
Finish ==
    /\ FormKey /\ Top.kind \in {"edit", "delete"}
    /\ forms' = Done
    /\ state' = "Browsing"
    /\ Request(Pop)
    /\ UNCHANGED <<heap, rows, cursor, clipboard, closed, broken, trouble>>

\* The new object goes into the selected directory, which is opened, or next to
\* the selected entry; nowhere when the directory of that entry is gone.
WithNew(isDir) ==
    IF Target = None THEN heap
    ELSE LET h == Add(heap, NewObject(isDir, Target))
         IN  [Insert(h, Fresh(heap), Target) EXCEPT ![Target].open = @ \/ heap[Selected].isDir]

\* The last field of a new entry or directory; for an entry,
\* get_next_derivation_path may throw before anything changed.
FinishNew ==
    /\ FormKey /\ Top.kind \in {"newEntry", "newDir"}
    /\ Selects /\ Free(heap) # {}
    /\ Request(Pop)
    /\ UNCHANGED <<cursor, clipboard, closed, broken>>
    /\ LET h == WithNew(Top.kind = "newDir") IN
       \/ Saves(h, Done) /\ state' = "Browsing" /\ heap' = Reclaim(h)
       \/ SaveThrows(Done) /\ UNCHANGED state /\ heap' = Reclaim(h)
       \/ Top.kind = "newEntry" /\ Throws(Done) /\ UNCHANGED <<rows, stale, state, heap>>

\* Mutant: the rows are not flattened again.
Delete_NotFlattened ==
    LET n == Top.node IN
    /\ FormKey /\ Top.kind = "delete"
    /\ state' = "Browsing"
    /\ UNCHANGED <<rows, cursor, clipboard, closed, trouble>>
    /\ IF heap[n].parent = None \/ n \notin ToSet(Children(heap, heap[n].parent))
         THEN /\ broken' = IF heap[n].parent = None THEN "parent" ELSE "erase"
              /\ UNCHANGED <<heap, forms, requests>>
         ELSE /\ forms' = Done /\ Request(Pop)
              /\ UNCHANGED broken
              /\ heap' = Reclaim(Erase(heap, n))

\* The answer "y" to a delete form.
Delete ==
    LET n == Top.node
        h == Erase(heap, n)
    IN
    /\ FormKey /\ Top.kind = "delete"
    /\ state' = "Browsing"
    /\ UNCHANGED <<cursor, clipboard, closed>>
    /\ IF heap[n].parent = None \/ n \notin ToSet(Children(heap, heap[n].parent))
         THEN /\ broken' = IF heap[n].parent = None THEN "parent" ELSE "erase"
              /\ UNCHANGED <<heap, rows, forms, requests, trouble>>
         ELSE /\ \/ Saves(h, Done) /\ Request(Pop)
                 \/ SaveThrows(Done) /\ UNCHANGED requests
              /\ UNCHANGED broken
              /\ heap' = Reclaim(h)

-----------------------------------------------------------------------------
(* The requests, and the end. *)

HandlePush ==
    /\ Running
    /\ requests # <<>> /\ Head(requests).op = "push"
    /\ forms' = Append(forms, Head(requests).form)
    /\ requests' = Tail(requests)
    /\ UNCHANGED <<heap, rows, cursor, clipboard, state, closed, broken, rushed, trouble>>

\* Without forms it is the main screen that goes, with all it holds.
HandlePop ==
    /\ Running
    /\ requests # <<>> /\ Head(requests).op = "pop"
    /\ requests' = Tail(requests)
    /\ IF forms # <<>>
         THEN forms' = Front(forms) /\ UNCHANGED <<rows, clipboard, cursor, closed>>
         ELSE /\ rows' = <<>> /\ clipboard' = None /\ cursor' = 0 /\ closed' = TRUE
              /\ UNCHANGED forms
    /\ UNCHANGED <<state, broken, rushed, trouble>>
    /\ heap' = Reclaim(heap)

\* A form requested before the main screen went is initialised through its
\* pointer to that screen.
HandleOrphan ==
    /\ closed /\ broken = None /\ requests # <<>>
    /\ requests' = Tail(requests)
    /\ broken' = IF Head(requests).op = "push" /\ IsForm(Head(requests).form)
                   THEN "dangling" ELSE None
    /\ UNCHANGED <<rows, cursor, clipboard, state, forms, closed, rushed, trouble>>
    /\ heap' = Reclaim(heap)

\* The row at the cursor is read although there is none: by the drawing, or,
\* when the rows are not drawn, by a key or the callback of a form.
ReadOutside ==
    /\ broken = None /\ ~closed /\ ~Selects
    /\ \/ DrawsOutside
       \/ forms # <<>> /\ (Top.done \/ Top.kind \in {"newEntry", "newDir"})
    /\ broken' = "rows"
    /\ UNCHANGED <<heap, rows, cursor, clipboard, state, forms, requests, closed,
                   rushed, trouble>>

Next ==
    \/ Move \/ Toggle \/ View \/ PostForm \/ Copy \/ Paste \/ Quit
    \/ Dismiss \/ Leave \/ Finish \/ FinishNew \/ Delete
    \/ HandlePush \/ HandlePop \/ HandleOrphan \/ ReadOutside

Spec == Init /\ [][Next]_vars

-----------------------------------------------------------------------------
(* Properties. *)

\* The tree stays a tree, and so does what hangs from the clipboard or a form:
\* whoever holds a child is its parent, holds it once, and holds directories
\* and entries apart (the constructors, deep_copy_directory, std::remove).
IsATree(h) ==
    \A n \in DOMAIN h :
        /\ IsInjective(Children(h, n))
        /\ \A c \in ToSet(Children(h, n)) : h[c].parent = n /\ c # Root
        /\ \A c \in ToSet(h[n].dirs) : h[n].isDir /\ h[c].isDir
        /\ \A c \in ToSet(h[n].entries) : h[n].isDir /\ ~h[c].isDir

Acyclic(h) ==
    \A S \in SUBSET DOMAIN h :
        S # {} => \E m \in S : \A p \in S : m \notin ToSet(Children(h, p))

TreeIsATree == IsATree(heap) /\ Acyclic(heap)

\* Unless a save threw, the rows are the open part of the tree in preorder,
\* directories before entries: the work list of flatten_dirs is no other order.
Preorder(h) ==
    LET F[n \in DOMAIN h] ==
            LET kids == Shown(h, n)
            IN  <<n>> \o FlattenSeq([i \in DOMAIN kids |-> F[kids[i]]])
    IN  F[Root]

RowsShowTheTree == ~stale /\ ~closed => rows = Preorder(heap)

\* Every row has its directory among the rows, and so alive, even when the rows
\* are stale: entry->parent_dir.lock() cannot fail in a paste.
RowsKeepParents ==
    \A n \in ToSet(rows) \ {Root} : heap[n].parent \in ToSet(rows)

\* While no key comes early and nothing throws, there is one form at most, it
\* is never a finished one, and state says which kind it is.
FormsMatchState ==
    rushed = 0 /\ thrown = 0 /\ requests = <<>> /\ ~closed /\ broken = None =>
        /\ Len(forms) <= 1
        /\ forms # <<>> => ~Top.done
        /\ state = IF forms = <<>> \/ Top.kind = "help" THEN "Browsing"
                   ELSE IF Top.kind \in {"view", "edit"} THEN "Editing"
                   ELSE "CreatingOrDeleting"

\* What can go wrong in the hands of a patient user on a working disk is that
\* the row at the cursor is gone, or that the root is deleted; an erase of what
\* is not there takes a key that came early or a save that threw, and a form
\* outlives its screen only with a key that came early.
UndefinedNeedsHaste ==
    /\ broken = "erase" => rushed > 0 \/ thrown > 0
    /\ broken = "parent" => rushed > 0 \/ Top.node = Root
    /\ broken = "dangling" => rushed > 0

\* The cursor leaves the rows only because the tree lost objects, in this step
\* or in one whose save threw: opening, closing, adding and pasting keep it in.
CursorFollows ==
    [][Selects /\ ~Selects' /\ ~closed' =>
          \/ stale
          \/ ~(Below(heap, {Root}) \subseteq Below(heap', {Root}))]_vars

\* keychain_main_screen.cpp:222 offers to "cut/delete entry or group": the
\* screen that is left has a selected row.
SelectedRowExists == ~closed => Selects

-----------------------------------------------------------------------------
(* The inductive invariant: what makes the invariants above hold (see        *)
(* MainScreenProofs; with RowsShowTheTree, see MainScreenRowsProofs).        *)

\* Children and parents are alive, and parents are directories, as the root is.
Linked(h) ==
    \A n \in DOMAIN h :
        /\ ToSet(Children(h, n)) \subseteq DOMAIN h
        /\ h[n].parent # None => h[n].parent \in DOMAIN h /\ h[h[n].parent].isDir
        /\ n = Root => h[n].isDir

Tree(h) == /\ DOMAIN h \subseteq Id /\ \A n \in DOMAIN h : h[n] \in Object
           /\ Linked(h) /\ IsATree(h) /\ Acyclic(h)

\* Forms and requests whose callbacks hold nothing but what is alive: a form that
\* deletes holds what it deletes.
Forms(D) == {f \in [kind : Kinds, node : D \cup {None}, done : BOOLEAN] :
                f.kind = "delete" => f.node # None}
Requests(D) == {Pop} \cup [op : {"push"}, form : Forms(D)]

ObjectsLive ==
    /\ Tree(heap)
    /\ ~closed => Root \in DOMAIN heap
    /\ Root \in DOMAIN heap => heap[Root].parent = None
    /\ forms \in Seq(Forms(DOMAIN heap))
    /\ requests \in Seq(Requests(DOMAIN heap))

\* Rows, unless they are stale, hang from one another.
RowsHang ==
    /\ closed <=> rows = <<>>
    /\ ~stale => \A n \in ToSet(rows) \ {Root} : n \in ToSet(Children(heap, heap[n].parent))
    /\ thrown = 0 => ~stale

\* The first n forms wait for nothing but to be popped.
Idle(n) == \A i \in 1..n : IsForm(forms[i]) => forms[i].done

\* A user who waits for the screen to follow has one request on its way, uses the
\* form on top, and deletes what is a row.
Patient ==
    rushed = 0 =>
        /\ Len(requests) <= 1
        /\ closed => requests = <<>>
        /\ Idle(Len(forms) - 1)
        /\ requests # <<>> /\ Head(requests).op = "push" =>
              /\ Idle(Len(forms))
              /\ Head(requests).form.kind = "delete" => Head(requests).form.node \in ToSet(rows)
        /\ forms # <<>> /\ Top.kind = "delete" /\ ~Top.done => Top.node \in ToSet(rows)

\* What state says while f is open.
StateOf(f) == IF f.kind = "help" THEN "Browsing"
              ELSE IF f.kind \in {"view", "edit"} THEN "Editing"
              ELSE "CreatingOrDeleting"

\* And on a disk that works: one form, then its pop.
Calm ==
    rushed = 0 /\ thrown = 0 /\ ~closed /\ broken = None =>
        \/ requests = <<>> /\ forms = <<>> /\ state = "Browsing"
        \/ /\ requests = <<>> /\ Len(forms) = 1
           /\ ~Top.done /\ Top.kind # "error" /\ state = StateOf(Top)
        \/ /\ requests # <<>> /\ Head(requests).op = "push" /\ forms = <<>>
           /\ ~Head(requests).form.done /\ Head(requests).form.kind # "error"
           /\ state = StateOf(Head(requests).form)
        \/ requests = <<Pop>> /\ Len(forms) <= 1 /\ state = "Browsing"

IndInv == /\ TypeOK /\ ObjectsLive /\ RowsHang /\ RowsKeepParents
          /\ Patient /\ Calm /\ UndefinedNeedsHaste

=============================================================================
