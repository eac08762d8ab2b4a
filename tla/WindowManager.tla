---------------------------- MODULE WindowManager ---------------------------
(***************************************************************************)
(* class WindowManager: the event loop of the terminal interface.          *)
(*                                                                         *)
(* The main thread runs the loop (WindowManager::run): draw the screen on  *)
(* top of the controller stack, wait for an event, handle it.  A second    *)
(* thread polls the terminal (getch_loop) and queues the keys.  Handlers   *)
(* queue changes of the controller stack instead of making them.  And the  *)
(* handler of SIGWINCH, which may interrupt either thread at any point,    *)
(* queues a resize with the same push_event, mutex included.               *)
(*                                                                         *)
(* Abstractions: a key is its position in what was typed; a screen is any  *)
(* program that reacts to an event with the requests a screen of this      *)
(* program makes and may then throw; the stack is its depth.  A data race  *)
(* on should_getch remains what it is in every build, where getch is an    *)
(* opaque call: a read at the head of the loop of the current value.       *)
(***************************************************************************)
EXTENDS Integers, Sequences

CONSTANTS
    MaxKeys,     \* bound: the keys typed
    MaxResizes,  \* bound: the deliveries of SIGWINCH
    MaxPushes    \* bound: the controllers pushed, error screens included

ASSUME BoundAssumption == MaxKeys \in Nat /\ MaxResizes \in Nat /\ MaxPushes \in Nat

Threads == {"main", "input"}

\* WindowEvent; key is 0 unless the code is EV_KEY.
Codes == {"EV_KEY", "EV_RESIZE", "EV_SET_CONTROLLER", "EV_PUSH_CONTROLLER",
          "EV_POP_CONTROLLER", "EV_QUIT"}

Event == [code : {"EV_KEY"}, key : 1..MaxKeys]
            \cup [code : Codes \ {"EV_KEY"}, key : {0}]

Key(n)     == [code |-> "EV_KEY", key |-> n]
Request(c) == [code |-> c, key |-> 0]

Set  == Request("EV_SET_CONTROLLER")
Push == Request("EV_PUSH_CONTROLLER")
Pop  == Request("EV_POP_CONTROLLER")
Quit == Request("EV_QUIT")

VARIABLES
    ev_mutex,     \* the thread that holds the mutex, or "none"
    ev_queue,     \* the queued events
    should_getch, \* cleared when the loop stops
    pc,           \* where each thread is
    sig,          \* where the SIGWINCH handler is that interrupted each thread
    depth,        \* controller_stack.size()
    ev,           \* the event the main thread took
    requests,     \* what its handler has yet to queue
    throws,       \* whether the handler then throws
    key,          \* the key the input thread read
    typed,        \* how many keys were typed
    read,         \* how many of them getch returned
    altPrefixes,  \* the ESC keys swallowed because another key followed at once
    delivered,    \* the keys handed to a controller, in order
    resizes,      \* deliveries of SIGWINCH so far
    pushes        \* controllers pushed so far

queueing == <<ev_mutex, ev_queue>>
handling == <<depth, ev, requests, throws, delivered, pushes>>
terminal == <<key, typed, read, altPrefixes>>
vars     == <<queueing, should_getch, pc, sig, handling, terminal, resizes>>

MainPc  == {"loop", "lock", "check", "sleep", "waiting", "woken", "handle",
            "react", "queue", "notify", "join", "done"}
InputPc == {"test", "getch", "alt", "lock", "queue", "notify", "done"}
SigPc   == {"none", "lock", "queue", "notify"}

TypeOK ==
    /\ ev_mutex \in Threads \cup {"none"}
    /\ ev_queue \in Seq(Event)
    /\ should_getch \in BOOLEAN
    /\ pc \in [Threads -> MainPc \cup InputPc]
    /\ pc["main"] \in MainPc /\ pc["input"] \in InputPc
    /\ sig \in [Threads -> SigPc]
    /\ depth \in Nat
    /\ ev \in Event
    /\ requests \in Seq(Event)
    /\ throws \in BOOLEAN
    /\ key \in 0..MaxKeys
    /\ typed \in 0..MaxKeys /\ read \in 0..MaxKeys
    /\ altPrefixes \in SUBSET (1..MaxKeys)
    /\ delivered \in Seq(1..MaxKeys)
    /\ resizes \in 0..MaxResizes
    /\ pushes \in 0..MaxPushes

Init ==
    /\ ev_mutex = "none" /\ ev_queue = <<>>
    /\ should_getch = TRUE
    /\ pc = [t \in Threads |-> IF t = "main" THEN "loop" ELSE "test"]
    /\ sig = [t \in Threads |-> "none"]
    /\ depth = 1 /\ ev = Quit /\ requests = <<>> /\ throws = FALSE
    /\ key = 0 /\ typed = 0 /\ read = 0 /\ altPrefixes = {}
    /\ delivered = <<>>
    /\ resizes = 0 /\ pushes = 0

\* A thread makes a step of its own only while no signal handler runs on it.
At(t, label)   == pc[t] = label /\ sig[t] = "none"
Goto(t, label) == pc' = [pc EXCEPT ![t] = label]

-----------------------------------------------------------------------------
(* push_event: lock, append, notify_one, unlock.  A signal can come between  *)
(* any two of them.                                                          *)

Acquire(t) == ev_mutex = "none" /\ ev_mutex' = t

Enqueue(e) == ev_queue' = Append(ev_queue, e) /\ UNCHANGED ev_mutex

Release == ev_mutex' = "none" /\ UNCHANGED ev_queue

\* notify_one wakes the main thread if it waits; the pusher goes on to label.
NotifyAndGoto(t, label) ==
    pc' = [u \in Threads |->
             IF u = "main" /\ pc[u] = "waiting" THEN "woken"
             ELSE IF u = t THEN label
             ELSE pc[u]]

-----------------------------------------------------------------------------
(* The input thread: getch_loop. *)

TypeKey ==
    /\ typed < MaxKeys
    /\ typed' = typed + 1
    /\ UNCHANGED <<queueing, should_getch, pc, sig, handling, key, read, altPrefixes, resizes>>

InputTest ==
    /\ At("input", "test")
    /\ Goto("input", IF should_getch THEN "getch" ELSE "done")
    /\ UNCHANGED <<queueing, should_getch, sig, handling, terminal, resizes>>

\* nodelay: getch returns ERR when nothing was typed.  A key may be ESC.
InputGetch ==
    /\ At("input", "getch")
    /\ \/ /\ read < typed
          /\ read' = read + 1 /\ key' = read + 1
          /\ \/ Goto("input", "lock")
             \/ Goto("input", "alt")
       \/ /\ read = typed
          /\ Goto("input", "test")
          /\ UNCHANGED <<read, key>>
    /\ UNCHANGED <<queueing, should_getch, sig, handling, typed, altPrefixes, resizes>>

\* Mutant: what getch returns after ESC is not compared with ERR.
InputAlt_NoErr ==
    /\ At("input", "alt")
    /\ altPrefixes' = altPrefixes \cup {key}
    /\ read' = read + 1 /\ key' = read + 1
    /\ Goto("input", "lock")
    /\ UNCHANGED <<queueing, should_getch, sig, handling, typed, resizes>>

\* After ESC: with nothing behind it, it is the ESC key; otherwise only the
\* key behind it is queued.
InputAlt ==
    /\ At("input", "alt")
    /\ \/ /\ read < typed
          /\ altPrefixes' = altPrefixes \cup {key}
          /\ read' = read + 1 /\ key' = read + 1
       \/ /\ read = typed
          /\ UNCHANGED <<altPrefixes, read, key>>
    /\ Goto("input", "lock")
    /\ UNCHANGED <<queueing, should_getch, sig, handling, typed, resizes>>

\* Mutant: the mutex is not taken.
InputLock_NoLock ==
    /\ At("input", "lock")
    /\ Goto("input", "queue")
    /\ UNCHANGED <<queueing, should_getch, sig, handling, terminal, resizes>>

InputLock ==
    /\ At("input", "lock")
    /\ Acquire("input")
    /\ Goto("input", "queue")
    /\ UNCHANGED <<ev_queue, should_getch, sig, handling, terminal, resizes>>

InputPush ==
    /\ At("input", "queue")
    /\ Enqueue(Key(key))
    /\ Goto("input", "notify")
    /\ UNCHANGED <<should_getch, sig, handling, terminal, resizes>>

\* Mutant: the waiting thread is not notified.
InputNotify_Silent ==
    /\ At("input", "notify")
    /\ Goto("input", "test")
    /\ Release
    /\ UNCHANGED <<should_getch, sig, handling, terminal, resizes>>

InputNotify ==
    /\ At("input", "notify")
    /\ NotifyAndGoto("input", "test")
    /\ Release
    /\ UNCHANGED <<should_getch, sig, handling, terminal, resizes>>

-----------------------------------------------------------------------------
(* The main thread: run. *)

\* Mutant: the input thread is not told.
Stop_NotTold ==
    /\ UNCHANGED should_getch
    /\ depth' = 0
    /\ Goto("main", "join")

\* m_stop: the input thread is told, every controller destroyed, then joined.
Stop ==
    /\ should_getch' = FALSE
    /\ depth' = 0
    /\ Goto("main", "join")

\* The stack is not empty here (see NeverEmpty): the test at the head of the
\* loop always fails.
MainDraw ==
    /\ At("main", "loop")
    /\ Goto("main", "lock")
    /\ UNCHANGED <<queueing, should_getch, sig, handling, terminal, resizes>>

\* Also the end of ev_cv.wait, which takes the mutex again.
MainLock ==
    /\ At("main", "lock") \/ At("main", "woken")
    /\ Acquire("main")
    /\ Goto("main", "check")
    /\ UNCHANGED <<ev_queue, should_getch, sig, handling, terminal, resizes>>

\* Mutant: the mutex is given back between the test of the queue and the wait.
MainEmpty_Unlocks ==
    /\ At("main", "check")
    /\ ev_queue = <<>>
    /\ Goto("main", "sleep")
    /\ Release
    /\ UNCHANGED <<should_getch, sig, handling, terminal, resizes>>

\* The loop around the wait finds the queue empty.
MainEmpty ==
    /\ At("main", "check")
    /\ ev_queue = <<>>
    /\ Goto("main", "sleep")
    /\ UNCHANGED <<queueing, should_getch, sig, handling, terminal, resizes>>

\* wait gives the mutex back and starts waiting in one step.
MainWait ==
    /\ At("main", "sleep")
    /\ Release
    /\ Goto("main", "waiting")
    /\ UNCHANGED <<should_getch, sig, handling, terminal, resizes>>

\* A condition variable may wake without being notified.
SpuriousWakeup ==
    /\ At("main", "waiting")
    /\ Goto("main", "woken")
    /\ UNCHANGED <<queueing, should_getch, sig, handling, terminal, resizes>>

\* Mutant: the youngest event is taken.
MainTake_Last ==
    /\ At("main", "check")
    /\ ev_queue # <<>>
    /\ ev' = ev_queue[Len(ev_queue)]
    /\ ev_queue' = SubSeq(ev_queue, 1, Len(ev_queue) - 1)
    /\ ev_mutex' = "none"
    /\ Goto("main", "handle")
    /\ UNCHANGED <<should_getch, sig, depth, requests, throws, delivered, pushes,
                   terminal, resizes>>

MainTake ==
    /\ At("main", "check")
    /\ ev_queue # <<>>
    /\ ev' = Head(ev_queue) /\ ev_queue' = Tail(ev_queue)
    /\ ev_mutex' = "none"
    /\ Goto("main", "handle")
    /\ UNCHANGED <<should_getch, sig, depth, requests, throws, delivered, pushes,
                   terminal, resizes>>

\* What the screens of this program request while they handle a key, in this
\* order: to be closed, to open or to become another screen, to end.  The form
\* of a new keychain closes itself and the screen below it (<<Pop, Pop>>), or
\* itself to replace the screen below it (<<Pop, Set>>).
KeyReactions == {<<>>, <<Pop>>, <<Push>>, <<Set>>, <<Quit>>, <<Pop, Pop>>, <<Pop, Set>>}

\* What a screen requests when it is first initialised: NewKeychainScreen
\* opens its form.
InitReactions == {<<>>, <<Push>>}

Pushes(rs) == IF \E i \in DOMAIN rs : rs[i] = Push THEN 1 ELSE 0

\* A controller has made its requests rs, and then throws or does not.
React(rs, th) ==
    /\ requests' = rs /\ throws' = th
    /\ pushes' = pushes + Pushes(rs) + (IF th THEN 1 ELSE 0)
    /\ pushes' <= MaxPushes
    /\ Goto("main", "react")

HandleKey ==
    /\ At("main", "handle") /\ ev.code = "EV_KEY"
    /\ delivered' = Append(delivered, ev.key)
    /\ \E rs \in KeyReactions, th \in BOOLEAN : React(rs, th)
    /\ UNCHANGED <<queueing, should_getch, sig, depth, ev, terminal, resizes>>

\* Initialising a controller again requests nothing.
HandleResize ==
    /\ At("main", "handle") /\ ev.code = "EV_RESIZE"
    /\ React(<<>>, FALSE)
    /\ UNCHANGED <<queueing, should_getch, sig, depth, ev, delivered, terminal, resizes>>

HandleSet ==
    /\ At("main", "handle") /\ ev.code = "EV_SET_CONTROLLER"
    /\ \E rs \in InitReactions : React(rs, FALSE)
    /\ UNCHANGED <<queueing, should_getch, sig, depth, ev, delivered, terminal, resizes>>

HandlePush ==
    /\ At("main", "handle") /\ ev.code = "EV_PUSH_CONTROLLER"
    /\ depth' = depth + 1
    /\ React(<<>>, FALSE)
    /\ UNCHANGED <<queueing, should_getch, sig, ev, delivered, terminal, resizes>>

\* Mutant: the stack is not tested after the pop.
HandlePop_Untested ==
    /\ At("main", "handle") /\ ev.code = "EV_POP_CONTROLLER"
    /\ depth' = depth - 1
    /\ React(<<>>, FALSE)
    /\ UNCHANGED <<queueing, should_getch, sig, ev, delivered, terminal, resizes>>

HandlePop ==
    /\ At("main", "handle") /\ ev.code = "EV_POP_CONTROLLER"
    /\ \/ depth = 1 /\ Stop /\ UNCHANGED <<requests, throws, pushes>>
       \/ depth > 1 /\ depth' = depth - 1 /\ React(<<>>, FALSE) /\ UNCHANGED should_getch
    /\ UNCHANGED <<queueing, sig, ev, delivered, terminal, resizes>>

HandleQuit ==
    /\ At("main", "handle") /\ ev.code = "EV_QUIT"
    /\ Stop
    /\ UNCHANGED <<queueing, sig, ev, requests, throws, delivered, pushes, terminal, resizes>>

\* A request of the handler is queued by push_event, on the main thread itself.
ReactLock ==
    /\ At("main", "react") /\ requests # <<>>
    /\ Acquire("main")
    /\ Goto("main", "queue")
    /\ UNCHANGED <<ev_queue, should_getch, sig, handling, terminal, resizes>>

ReactPush ==
    /\ At("main", "queue")
    /\ Enqueue(Head(requests))
    /\ requests' = Tail(requests)
    /\ Goto("main", "notify")
    /\ UNCHANGED <<should_getch, sig, depth, ev, throws, delivered, pushes, terminal, resizes>>

ReactNotify ==
    /\ At("main", "notify")
    /\ Goto("main", "react")
    /\ Release
    /\ UNCHANGED <<should_getch, sig, handling, terminal, resizes>>

\* The end of the try block; the catch block puts an error screen on top.
ReactEnd ==
    /\ At("main", "react") /\ requests = <<>>
    /\ depth' = IF throws THEN depth + 1 ELSE depth
    /\ Goto("main", "loop")
    /\ UNCHANGED <<queueing, should_getch, sig, ev, requests, throws, delivered, pushes,
                   terminal, resizes>>

MainJoin ==
    /\ At("main", "join")
    /\ pc["input"] = "done"
    /\ Goto("main", "done")
    /\ UNCHANGED <<queueing, should_getch, sig, handling, terminal, resizes>>

-----------------------------------------------------------------------------
(* SIGWINCH: resizeHandler calls push_event on whichever thread it hits.     *)

Interrupt(t) ==
    /\ resizes < MaxResizes
    /\ sig[t] = "none" /\ pc[t] # "done"
    /\ sig' = [sig EXCEPT ![t] = "lock"]
    /\ resizes' = resizes + 1
    /\ UNCHANGED <<queueing, should_getch, pc, handling, terminal>>

SignalLock(t) ==
    /\ sig[t] = "lock"
    /\ Acquire(t)
    /\ sig' = [sig EXCEPT ![t] = "queue"]
    /\ UNCHANGED <<ev_queue, should_getch, pc, handling, terminal, resizes>>

SignalPush(t) ==
    /\ sig[t] = "queue"
    /\ Enqueue(Request("EV_RESIZE"))
    /\ sig' = [sig EXCEPT ![t] = "notify"]
    /\ UNCHANGED <<should_getch, pc, handling, terminal, resizes>>

SignalNotify(t) ==
    /\ sig[t] = "notify"
    /\ NotifyAndGoto(t, pc[t])
    /\ Release
    /\ sig' = [sig EXCEPT ![t] = "none"]
    /\ UNCHANGED <<should_getch, handling, terminal, resizes>>

-----------------------------------------------------------------------------

InputStep == InputTest \/ InputGetch \/ InputAlt \/ InputLock \/ InputPush \/ InputNotify

MainStep == \/ MainDraw \/ MainLock \/ MainEmpty \/ MainWait \/ MainTake
            \/ HandleKey \/ HandleResize \/ HandleSet \/ HandlePush \/ HandlePop
            \/ HandleQuit
            \/ ReactLock \/ ReactPush \/ ReactNotify \/ ReactEnd \/ MainJoin

SignalStep(t) == SignalLock(t) \/ SignalPush(t) \/ SignalNotify(t)

Next == \/ TypeKey
        \/ InputStep
        \/ MainStep \/ SpuriousWakeup
        \/ \E t \in Threads : Interrupt(t) \/ SignalStep(t)

\* The operating system schedules both threads, and a handler on them, and
\* grants the mutex to a thread for which it becomes free again and again.  No
\* fairness for the user, for signals, or for spurious wakeups.
Fairness ==
    /\ WF_vars(InputStep) /\ SF_vars(InputLock)
    /\ WF_vars(MainStep) /\ SF_vars(MainLock \/ ReactLock)
    /\ \A t \in Threads : WF_vars(SignalStep(t)) /\ SF_vars(SignalLock(t))

Spec == Init /\ [][Next]_vars /\ Fairness

-----------------------------------------------------------------------------
(* Properties. *)

\* Thread t is between lock and unlock, in its own code or in the handler.
InOwnSection(t) == pc[t] \in {"check", "sleep", "queue", "notify"}
InSection(t)    == InOwnSection(t) \/ sig[t] \in {"queue", "notify"}

\* The mutex is held exactly by the thread that is in a critical section, so
\* the two threads and the handlers on them never touch the queue together:
\* in particular no handler queues while its own thread does.
MutualExclusion ==
    \A t \in Threads :
        /\ ev_mutex = t <=> InSection(t)
        /\ ~(InOwnSection(t) /\ sig[t] \in {"queue", "notify"})

\* The handler waits for the mutex that the very thread it interrupted holds.
\* std::mutex is not recursive and the thread cannot go on: nothing moves it.
SelfDeadlock == \E t \in Threads : sig[t] = "lock" /\ InOwnSection(t)

Notifying == \E t \in Threads : pc[t] = "notify" \/ sig[t] = "notify"

\* No wakeup is lost: the main thread waits only while the queue is empty, or
\* while whoever queued an event is about to notify it.
NoLostWakeup ==
    pc["main"] = "waiting" => ev_queue = <<>> \/ Notifying

\* Keys in the order typed, the zeros of other events between them left out.
Rising(s) == \A i, j \in 1..Len(s) : i < j /\ s[i] # 0 /\ s[j] # 0 => s[i] < s[j]

KeysOf(s) == {s[i] : i \in 1..Len(s)} \ {0}

Queued == [i \in 1..Len(ev_queue) |-> ev_queue[i].key]

InHand == IF pc["main"] = "handle" /\ ev.code = "EV_KEY" THEN <<ev.key>> ELSE <<>>

ToQueue == IF pc["input"] \in {"alt", "lock", "queue"} THEN <<key>> ELSE <<>>

\* Keys are delivered in the order typed, each once, and none is dropped: what
\* was delivered, is in the main thread's hand, is queued and is about to be
\* queued, one after the other, are the keys read, but for the ESC of an Alt
\* combination (getch_loop, push_event and the dispatch of run together).
KeysInOrder ==
    LET seen == delivered \o InHand \o Queued \o ToQueue
    IN  Rising(seen) /\ KeysOf(seen) = (1..read) \ altPrefixes

\* There is a controller to draw and to give the event to whenever run uses the
\* top of the stack, however many controllers a handler asked to close: none of
\* them is closed before the loop gets round to it, and the last one ends it.
NeverEmpty == pc["main"] \notin {"join", "done"} => depth > 0

\* Every key typed reaches a controller, unless the program stops first or a
\* signal handler has deadlocked a thread.
Stopping == pc["main"] \in {"join", "done"}

KeysGetThrough ==
    \A n \in 1..MaxKeys :
        n <= typed ~> \/ n \in altPrefixes
                      \/ \E i \in DOMAIN delivered : delivered[i] = n
                      \/ Stopping \/ SelfDeadlock

\* Once the loop stops, the input thread ends and is joined.
ShutdownCompletes == Stopping ~> (pc["main"] = "done" \/ SelfDeadlock)

-----------------------------------------------------------------------------
(* The inductive invariant (see WindowManagerProofs).                        *)

\* Whoever is about to queue has something to queue.
InHandInv == /\ pc["input"] \in {"alt", "lock", "queue"} => key # 0
             /\ pc["main"] = "queue" => requests # <<>>

\* What the main thread found before it waits is still so: nobody else can
\* queue, because it holds the mutex.
FoundEmpty == pc["main"] = "sleep" => ev_queue = <<>>

\* The keys in one place come before those in the next.
Below(S, T) == \A m \in S, n \in T : m < n

InPlace ==
    LET D == KeysOf(delivered)
        H == KeysOf(InHand)
        Q == KeysOf(Queued)
        T == KeysOf(ToQueue)
    IN  /\ Rising(delivered) /\ Rising(Queued)
        /\ Below(D, H) /\ Below(D, Q) /\ Below(D, T)
        /\ Below(H, Q) /\ Below(H, T) /\ Below(Q, T)
        /\ D \cup H \cup Q \cup T = (1..read) \ altPrefixes

Keyless(rs) == \A i \in 1..Len(rs) : rs[i].code # "EV_KEY"

\* The keys skipped were read, and no handler asks for a key.
KeysFlow == /\ InPlace
            /\ altPrefixes \subseteq 1..read
            /\ Keyless(requests)

IndInv == /\ TypeOK /\ InHandInv
          /\ MutualExclusion /\ FoundEmpty /\ NoLostWakeup
          /\ NeverEmpty /\ KeysFlow

=============================================================================
