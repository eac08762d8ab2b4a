------------------------ MODULE WindowManagerProofs -------------------------
(***************************************************************************)
(* Proofs about WindowManager, for any number of keys, resizes and pushes. *)
(*                                                                         *)
(* IndInv is inductive.  MutualExclusion and NeverEmpty are inductive with *)
(* the types alone.  NoLostWakeup needs FoundEmpty, that the queue found   *)
(* empty under the mutex still is when the wait begins, and FoundEmpty     *)
(* needs MutualExclusion, including that no signal handler is inside its   *)
(* critical section while its own thread is inside one.                    *)
(*                                                                         *)
(* KeysInOrder speaks of one sequence made of four.  KeysFlow says of each *)
(* of them which keys it holds, and that all of them come before those of  *)
(* the next; a key moves from one place to the next (FlowStep), and the    *)
(* four joined are in order (FlowInOrder).                                 *)
(***************************************************************************)
EXTENDS WindowManager, SequenceTheorems, TLAPS

-----------------------------------------------------------------------------
(* Events. *)

\* What is queued and what is requested are events.
LEMMA EventTypes ==
    /\ \A n \in 1..MaxKeys : Key(n) \in Event
    /\ Request("EV_RESIZE") \in Event
    /\ {Set, Push, Pop, Quit} \subseteq Event
BY DEF Event, Codes, Key, Request, Set, Push, Pop, Quit

\* The requests of a handler are sequences of events, and it opens at most
\* one screen.
LEMMA ReactionTypes ==
    /\ KeyReactions \subseteq Seq(Event)
    /\ InitReactions \subseteq Seq(Event)
    /\ <<>> \in Seq(Event)
    /\ \A rs : Pushes(rs) \in 0..1
<1>1. \A e, f \in Event : /\ <<>> \in Seq(Event)
                         /\ <<e>> \in Seq(Event)
                         /\ <<e, f>> \in Seq(Event)
  OBVIOUS
<1>2. Set \in Event /\ Push \in Event /\ Pop \in Event /\ Quit \in Event
  BY EventTypes
<1> HIDE DEF Set, Push, Pop, Quit, Event
<1>3. KeyReactions \subseteq Seq(Event) /\ InitReactions \subseteq Seq(Event)
  BY <1>1, <1>2 DEF KeyReactions, InitReactions
<1>4. \A rs : Pushes(rs) \in 0..1
  BY DEF Pushes
<1>5. QED
  BY <1>1, <1>2, <1>3, <1>4

\* What React records of a handler has the right type.
LEMMA ReactStep ==
    ASSUME TypeOK, NEW rs \in Seq(Event), NEW th \in BOOLEAN, React(rs, th)
    PROVE  requests' \in Seq(Event) /\ throws' \in BOOLEAN /\ pushes' \in 0..MaxPushes
<1>1. pushes \in Nat /\ Pushes(rs) \in 0..1
  BY ReactionTypes, BoundAssumption DEF TypeOK
<1>2. pushes' = pushes + Pushes(rs) + (IF th THEN 1 ELSE 0) /\ pushes' <= MaxPushes
  BY DEF React
<1>3. pushes' \in 0..MaxPushes
  BY <1>1, <1>2, BoundAssumption
<1>4. QED
  BY <1>3 DEF React

\* Taking the oldest event leaves events.
LEMMA HeadTail ==
    ASSUME NEW q \in Seq(Event), q # <<>>
    PROVE  Head(q) \in Event /\ Tail(q) \in Seq(Event)
OBVIOUS

-----------------------------------------------------------------------------
(* One lemma for each part of the invariant. *)

\* Types, and what the threads are about to queue.
LEMMA TypeStep ==
    ASSUME TypeOK, InHandInv, [Next]_vars
    PROVE  TypeOK' /\ InHandInv'
<1> USE DEF TypeOK, InHandInv, vars, queueing, handling, terminal,
            Threads, MainPc, InputPc, SigPc
<1>1. CASE TypeKey
  BY <1>1, BoundAssumption DEF TypeKey
<1>2. CASE InputTest
  BY <1>2 DEF InputTest, At, Goto
<1>3. CASE InputGetch
  BY <1>3, BoundAssumption DEF InputGetch, At, Goto
<1>4. CASE InputAlt
  <2>1. key \in 1..MaxKeys
    BY <1>4, BoundAssumption DEF InputAlt, At
  <2>2. altPrefixes' \subseteq 1..MaxKeys
    BY <1>4, <2>1 DEF InputAlt
  <2>3. key' \in 1..MaxKeys /\ read' \in 0..MaxKeys
    BY <1>4, <2>1, BoundAssumption DEF InputAlt
  <2>4. QED
    BY <1>4, <2>2, <2>3 DEF InputAlt, At, Goto
<1>5. CASE InputLock
  BY <1>5 DEF InputLock, At, Goto, Acquire
<1>6. CASE InputPush
  BY <1>6, EventTypes DEF InputPush, At, Goto, Enqueue, Key
<1>7. CASE InputNotify
  BY <1>7 DEF InputNotify, At, NotifyAndGoto, Release
<1>8. CASE MainDraw
  BY <1>8 DEF MainDraw, At, Goto
<1>9. CASE MainLock
  BY <1>9 DEF MainLock, At, Goto, Acquire
<1>10. CASE MainEmpty
  BY <1>10 DEF MainEmpty, At, Goto
<1>11. CASE MainWait
  BY <1>11 DEF MainWait, At, Goto, Release
<1>12. CASE SpuriousWakeup
  BY <1>12 DEF SpuriousWakeup, At, Goto
<1>13. CASE MainTake
  BY <1>13, HeadTail DEF MainTake, At, Goto
<1>14. CASE HandleKey
  <2>1. requests' \in Seq(Event) /\ throws' \in BOOLEAN /\ pushes' \in 0..MaxPushes
    BY <1>14, ReactionTypes, ReactStep DEF HandleKey
  <2>2. delivered' \in Seq(1..MaxKeys)
    <3>1. ev.key \in 1..MaxKeys
      BY <1>14 DEF HandleKey, Event
    <3>2. QED
      BY <1>14, <3>1 DEF HandleKey
  <2>3. QED
    BY <1>14, <2>1, <2>2 DEF HandleKey, At, Goto, React
<1>15. CASE HandleResize
  <2>1. requests' \in Seq(Event) /\ throws' \in BOOLEAN /\ pushes' \in 0..MaxPushes
    BY <1>15, ReactionTypes, ReactStep DEF HandleResize
  <2>2. QED
    BY <1>15, <2>1 DEF HandleResize, At, Goto, React
<1>16. CASE HandleSet
  <2>1. requests' \in Seq(Event) /\ throws' \in BOOLEAN /\ pushes' \in 0..MaxPushes
    BY <1>16, ReactionTypes, ReactStep DEF HandleSet
  <2>2. QED
    BY <1>16, <2>1 DEF HandleSet, At, Goto, React
<1>17. CASE HandlePush
  <2>1. requests' \in Seq(Event) /\ throws' \in BOOLEAN /\ pushes' \in 0..MaxPushes
    BY <1>17, ReactionTypes, ReactStep DEF HandlePush
  <2>2. QED
    BY <1>17, <2>1 DEF HandlePush, At, Goto, React
<1>18. CASE HandlePop
  <2>1. requests' \in Seq(Event) /\ throws' \in BOOLEAN /\ pushes' \in 0..MaxPushes
    <3>1. CASE depth = 1
      BY <1>18, <3>1 DEF HandlePop
    <3>2. CASE depth > 1
      BY <1>18, <3>2, ReactionTypes, ReactStep DEF HandlePop
    <3>3. QED
      BY <1>18, <3>1, <3>2 DEF HandlePop
  <2>2. depth' \in Nat /\ should_getch' \in BOOLEAN
    <3>1. depth' = 0 \/ (depth > 1 /\ depth' = depth - 1)
      BY <1>18 DEF HandlePop, Stop
    <3>2. should_getch' = FALSE \/ should_getch' = should_getch
      BY <1>18, Zenon DEF HandlePop, Stop
    <3>3. depth' \in Nat
      BY <3>1
    <3>4. should_getch' \in BOOLEAN
      BY <3>2, Zenon
    <3>5. QED
      BY <3>3, <3>4
  <2>3. pc' = [pc EXCEPT !["main"] = "join"] \/ pc' = [pc EXCEPT !["main"] = "react"]
    BY <1>18 DEF HandlePop, Stop, React, Goto
  <2>4. QED
    BY <1>18, <2>1, <2>2, <2>3 DEF HandlePop, At
<1>19. CASE HandleQuit
  BY <1>19 DEF HandleQuit, At, Goto, Stop
<1>20. CASE ReactLock
  BY <1>20 DEF ReactLock, At, Goto, Acquire
<1>21. CASE ReactPush
  <2>1. requests # <<>>
    BY <1>21 DEF ReactPush, At, InHandInv
  <2>2. Head(requests) \in Event /\ Tail(requests) \in Seq(Event)
    BY <2>1, HeadTail
  <2>3. ev_queue' \in Seq(Event) /\ requests' \in Seq(Event)
    BY <1>21, <2>2 DEF ReactPush, Enqueue
  <2>4. QED
    BY <1>21, <2>3 DEF ReactPush, At, Goto, Enqueue
<1>22. CASE ReactNotify
  BY <1>22 DEF ReactNotify, At, Goto, Release
<1>23. CASE ReactEnd
  BY <1>23 DEF ReactEnd, At, Goto
<1>24. CASE MainJoin
  BY <1>24 DEF MainJoin, At, Goto
<1>25. ASSUME NEW t \in Threads, Interrupt(t) \/ SignalStep(t)
      PROVE  TypeOK' /\ InHandInv'
  <2>1. CASE Interrupt(t)
    BY <2>1, BoundAssumption DEF Interrupt
  <2>2. CASE SignalLock(t)
    BY <2>2 DEF SignalLock, Acquire
  <2>3. CASE SignalPush(t)
    BY <2>3, EventTypes DEF SignalPush, Enqueue, Request
  <2>4. CASE SignalNotify(t)
    BY <2>4 DEF SignalNotify, NotifyAndGoto, Release
  <2>5. QED
    BY <1>25, <2>1, <2>2, <2>3, <2>4 DEF SignalStep
<1>26. CASE UNCHANGED vars
  BY <1>26
<1>27. QED
  BY <1>1, <1>2, <1>3, <1>4, <1>5, <1>6, <1>7, <1>8, <1>9, <1>10, <1>11,
     <1>12, <1>13, <1>14, <1>15, <1>16, <1>17, <1>18, <1>19, <1>20, <1>21,
     <1>22, <1>23, <1>24, <1>25, <1>26 DEF Next, InputStep, MainStep

\* Every lock, unlock and signal keeps the mutex with who is in a section.
LEMMA ExclusionStep ==
    ASSUME TypeOK, MutualExclusion, [Next]_vars
    PROVE  MutualExclusion'
<1> USE DEF TypeOK, MutualExclusion, InSection, InOwnSection, vars,
            queueing, handling, terminal, Threads, MainPc, InputPc, SigPc
<1>1. CASE TypeKey
  BY <1>1 DEF TypeKey
<1>2. CASE InputTest
  BY <1>2 DEF InputTest, At, Goto
<1>3. CASE InputGetch
  BY <1>3 DEF InputGetch, At, Goto
<1>4. CASE InputAlt
  BY <1>4 DEF InputAlt, At, Goto
<1>5. CASE InputLock
  BY <1>5 DEF InputLock, At, Goto, Acquire
<1>6. CASE InputPush
  BY <1>6 DEF InputPush, At, Goto, Enqueue, Key
<1>7. CASE InputNotify
  BY <1>7 DEF InputNotify, At, NotifyAndGoto, Release
<1>8. CASE MainDraw
  BY <1>8 DEF MainDraw, At, Goto
<1>9. CASE MainLock
  BY <1>9 DEF MainLock, At, Goto, Acquire
<1>10. CASE MainEmpty
  BY <1>10 DEF MainEmpty, At, Goto
<1>11. CASE MainWait
  BY <1>11 DEF MainWait, At, Goto, Release
<1>12. CASE SpuriousWakeup
  BY <1>12 DEF SpuriousWakeup, At, Goto
<1>13. CASE MainTake
  BY <1>13 DEF MainTake, At, Goto
<1>14. CASE HandleKey
  BY <1>14 DEF HandleKey, At, Goto, React
<1>15. CASE HandleResize
  BY <1>15 DEF HandleResize, At, Goto, React
<1>16. CASE HandleSet
  BY <1>16 DEF HandleSet, At, Goto, React
<1>17. CASE HandlePush
  BY <1>17 DEF HandlePush, At, Goto, React
<1>18. CASE HandlePop
  BY <1>18 DEF HandlePop, At, Goto, React, Stop
<1>19. CASE HandleQuit
  BY <1>19 DEF HandleQuit, At, Goto, Stop
<1>20. CASE ReactLock
  BY <1>20 DEF ReactLock, At, Goto, Acquire
<1>21. CASE ReactPush
  BY <1>21 DEF ReactPush, At, Goto, Enqueue
<1>22. CASE ReactNotify
  BY <1>22 DEF ReactNotify, At, Goto, Release
<1>23. CASE ReactEnd
  BY <1>23 DEF ReactEnd, At, Goto
<1>24. CASE MainJoin
  BY <1>24 DEF MainJoin, At, Goto
<1>25. ASSUME NEW t \in Threads, Interrupt(t) \/ SignalStep(t)
      PROVE  MutualExclusion'
  <2>1. CASE Interrupt(t)
    BY <2>1 DEF Interrupt
  <2>2. CASE SignalLock(t)
    BY <2>2 DEF SignalLock, Acquire
  <2>3. CASE SignalPush(t)
    BY <2>3 DEF SignalPush, Enqueue, Request
  <2>4. CASE SignalNotify(t)
    BY <2>4 DEF SignalNotify, NotifyAndGoto, Release
  <2>5. QED
    BY <1>25, <2>1, <2>2, <2>3, <2>4 DEF SignalStep
<1>26. CASE UNCHANGED vars
  BY <1>26
<1>27. QED
  BY <1>1, <1>2, <1>3, <1>4, <1>5, <1>6, <1>7, <1>8, <1>9, <1>10, <1>11,
     <1>12, <1>13, <1>14, <1>15, <1>16, <1>17, <1>18, <1>19, <1>20, <1>21,
     <1>22, <1>23, <1>24, <1>25, <1>26 DEF Next, InputStep, MainStep

\* Only the mutex keeps a push from between the test and the wait.
LEMMA WakeupStep ==
    ASSUME TypeOK, MutualExclusion, FoundEmpty, NoLostWakeup, [Next]_vars
    PROVE  FoundEmpty' /\ NoLostWakeup'
<1> USE DEF TypeOK, MutualExclusion, FoundEmpty, NoLostWakeup, Notifying,
            InSection, InOwnSection, vars, queueing, handling, terminal,
            Threads, MainPc, InputPc, SigPc
<1>1. CASE TypeKey
  BY <1>1 DEF TypeKey
<1>2. CASE InputTest
  BY <1>2 DEF InputTest, At, Goto
<1>3. CASE InputGetch
  BY <1>3 DEF InputGetch, At, Goto
<1>4. CASE InputAlt
  BY <1>4 DEF InputAlt, At, Goto
<1>5. CASE InputLock
  BY <1>5 DEF InputLock, At, Goto, Acquire
<1>6. CASE InputPush
  BY <1>6 DEF InputPush, At, Goto, Enqueue, Key
<1>7. CASE InputNotify
  BY <1>7 DEF InputNotify, At, NotifyAndGoto, Release
<1>8. CASE MainDraw
  BY <1>8 DEF MainDraw, At, Goto
<1>9. CASE MainLock
  BY <1>9 DEF MainLock, At, Goto, Acquire
<1>10. CASE MainEmpty
  BY <1>10 DEF MainEmpty, At, Goto
<1>11. CASE MainWait
  BY <1>11 DEF MainWait, At, Goto, Release
<1>12. CASE SpuriousWakeup
  BY <1>12 DEF SpuriousWakeup, At, Goto
<1>13. CASE MainTake
  BY <1>13 DEF MainTake, At, Goto
<1>14. CASE HandleKey
  BY <1>14 DEF HandleKey, At, Goto, React
<1>15. CASE HandleResize
  BY <1>15 DEF HandleResize, At, Goto, React
<1>16. CASE HandleSet
  BY <1>16 DEF HandleSet, At, Goto, React
<1>17. CASE HandlePush
  BY <1>17 DEF HandlePush, At, Goto, React
<1>18. CASE HandlePop
  BY <1>18 DEF HandlePop, At, Goto, React, Stop
<1>19. CASE HandleQuit
  BY <1>19 DEF HandleQuit, At, Goto, Stop
<1>20. CASE ReactLock
  BY <1>20 DEF ReactLock, At, Goto, Acquire
<1>21. CASE ReactPush
  BY <1>21 DEF ReactPush, At, Goto, Enqueue
<1>22. CASE ReactNotify
  BY <1>22 DEF ReactNotify, At, Goto, Release
<1>23. CASE ReactEnd
  BY <1>23 DEF ReactEnd, At, Goto
<1>24. CASE MainJoin
  BY <1>24 DEF MainJoin, At, Goto
<1>25. ASSUME NEW t \in Threads, Interrupt(t) \/ SignalStep(t)
      PROVE  FoundEmpty' /\ NoLostWakeup'
  <2>1. CASE Interrupt(t)
    BY <2>1 DEF Interrupt
  <2>2. CASE SignalLock(t)
    BY <2>2 DEF SignalLock, Acquire
  <2>3. CASE SignalPush(t)
    BY <2>3 DEF SignalPush, Enqueue, Request
  <2>4. CASE SignalNotify(t)
    BY <2>4 DEF SignalNotify, NotifyAndGoto, Release
  <2>5. QED
    BY <1>25, <2>1, <2>2, <2>3, <2>4 DEF SignalStep
<1>26. CASE UNCHANGED vars
  BY <1>26
<1>27. QED
  BY <1>1, <1>2, <1>3, <1>4, <1>5, <1>6, <1>7, <1>8, <1>9, <1>10, <1>11,
     <1>12, <1>13, <1>14, <1>15, <1>16, <1>17, <1>18, <1>19, <1>20, <1>21,
     <1>22, <1>23, <1>24, <1>25, <1>26 DEF Next, InputStep, MainStep

\* Controllers are closed one at a time, and the last one ends the loop.
LEMMA NeverEmptyStep ==
    ASSUME TypeOK, NeverEmpty, [Next]_vars
    PROVE  NeverEmpty'
<1> USE DEF TypeOK, NeverEmpty, vars, queueing, handling, terminal, Threads, MainPc, InputPc, SigPc
<1>1. CASE TypeKey
  BY <1>1 DEF TypeKey
<1>2. CASE InputTest
  BY <1>2 DEF InputTest, At, Goto
<1>3. CASE InputGetch
  BY <1>3 DEF InputGetch, At, Goto
<1>4. CASE InputAlt
  BY <1>4 DEF InputAlt, At, Goto
<1>5. CASE InputLock
  BY <1>5 DEF InputLock, At, Goto, Acquire
<1>6. CASE InputPush
  BY <1>6 DEF InputPush, At, Goto, Enqueue, Key
<1>7. CASE InputNotify
  BY <1>7 DEF InputNotify, At, NotifyAndGoto, Release
<1>8. CASE MainDraw
  BY <1>8 DEF MainDraw, At, Goto
<1>9. CASE MainLock
  BY <1>9 DEF MainLock, At, Goto, Acquire
<1>10. CASE MainEmpty
  BY <1>10 DEF MainEmpty, At, Goto
<1>11. CASE MainWait
  BY <1>11 DEF MainWait, At, Goto, Release
<1>12. CASE SpuriousWakeup
  BY <1>12 DEF SpuriousWakeup, At, Goto
<1>13. CASE MainTake
  BY <1>13 DEF MainTake, At, Goto
<1>14. CASE HandleKey
  BY <1>14 DEF HandleKey, At, Goto, React
<1>15. CASE HandleResize
  BY <1>15 DEF HandleResize, At, Goto, React
<1>16. CASE HandleSet
  BY <1>16 DEF HandleSet, At, Goto, React
<1>17. CASE HandlePush
  BY <1>17 DEF HandlePush, At, Goto, React
<1>18. CASE HandlePop
  BY <1>18 DEF HandlePop, At, Goto, React, Stop
<1>19. CASE HandleQuit
  BY <1>19 DEF HandleQuit, At, Goto, Stop
<1>20. CASE ReactLock
  BY <1>20 DEF ReactLock, At, Goto, Acquire
<1>21. CASE ReactPush
  BY <1>21 DEF ReactPush, At, Goto, Enqueue
<1>22. CASE ReactNotify
  BY <1>22 DEF ReactNotify, At, Goto, Release
<1>23. CASE ReactEnd
  BY <1>23 DEF ReactEnd, At, Goto
<1>24. CASE MainJoin
  BY <1>24 DEF MainJoin, At, Goto
<1>25. ASSUME NEW t \in Threads, Interrupt(t) \/ SignalStep(t)
      PROVE  NeverEmpty'
  <2>1. CASE Interrupt(t)
    BY <2>1 DEF Interrupt
  <2>2. CASE SignalLock(t)
    BY <2>2 DEF SignalLock, Acquire
  <2>3. CASE SignalPush(t)
    BY <2>3 DEF SignalPush, Enqueue, Request
  <2>4. CASE SignalNotify(t)
    BY <2>4 DEF SignalNotify, NotifyAndGoto, Release
  <2>5. QED
    BY <1>25, <2>1, <2>2, <2>3, <2>4 DEF SignalStep
<1>26. CASE UNCHANGED vars
  BY <1>26
<1>27. QED
  BY <1>1, <1>2, <1>3, <1>4, <1>5, <1>6, <1>7, <1>8, <1>9, <1>10, <1>11,
     <1>12, <1>13, <1>14, <1>15, <1>16, <1>17, <1>18, <1>19, <1>20, <1>21,
     <1>22, <1>23, <1>24, <1>25, <1>26 DEF Next, InputStep, MainStep

-----------------------------------------------------------------------------
(* Keys on their way. *)

\* No event, no key.
LEMMA KeysOfNone == KeysOf(<<>>) = {} /\ Rising(<<>>)
BY DEF KeysOf, Rising

\* One event is one key at most.
LEMMA KeysOfOne ==
    ASSUME NEW k PROVE KeysOf(<<k>>) = {k} \ {0}
BY DEF KeysOf

\* A key behind the others.
LEMMA KeyAppended ==
    ASSUME NEW s \in Seq(Nat), NEW k \in Nat
    PROVE  /\ KeysOf(Append(s, k)) = KeysOf(s) \cup ({k} \ {0})
           /\ Rising(s) /\ (k = 0 \/ \A m \in KeysOf(s) : m < k) => Rising(Append(s, k))
<1> DEFINE n == Len(s)
           t == Append(s, k)
<1>1. /\ n \in Nat /\ t \in Seq(Nat) /\ Len(t) = n + 1 /\ t[n + 1] = k
      /\ \A i \in 1..n : t[i] = s[i]
  OBVIOUS
<1>2. \A i \in 1..(n + 1) : i = n + 1 \/ i \in 1..n
  BY <1>1
<1>3. 1..(n + 1) = 1..n \cup {n + 1}
  BY <1>1
<1> HIDE DEF t
<1>4. KeysOf(t) = KeysOf(s) \cup ({k} \ {0})
  BY <1>1, <1>3 DEF KeysOf
<1>5. ASSUME Rising(s), k = 0 \/ \A m \in KeysOf(s) : m < k PROVE Rising(t)
  <2> SUFFICES ASSUME NEW i \in 1..(n + 1), NEW j \in 1..(n + 1), i < j, t[i] # 0, t[j] # 0
               PROVE  t[i] < t[j]
    BY <1>1 DEF Rising
  <2>1. i \in 1..n
    BY <1>1, <1>2
  <2>2. CASE j \in 1..n
    BY <1>1, <1>5, <2>1, <2>2 DEF Rising
  <2>3. CASE j = n + 1
    <3>1. t[i] \in KeysOf(s)
      BY <1>1, <2>1 DEF KeysOf
    <3>2. QED
      BY <1>1, <1>5, <2>3, <3>1
  <2>4. QED
    BY <1>2, <2>2, <2>3
<1>6. QED
  BY <1>4, <1>5 DEF t

\* A key in front of the others.
LEMMA KeyTaken ==
    ASSUME NEW s \in Seq(Nat), s # <<>>
    PROVE  /\ KeysOf(s) = ({Head(s)} \ {0}) \cup KeysOf(Tail(s))
           /\ Rising(s) => /\ Rising(Tail(s))
                           /\ Head(s) # 0 => \A m \in KeysOf(Tail(s)) : Head(s) < m
<1> DEFINE n == Len(s)
           t == Tail(s)
<1>1. /\ n \in Nat \ {0} /\ t \in Seq(Nat) /\ Len(t) = n - 1 /\ Head(s) = s[1]
      /\ \A i \in 1..(n - 1) : t[i] = s[i + 1]
  OBVIOUS
<1>2. \A i \in 1..(n - 1) : i + 1 \in 1..n /\ 1 < i + 1 /\ 1 \in 1..n
  BY <1>1
<1> HIDE DEF t
<1>3. \A i \in 1..n : i = 1 \/ (\E j \in 1..(n - 1) : i = j + 1)
  <2> SUFFICES ASSUME NEW i \in 1..n, i # 1 PROVE \E j \in 1..(n - 1) : i = j + 1
    OBVIOUS
  <2>1. i - 1 \in 1..(n - 1) /\ i = (i - 1) + 1
    BY <1>1
  <2>2. QED
    BY <2>1
<1>4. \A x : (\E i \in 1..n : s[i] = x) <=> (x = s[1] \/ \E j \in 1..(n - 1) : t[j] = x)
  <2>1. ASSUME NEW i \in 1..n PROVE s[i] = s[1] \/ \E j \in 1..(n - 1) : t[j] = s[i]
    BY <1>1, <1>3
  <2>2. ASSUME NEW j \in 1..(n - 1) PROVE \E i \in 1..n : s[i] = t[j]
    BY <1>1, <1>2
  <2>3. 1 \in 1..n
    BY <1>1
  <2>4. QED
    BY <2>1, <2>2, <2>3
<1>5. KeysOf(s) = ({s[1]} \ {0}) \cup KeysOf(t)
  <2>1. KeysOf(t) = {t[j] : j \in 1..(n - 1)} \ {0} /\ KeysOf(s) = {s[i] : i \in 1..n} \ {0}
    BY <1>1 DEF KeysOf
  <2>2. \A x : x \in KeysOf(s) <=> x # 0 /\ \E i \in 1..n : s[i] = x
    BY <2>1
  <2>3. \A x : x \in KeysOf(t) <=> x # 0 /\ \E j \in 1..(n - 1) : t[j] = x
    BY <2>1
  <2>4. QED
    BY <1>4, <2>2, <2>3
<1>6. ASSUME Rising(s) PROVE Rising(t)
  <2> SUFFICES ASSUME NEW i \in 1..(n - 1), NEW j \in 1..(n - 1), i < j, t[i] # 0, t[j] # 0
               PROVE  t[i] < t[j]
    BY <1>1 DEF Rising
  <2>1. i + 1 \in 1..n /\ j + 1 \in 1..n /\ i + 1 < j + 1
    BY <1>1, <1>2
  <2>2. t[i] = s[i + 1] /\ t[j] = s[j + 1]
    BY <1>1
  <2>3. QED
    BY <1>6, <2>1, <2>2 DEF Rising
<1>7. ASSUME Rising(s), s[1] # 0, NEW m \in KeysOf(t) PROVE s[1] < m
  <2>1. PICK j \in 1..(n - 1) : t[j] = m /\ m # 0
    BY <1>1, <1>7 DEF KeysOf
  <2>2. j + 1 \in 1..n /\ 1 \in 1..n /\ 1 < j + 1 /\ s[j + 1] = m
    BY <1>1, <1>2, <2>1
  <2>3. QED
    BY <1>7, <2>1, <2>2 DEF Rising
<1>8. QED
  BY <1>1, <1>5, <1>6, <1>7 DEF t

\* What the places hold.
LEMMA Places ==
    ASSUME TypeOK
    PROVE  /\ delivered \in Seq(Nat) /\ Queued \in Seq(Nat) /\ read \in Nat
           /\ InHand \in Seq(Nat) /\ ToQueue \in Seq(Nat)
           /\ KeysOf(delivered) \subseteq Nat \ {0}
           /\ KeysOf(InHand) = IF pc["main"] = "handle" /\ ev.code = "EV_KEY" THEN {ev.key} ELSE {}
           /\ KeysOf(ToQueue) = (IF pc["input"] \in {"alt", "lock", "queue"} THEN {key} ELSE {}) \ {0}
           /\ KeysOf(Queued) \subseteq Nat \ {0} /\ KeysOf(InHand) \subseteq Nat \ {0}
           /\ KeysOf(ToQueue) \subseteq Nat \ {0}
<1>1. /\ \A e \in Event : e.key \in Nat /\ (e.code = "EV_KEY" => e.key # 0)
      /\ ev_queue \in Seq(Event) /\ ev \in Event /\ key \in Nat /\ read \in Nat
      /\ delivered \in Seq(1..MaxKeys)
  BY BoundAssumption DEF TypeOK, Event
<1>2. delivered \in Seq(Nat) /\ Queued \in Seq(Nat)
  <2>1. 1..MaxKeys \subseteq Nat
    OBVIOUS
  <2>2. delivered \in Seq(Nat)
    BY <1>1, <2>1, SeqMonotonic, Zenon
  <2>3. Len(ev_queue) \in Nat /\ \A i \in 1..Len(ev_queue) : ev_queue[i].key \in Nat
    BY <1>1
  <2>4. Queued \in Seq(Nat)
    BY <2>3 DEF Queued
  <2>5. QED
    BY <2>2, <2>4
<1>3. InHand \in Seq(Nat) /\ ToQueue \in Seq(Nat)
  BY <1>1 DEF InHand, ToQueue
<1>4. \A s \in Seq(Nat) : KeysOf(s) \subseteq Nat \ {0}
  BY DEF KeysOf
<1>5. KeysOf(InHand) = IF pc["main"] = "handle" /\ ev.code = "EV_KEY" THEN {ev.key} ELSE {}
  <2>1. CASE pc["main"] = "handle" /\ ev.code = "EV_KEY"
    <3>1. InHand = <<ev.key>> /\ ev.key # 0
      BY <1>1, <2>1 DEF InHand
    <3>2. QED
      BY <2>1, <3>1, KeysOfOne
  <2>2. CASE ~(pc["main"] = "handle" /\ ev.code = "EV_KEY")
    BY <2>2, KeysOfNone DEF InHand
  <2>3. QED
    BY <2>1, <2>2
<1>6. KeysOf(ToQueue) = (IF pc["input"] \in {"alt", "lock", "queue"} THEN {key} ELSE {}) \ {0}
  BY KeysOfNone, KeysOfOne DEF ToQueue
<1>7. QED
  BY <1>1, <1>2, <1>3, <1>4, <1>5, <1>6

\* An event queued.
LEMMA Enqueued ==
    ASSUME TypeOK, NEW e \in Event, Enqueue(e)
    PROVE  Queued' = Append(Queued, e.key)
<1>1. ev_queue \in Seq(Event) /\ ev_queue' = Append(ev_queue, e)
  BY DEF TypeOK, Enqueue
<1> DEFINE n == Len(ev_queue)
<1>2. /\ n \in Nat /\ Len(ev_queue') = n + 1 /\ ev_queue'[n + 1] = e
      /\ \A i \in 1..n : ev_queue'[i] = ev_queue[i]
  BY <1>1
<1>3. Queued' = [i \in 1..(n + 1) |-> ev_queue'[i].key]
  BY <1>2 DEF Queued
<1>4. Append(Queued, e.key) = [i \in 1..(n + 1) |-> IF i = n + 1 THEN e.key ELSE ev_queue[i].key]
  BY <1>2 DEF Queued
<1>5. QED
  BY <1>2, <1>3, <1>4

\* Taking the oldest event: its key, if it is one, is the least of the queued.
LEMMA Dequeued ==
    ASSUME TypeOK, ev_queue # <<>>, ev_queue' = Tail(ev_queue)
    PROVE  Queued # <<>> /\ Head(Queued) = Head(ev_queue).key /\ Queued' = Tail(Queued)
           /\ Head(ev_queue) \in Event
<1> DEFINE n == Len(ev_queue)
<1>1. /\ n \in Nat \ {0} /\ Len(ev_queue') = n - 1 /\ Head(ev_queue) = ev_queue[1]
      /\ \A i \in 1..(n - 1) : ev_queue'[i] = ev_queue[i + 1]
      /\ ev_queue[1] \in Event
  BY DEF TypeOK
<1>2. Queued' = [i \in 1..(n - 1) |-> ev_queue[i + 1].key]
  BY <1>1 DEF Queued
<1>3. Queued \in Seq(Nat) /\ Len(Queued) = n /\ \A i \in 1..n : Queued[i] = ev_queue[i].key
  BY <1>1, Places DEF Queued
<1>4. Queued # <<>> /\ Head(Queued) = Queued[1] /\ 1 \in 1..n
  BY <1>1, <1>3
<1>5. /\ Tail(Queued) \in Seq(Nat) /\ Len(Tail(Queued)) = n - 1
      /\ \A i \in 1..(n - 1) : Tail(Queued)[i] = Queued[i + 1]
  BY <1>3, <1>4, HeadTailProperties
<1>6. \A i \in 1..(n - 1) : Queued[i + 1] = ev_queue[i + 1].key /\ ev_queue[i + 1].key \in Nat
  <2>1. \A i \in 1..(n - 1) : i + 1 \in 1..n
    BY <1>1
  <2>2. \A i \in 1..n : Queued[i] \in Nat
    BY <1>3
  <2>3. QED
    BY <1>3, <2>1, <2>2
<1>7. Queued' \in Seq(Nat) /\ Len(Queued') = n - 1
  BY <1>1, <1>2, <1>6
<1>8. \A i \in 1..(n - 1) : Queued'[i] = Tail(Queued)[i]
  BY <1>2, <1>5, <1>6
<1>9. Queued' = Tail(Queued)
  BY <1>5, <1>7, <1>8, SeqEqual
<1>10. QED
  BY <1>1, <1>3, <1>4, <1>9

\* What a screen requests is no key.
LEMMA ReactionsAreKeyless ==
    \A rs \in KeyReactions \cup InitReactions \cup {<<>>} : Keyless(rs)
<1>1. \A e \in {Set, Push, Pop, Quit} : e.code # "EV_KEY"
  BY DEF Set, Push, Pop, Quit, Request
<1> HIDE DEF Set, Push, Pop, Quit
<1>2. \A e, f \in {Set, Push, Pop, Quit} : Keyless(<<>>) /\ Keyless(<<e>>) /\ Keyless(<<e, f>>)
  <2> SUFFICES ASSUME NEW e \in {Set, Push, Pop, Quit}, NEW f \in {Set, Push, Pop, Quit}
               PROVE  Keyless(<<>>) /\ Keyless(<<e>>) /\ Keyless(<<e, f>>)
    OBVIOUS
  <2>1. e.code # "EV_KEY" /\ f.code # "EV_KEY"
    BY <1>1
  <2>2. \A i \in 1..2 : i = 1 \/ i = 2
    OBVIOUS
  <2>3. Keyless(<<>>) /\ Keyless(<<e>>)
    BY <2>1 DEF Keyless
  <2>4. Keyless(<<e, f>>)
    BY <2>1, <2>2 DEF Keyless
  <2>5. QED
    BY <2>3, <2>4
<1>3. QED
  BY <1>2 DEF KeyReactions, InitReactions

\* A step that moves no key.
LEMMA Unmoved ==
    ASSUME KeysFlow, UNCHANGED <<delivered, ev_queue, read, altPrefixes>>,
           UNCHANGED InHand, UNCHANGED ToQueue, Keyless(requests')
    PROVE  KeysFlow'
<1>1. UNCHANGED Queued
  BY DEF Queued
<1>2. QED
  BY <1>1 DEF KeysFlow, InPlace

\* A step that queues another event than a key.
LEMMA QueuesOther ==
    ASSUME TypeOK, KeysFlow, NEW e \in Event, e.code # "EV_KEY", Enqueue(e),
           UNCHANGED <<delivered, read, altPrefixes>>,
           UNCHANGED InHand, UNCHANGED ToQueue, Keyless(requests')
    PROVE  KeysFlow'
<1>1. e.key = 0
  BY DEF Event
<1>2. Queued' = Append(Queued, 0) /\ Queued \in Seq(Nat)
  BY <1>1, Enqueued, Places
<1>3. /\ KeysOf(Append(Queued, 0)) = KeysOf(Queued)
      /\ Rising(Queued) => Rising(Append(Queued, 0))
  BY <1>2, KeyAppended
<1>4. QED
  BY <1>2, <1>3 DEF KeysFlow, InPlace

\* A screen asks for what is not a key, or for nothing.
LEMMA ReactFlow ==
    ASSUME KeysFlow, UNCHANGED <<delivered, ev_queue, read, altPrefixes>>,
           UNCHANGED InHand, UNCHANGED ToQueue,
           NEW rs \in KeyReactions \cup InitReactions \cup {<<>>}, NEW th, React(rs, th)
    PROVE  KeysFlow'
BY ReactionsAreKeyless, Unmoved DEF React

\* The main thread does something else than taking an event and handling a key.
LEMMA MainMoves ==
    ASSUME TypeOK, NEW label \in MainPc, Goto("main", label),
           UNCHANGED <<ev, key>>, ~(pc["main"] = "handle" /\ ev.code = "EV_KEY"),
           label # "handle"
    PROVE  UNCHANGED InHand /\ UNCHANGED ToQueue
<1>1. pc'["main"] = label /\ pc'["input"] = pc["input"]
  BY DEF Goto, TypeOK, Threads
<1>2. QED
  BY <1>1 DEF InHand, ToQueue

\* What the input thread holds depends on where it is, and on nothing else.
LEMMA InputMoves ==
    ASSUME TypeOK, NEW label \in InputPc, Goto("input", label),
           UNCHANGED <<ev, key>>,
           label \in {"alt", "lock", "queue"} <=> pc["input"] \in {"alt", "lock", "queue"}
    PROVE  UNCHANGED InHand /\ UNCHANGED ToQueue
<1>1. pc'["input"] = label /\ pc'["main"] = pc["main"]
  BY DEF Goto, TypeOK, Threads
<1>2. QED
  BY <1>1 DEF InHand, ToQueue

\* Keys stay in order through each step of getch_loop, push_event and run.
LEMMA FlowStep ==
    ASSUME TypeOK, InHandInv, KeysFlow, [Next]_vars
    PROVE  KeysFlow'
<1> USE DEF queueing, handling, terminal
<1>1. CASE TypeKey
  BY <1>1, Unmoved DEF TypeKey, KeysFlow, InHand, ToQueue
<1>2. CASE InputTest
  <2>1. UNCHANGED InHand /\ UNCHANGED ToQueue
    BY <1>2, InputMoves DEF InputTest, At, InputPc
  <2>2. QED
    BY <1>2, <2>1, Unmoved DEF InputTest, KeysFlow
<1>3. CASE InputGetch
  <2>1. CASE read = typed /\ Goto("input", "test") /\ UNCHANGED <<read, key>>
    <3>1. UNCHANGED InHand /\ UNCHANGED ToQueue
      BY <1>3, <2>1, InputMoves DEF InputGetch, At, InputPc
    <3>2. QED
      BY <1>3, <2>1, <3>1, Unmoved DEF InputGetch, KeysFlow
  <2>2. ASSUME read < typed, read' = read + 1, key' = read + 1,
               NEW label \in {"lock", "alt"}, Goto("input", label)
        PROVE  KeysFlow'
    <3>1. pc'["input"] = label /\ pc'["main"] = pc["main"] /\ pc["input"] = "getch"
      BY <1>3, <2>2 DEF InputGetch, At, Goto, TypeOK, Threads
    <3>2. ToQueue' = <<read + 1>> /\ ToQueue = <<>>
      BY <2>2, <3>1 DEF ToQueue
    <3>3. UNCHANGED <<delivered, ev_queue, altPrefixes, requests>> /\ UNCHANGED InHand
      BY <1>3, <3>1 DEF InputGetch, InHand
    <3>4. read \in Nat /\ KeysOf(ToQueue') = {read + 1} /\ KeysOf(ToQueue) = {}
      BY <3>2, KeysOfOne, KeysOfNone, Places
    <3>5. UNCHANGED Queued
      BY <3>3 DEF Queued
    <3>6. \A S, T : S \subseteq 1..read /\ T = {read + 1} => Below(S, T)
      BY <3>4 DEF Below
    <3>7. QED
      BY <2>2, <3>3, <3>4, <3>5, <3>6 DEF KeysFlow, InPlace, Below
  <2>3. QED
    BY <1>3, <2>1, <2>2 DEF InputGetch

<1>4. CASE InputAlt
  <2>1. /\ pc["input"] = "alt" /\ pc'["input"] = "lock" /\ pc'["main"] = pc["main"]
        /\ UNCHANGED <<delivered, ev_queue, ev, requests>>
    BY <1>4 DEF InputAlt, At, Goto, TypeOK, Threads
  <2>2. UNCHANGED InHand /\ UNCHANGED Queued
    BY <2>1 DEF InHand, Queued
  <2>3. CASE UNCHANGED <<altPrefixes, read, key>>
    <3>1. UNCHANGED ToQueue
      BY <2>1, <2>3 DEF ToQueue
    <3>2. QED
      BY <2>1, <2>2, <2>3, <3>1, Unmoved DEF KeysFlow
  <2>4. CASE altPrefixes' = altPrefixes \cup {key} /\ read' = read + 1 /\ key' = read + 1
    <3>1. ToQueue = <<key>> /\ ToQueue' = <<read + 1>>
      BY <2>1, <2>4 DEF ToQueue
    <3>2. read \in Nat /\ key \in Nat \ {0}
      BY <2>1, Places DEF TypeOK, InHandInv
    <3>3. KeysOf(ToQueue) = {key} /\ KeysOf(ToQueue') = {read + 1}
      BY <3>1, <3>2, KeysOfOne
    <3> DEFINE D == KeysOf(delivered)
               H == KeysOf(InHand)
               Q == KeysOf(Queued)
               K == (1..read) \ altPrefixes
               R == D \cup H \cup Q
    <3>4. /\ Below(D, {key}) /\ Below(H, {key}) /\ Below(Q, {key})
          /\ R \cup {key} = K /\ altPrefixes \subseteq 1..read
      BY <3>3 DEF KeysFlow, InPlace
    <3>5. R \subseteq 1..read /\ key \in 1..read /\ key \notin R
      BY <3>2, <3>4 DEF Below
    <3>6. R \cup {read + 1} = (1..(read + 1)) \ (altPrefixes \cup {key})
      BY <3>2, <3>4, <3>5
    <3>7. altPrefixes' \subseteq 1..(read + 1)
      BY <2>4, <3>2, <3>4, <3>5
    <3>8. Below(D, {read + 1}) /\ Below(H, {read + 1}) /\ Below(Q, {read + 1})
      BY <3>2, <3>5 DEF Below
    <3>9. QED
      BY <2>1, <2>2, <2>4, <3>3, <3>6, <3>7, <3>8 DEF KeysFlow, InPlace
  <2>5. QED
    BY <1>4, <2>3, <2>4 DEF InputAlt
<1>5. CASE InputLock
  <2>1. UNCHANGED InHand /\ UNCHANGED ToQueue
    BY <1>5, InputMoves DEF InputLock, At, InputPc
  <2>2. QED
    BY <1>5, <2>1, Unmoved DEF InputLock, KeysFlow
<1>6. CASE InputPush
  <2>1. /\ pc["input"] = "queue" /\ pc'["input"] = "notify" /\ pc'["main"] = pc["main"]
        /\ UNCHANGED <<delivered, ev, requests, read, altPrefixes>> /\ Enqueue(Key(key))
    BY <1>6 DEF InputPush, At, Goto, TypeOK, Threads
  <2>2. UNCHANGED InHand /\ ToQueue = <<key>> /\ ToQueue' = <<>>
    BY <2>1 DEF InHand, ToQueue
  <2>3. key \in Nat \ {0} /\ Key(key) \in Event /\ Key(key).key = key
    BY <2>1 DEF TypeOK, InHandInv, Event, Key
  <2>4. Queued' = Append(Queued, key) /\ Queued \in Seq(Nat)
    BY <2>1, <2>3, Enqueued, Places
  <2>5. KeysOf(ToQueue) = {key} /\ KeysOf(ToQueue') = {}
    BY <2>2, <2>3, KeysOfOne, KeysOfNone
  <2>6. KeysOf(Queued') = KeysOf(Queued) \cup {key} /\ Rising(Queued')
    BY <2>3, <2>4, <2>5, KeyAppended DEF KeysFlow, InPlace, Below
  <2>7. QED
    BY <2>1, <2>2, <2>5, <2>6 DEF KeysFlow, InPlace, Below
<1>7. CASE InputNotify
  <2>1. /\ pc["input"] = "notify" /\ pc'["input"] = "test"
        /\ pc'["main"] = pc["main"] \/ (pc["main"] = "waiting" /\ pc'["main"] = "woken")
    BY <1>7 DEF InputNotify, At, NotifyAndGoto, TypeOK, Threads
  <2>2. UNCHANGED InHand /\ UNCHANGED ToQueue
    BY <1>7, <2>1 DEF InputNotify, InHand, ToQueue
  <2>3. QED
    BY <1>7, <2>2, Unmoved DEF InputNotify, Release, KeysFlow
<1>8. CASE MainDraw
  <2>1. UNCHANGED InHand /\ UNCHANGED ToQueue
    BY <1>8, MainMoves DEF MainDraw, At, MainPc
  <2>2. QED
    BY <1>8, <2>1, Unmoved DEF MainDraw, KeysFlow
<1>9. CASE MainLock
  <2>1. UNCHANGED InHand /\ UNCHANGED ToQueue
    BY <1>9, MainMoves DEF MainLock, At, MainPc
  <2>2. QED
    BY <1>9, <2>1, Unmoved DEF MainLock, KeysFlow
<1>10. CASE MainEmpty
  <2>1. UNCHANGED InHand /\ UNCHANGED ToQueue
    BY <1>10, MainMoves DEF MainEmpty, At, MainPc
  <2>2. QED
    BY <1>10, <2>1, Unmoved DEF MainEmpty, KeysFlow
<1>11. CASE MainWait
  <2>1. UNCHANGED InHand /\ UNCHANGED ToQueue
    BY <1>11, MainMoves DEF MainWait, At, MainPc
  <2>2. QED
    BY <1>11, <2>1, Unmoved DEF MainWait, Release, KeysFlow
<1>12. CASE SpuriousWakeup
  <2>1. UNCHANGED InHand /\ UNCHANGED ToQueue
    BY <1>12, MainMoves DEF SpuriousWakeup, At, MainPc
  <2>2. QED
    BY <1>12, <2>1, Unmoved DEF SpuriousWakeup, KeysFlow
<1>13. CASE MainTake
  <2>1. /\ ev_queue # <<>> /\ ev' = Head(ev_queue) /\ ev_queue' = Tail(ev_queue)
        /\ pc["main"] = "check" /\ pc'["main"] = "handle" /\ pc'["input"] = pc["input"]
        /\ UNCHANGED <<delivered, requests, key, read, altPrefixes>>
    BY <1>13 DEF MainTake, At, Goto, TypeOK, Threads
  <2>2. /\ Queued # <<>> /\ Queued \in Seq(Nat) /\ Head(Queued) = Head(ev_queue).key
        /\ Queued' = Tail(Queued) /\ Head(ev_queue) \in Event
    BY <2>1, Dequeued, Places
  <2>3. UNCHANGED ToQueue /\ InHand = <<>>
    BY <2>1 DEF ToQueue, InHand
  <2>4. InHand' = IF Head(ev_queue).code = "EV_KEY" THEN <<Head(Queued)>> ELSE <<>>
    BY <2>1, <2>2 DEF InHand
  <2>5. Head(ev_queue).code = "EV_KEY" <=> Head(Queued) # 0
    BY <2>2 DEF Event
  <2>6. KeysOf(InHand') = {Head(Queued)} \ {0} /\ KeysOf(InHand) = {}
    <3>1. CASE Head(ev_queue).code = "EV_KEY"
      BY <2>3, <2>4, <3>1, KeysOfOne, KeysOfNone
    <3>2. CASE Head(ev_queue).code # "EV_KEY"
      BY <2>3, <2>4, <2>5, <3>2, KeysOfNone
    <3>3. QED
      BY <3>1, <3>2
  <2>7. /\ KeysOf(Queued) = KeysOf(InHand') \cup KeysOf(Queued')
        /\ Rising(Queued') /\ Below(KeysOf(InHand'), KeysOf(Queued'))
    BY <2>2, <2>6, KeyTaken DEF KeysFlow, InPlace, Below
  <2>8. QED
    BY <2>1, <2>3, <2>6, <2>7 DEF KeysFlow, InPlace, Below
<1>14. CASE HandleKey
  <2>1. /\ pc["main"] = "handle" /\ ev.code = "EV_KEY" /\ delivered' = Append(delivered, ev.key)
        /\ pc'["main"] = "react" /\ pc'["input"] = pc["input"]
        /\ UNCHANGED <<ev_queue, key, read, altPrefixes>> /\ Keyless(requests')
    BY <1>14, ReactionsAreKeyless DEF HandleKey, React, At, Goto, TypeOK, Threads
  <2>2. UNCHANGED Queued /\ UNCHANGED ToQueue /\ InHand' = <<>>
    BY <2>1 DEF Queued, ToQueue, InHand
  <2>3. /\ ev.key \in Nat \ {0} /\ delivered \in Seq(Nat)
        /\ KeysOf(InHand) = {ev.key} /\ KeysOf(InHand') = {}
    BY <2>1, <2>2, Places, KeysOfNone DEF TypeOK, Event
  <2>4. KeysOf(delivered') = KeysOf(delivered) \cup {ev.key} /\ Rising(delivered')
    BY <2>1, <2>3, KeyAppended DEF KeysFlow, InPlace, Below
  <2>5. QED
    BY <2>1, <2>2, <2>3, <2>4 DEF KeysFlow, InPlace, Below
<1>15. CASE HandleResize \/ HandleSet \/ HandlePush
  <2>1. UNCHANGED InHand /\ UNCHANGED ToQueue
    BY <1>15, MainMoves DEF HandleResize, HandleSet, HandlePush, React, At, MainPc
  <2>2. PICK rs \in InitReactions \cup {<<>>} : React(rs, FALSE)
    BY <1>15 DEF HandleResize, HandleSet, HandlePush
  <2>3. UNCHANGED <<delivered, ev_queue, read, altPrefixes>>
    BY <1>15 DEF HandleResize, HandleSet, HandlePush
  <2>4. QED
    BY <2>1, <2>2, <2>3, ReactFlow
<1>16. CASE HandlePop
  <2>1. UNCHANGED <<delivered, ev_queue, ev, key, read, altPrefixes>>
    BY <1>16 DEF HandlePop
  <2>2. CASE Stop /\ UNCHANGED requests
    <3>1. UNCHANGED InHand /\ UNCHANGED ToQueue
      BY <1>16, <2>1, <2>2, MainMoves DEF HandlePop, Stop, At, MainPc
    <3>2. QED
      BY <2>1, <2>2, <3>1, Unmoved DEF KeysFlow
  <2>3. CASE React(<<>>, FALSE)
    <3>1. UNCHANGED InHand /\ UNCHANGED ToQueue
      BY <1>16, <2>1, <2>3, MainMoves DEF HandlePop, React, At, MainPc
    <3>2. QED
      BY <2>1, <2>3, <3>1, ReactFlow
  <2>4. QED
    BY <1>16, <2>2, <2>3 DEF HandlePop
<1>17. CASE HandleQuit
  <2>1. UNCHANGED InHand /\ UNCHANGED ToQueue
    BY <1>17, MainMoves DEF HandleQuit, Stop, At, MainPc
  <2>2. QED
    BY <1>17, <2>1, Unmoved DEF HandleQuit, KeysFlow
<1>18. CASE ReactLock
  <2>1. UNCHANGED InHand /\ UNCHANGED ToQueue
    BY <1>18, MainMoves DEF ReactLock, At, MainPc
  <2>2. QED
    BY <1>18, <2>1, Unmoved DEF ReactLock, KeysFlow
<1>19. CASE ReactPush
  <2>1. UNCHANGED InHand /\ UNCHANGED ToQueue
    BY <1>19, MainMoves DEF ReactPush, At, MainPc
  <2>2. requests # <<>> /\ requests \in Seq(Event)
    BY <1>19 DEF ReactPush, At, InHandInv, TypeOK
  <2>3. Head(requests) \in Event /\ Head(requests).code # "EV_KEY"
    BY <2>2 DEF KeysFlow, Keyless
  <2>4. Keyless(Tail(requests))
    <3>1. /\ Len(Tail(requests)) = Len(requests) - 1 /\ Len(requests) \in Nat
          /\ \A i \in 1..Len(Tail(requests)) : Tail(requests)[i] = requests[i + 1]
      BY <2>2
    <3>2. \A i \in 1..Len(Tail(requests)) : i + 1 \in 1..Len(requests)
      BY <3>1
    <3>3. QED
      BY <3>1, <3>2 DEF KeysFlow, Keyless
  <2>5. QED
    BY <1>19, <2>1, <2>3, <2>4, QueuesOther DEF ReactPush
<1>20. CASE ReactNotify \/ ReactEnd \/ MainJoin
  <2>1. UNCHANGED InHand /\ UNCHANGED ToQueue
    BY <1>20, MainMoves DEF ReactNotify, ReactEnd, MainJoin, At, MainPc
  <2>2. QED
    BY <1>20, <2>1, Unmoved DEF ReactNotify, ReactEnd, MainJoin, Release, KeysFlow
<1>21. ASSUME NEW t \in Threads, Interrupt(t) \/ SignalStep(t) PROVE KeysFlow'
  <2>1. CASE Interrupt(t) \/ SignalLock(t)
    <3>1. UNCHANGED InHand /\ UNCHANGED ToQueue
      BY <2>1 DEF Interrupt, SignalLock, InHand, ToQueue
    <3>2. QED
      BY <2>1, <3>1, Unmoved DEF Interrupt, SignalLock, KeysFlow
  <2>2. CASE SignalPush(t)
    <3>1. UNCHANGED InHand /\ UNCHANGED ToQueue
      BY <2>2 DEF SignalPush, InHand, ToQueue
    <3>2. Request("EV_RESIZE") \in Event /\ Request("EV_RESIZE").code # "EV_KEY"
      BY DEF Request, Event, Codes
    <3>3. QED
      BY <2>2, <3>1, <3>2, QueuesOther DEF SignalPush, KeysFlow
  <2>3. CASE SignalNotify(t)
    <3>1. /\ pc'["main"] = pc["main"] \/ (pc["main"] = "waiting" /\ pc'["main"] = "woken")
          /\ pc'["input"] = pc["input"]
      BY <2>3 DEF SignalNotify, NotifyAndGoto, TypeOK, Threads
    <3>2. UNCHANGED InHand /\ UNCHANGED ToQueue
      BY <2>3, <3>1 DEF SignalNotify, InHand, ToQueue
    <3>3. QED
      BY <2>3, <3>2, Unmoved DEF SignalNotify, Release, KeysFlow
  <2>4. QED
    BY <1>21, <2>1, <2>2, <2>3 DEF SignalStep
<1>22. CASE UNCHANGED vars
  BY <1>22, Unmoved DEF vars, KeysFlow, InHand, ToQueue
<1>23. QED
  BY <1>1, <1>2, <1>3, <1>4, <1>5, <1>6, <1>7, <1>8, <1>9, <1>10, <1>11, <1>12, <1>13,
     <1>14, <1>15, <1>16, <1>17, <1>18, <1>19, <1>20, <1>21, <1>22 DEF Next, InputStep, MainStep

\* Places one after the other.
LEMMA Joined ==
    ASSUME NEW s \in Seq(Nat), NEW t \in Seq(Nat),
           Rising(s), Rising(t), Below(KeysOf(s), KeysOf(t))
    PROVE  /\ s \o t \in Seq(Nat) /\ Rising(s \o t)
           /\ KeysOf(s \o t) = KeysOf(s) \cup KeysOf(t)
<1> DEFINE n == Len(s)
           m == Len(t)
           u == s \o t
<1>1. /\ n \in Nat /\ m \in Nat /\ u \in Seq(Nat) /\ Len(u) = n + m
      /\ \A i \in 1..n : u[i] = s[i] /\ u[i] \in Nat
      /\ \A i \in 1..m : u[n + i] = t[i] /\ t[i] \in Nat
  OBVIOUS
<1> HIDE DEF u
<1>2. /\ \A i \in 1..(n + m) : i \in 1..n \/ \E j \in 1..m : i = n + j
      /\ \A i \in 1..n : i \in 1..(n + m)
      /\ \A j \in 1..m : n + j \in 1..(n + m)
  <2>1. ASSUME NEW i \in 1..(n + m), i \notin 1..n PROVE \E j \in 1..m : i = n + j
    <3>1. i - n \in 1..m /\ i = n + (i - n)
      BY <1>1, <2>1
    <3>2. QED
      BY <3>1
  <2>2. QED
    BY <1>1, <2>1
<1>3. KeysOf(u) = KeysOf(s) \cup KeysOf(t)
  <2>1. \A x : x \in KeysOf(u) <=> x # 0 /\ \E i \in 1..(n + m) : u[i] = x
    BY <1>1 DEF KeysOf
  <2>2. \A x : x \in KeysOf(s) <=> x # 0 /\ \E i \in 1..n : s[i] = x
    BY DEF KeysOf
  <2>3. \A x : x \in KeysOf(t) <=> x # 0 /\ \E i \in 1..m : t[i] = x
    BY DEF KeysOf
  <2>4. \A x : (\E i \in 1..(n + m) : u[i] = x)
                   <=> (\E i \in 1..n : s[i] = x) \/ (\E i \in 1..m : t[i] = x)
    <3>1. ASSUME NEW i \in 1..(n + m)
          PROVE  (\E j \in 1..n : s[j] = u[i]) \/ (\E j \in 1..m : t[j] = u[i])
      BY <1>1, <1>2
    <3>2. ASSUME NEW i \in 1..n PROVE \E j \in 1..(n + m) : u[j] = s[i]
      BY <1>1, <1>2
    <3>3. ASSUME NEW i \in 1..m PROVE \E j \in 1..(n + m) : u[j] = t[i]
      BY <1>1, <1>2
    <3>4. QED
      BY <3>1, <3>2, <3>3
  <2>5. QED
    BY <2>1, <2>2, <2>3, <2>4
<1>4. Rising(u)
  <2> SUFFICES ASSUME NEW i \in 1..(n + m), NEW j \in 1..(n + m), i < j, u[i] # 0, u[j] # 0
               PROVE  u[i] < u[j]
    BY <1>1 DEF Rising
  <2>1. CASE i \in 1..n /\ j \in 1..n
    BY <1>1, <2>1 DEF Rising
  <2>2. CASE i \in 1..n /\ \E k \in 1..m : j = n + k
    BY <1>1, <2>2 DEF KeysOf, Below
  <2>3. CASE \E k \in 1..m : i = n + k
    <3>1. PICK k \in 1..m : i = n + k
      BY <2>3
    <3>2. j \notin 1..n
      BY <1>1, <3>1
    <3>3. PICK l \in 1..m : j = n + l
      BY <1>2, <3>2
    <3>4. k < l /\ u[i] = t[k] /\ u[j] = t[l]
      BY <1>1, <3>1, <3>3
    <3>5. QED
      BY <3>4 DEF Rising
  <2>4. QED
    BY <1>2, <2>1, <2>2, <2>3
<1>5. QED
  BY <1>1, <1>3, <1>4 DEF u

\* One key, or none, is in order.
LEMMA OneRises == \A k : Rising(<<k>>) /\ Rising(<<>>)
<1>1. \A i, j \in 1..1 : ~(i < j)
  OBVIOUS
<1>2. QED
  BY <1>1 DEF Rising

\* Four places in order, each in order, are one sequence in order.
LEMMA FlowInOrder ==
    ASSUME TypeOK, KeysFlow PROVE KeysInOrder
<1> DEFINE a == delivered \o InHand
           b == a \o Queued
           c == b \o ToQueue
<1>1. /\ delivered \in Seq(Nat) /\ InHand \in Seq(Nat) /\ Queued \in Seq(Nat)
      /\ ToQueue \in Seq(Nat)
  BY Places
<1>2. Rising(delivered) /\ Rising(InHand) /\ Rising(Queued) /\ Rising(ToQueue)
  BY OneRises DEF KeysFlow, InPlace, InHand, ToQueue
<1>3. a \in Seq(Nat) /\ Rising(a) /\ KeysOf(a) = KeysOf(delivered) \cup KeysOf(InHand)
  BY <1>1, <1>2, Joined DEF KeysFlow, InPlace
<1> HIDE DEF a
<1>4. b \in Seq(Nat) /\ Rising(b) /\ KeysOf(b) = KeysOf(a) \cup KeysOf(Queued)
  <2>1. Below(KeysOf(a), KeysOf(Queued))
    BY <1>3 DEF KeysFlow, InPlace, Below
  <2>2. QED
    BY <1>1, <1>2, <1>3, <2>1, Joined
<1> HIDE DEF b
<1>5. Rising(c) /\ KeysOf(c) = KeysOf(b) \cup KeysOf(ToQueue)
  <2>1. Below(KeysOf(b), KeysOf(ToQueue))
    BY <1>3, <1>4 DEF KeysFlow, InPlace, Below
  <2>2. QED
    BY <1>1, <1>2, <1>4, <2>1, Joined
<1>6. KeysOf(c) = (1..read) \ altPrefixes
  BY <1>3, <1>4, <1>5 DEF KeysFlow, InPlace
<1>7. QED
  BY <1>5, <1>6 DEF KeysInOrder, a, b

-----------------------------------------------------------------------------
(* The theorems. *)

LEMMA InitInv == Init => IndInv
<1> SUFFICES ASSUME Init PROVE IndInv
  OBVIOUS
<1>1. Quit \in Event /\ <<>> \in Seq(Event) /\ <<>> \in Seq(1..MaxKeys)
  BY EventTypes
<1>2. TypeOK
  <2>1. ev \in Event /\ ev_queue \in Seq(Event) /\ requests \in Seq(Event)
    BY <1>1 DEF Init
  <2>2. delivered \in Seq(1..MaxKeys)
    BY <1>1 DEF Init
  <2>3. /\ pc \in [Threads -> MainPc \cup InputPc] /\ sig \in [Threads -> SigPc]
        /\ pc["main"] \in MainPc /\ pc["input"] \in InputPc
    BY DEF Init, Threads, MainPc, InputPc, SigPc
  <2>4. /\ ev_mutex \in Threads \cup {"none"} /\ should_getch \in BOOLEAN
        /\ depth \in Nat /\ throws \in BOOLEAN
    BY DEF Init
  <2>5. /\ key \in 0..MaxKeys /\ typed \in 0..MaxKeys /\ read \in 0..MaxKeys
        /\ resizes \in 0..MaxResizes /\ pushes \in 0..MaxPushes
    BY BoundAssumption, SMT DEF Init
  <2>6. altPrefixes \in SUBSET (1..MaxKeys)
    BY DEF Init
  <2>7. QED
    BY <2>1, <2>2, <2>3, <2>4, <2>5, <2>6 DEF TypeOK
<1>3. InHandInv /\ MutualExclusion /\ FoundEmpty /\ NoLostWakeup /\ NeverEmpty
  BY DEF Init, InHandInv, MutualExclusion, InSection, InOwnSection, FoundEmpty,
         NoLostWakeup, NeverEmpty, Threads
<1>4. KeysFlow
  <2>1. /\ delivered = <<>> /\ Queued = <<>> /\ InHand = <<>> /\ ToQueue = <<>>
        /\ read = 0 /\ altPrefixes = {} /\ requests = <<>>
    <3>1. pc["main"] = "loop" /\ pc["input"] = "test" /\ ev_queue = <<>>
      BY DEF Init, Threads
    <3>2. Queued = <<>>
      BY <3>1 DEF Queued
    <3>3. InHand = <<>> /\ ToQueue = <<>>
      BY <3>1 DEF InHand, ToQueue
    <3>4. QED
      BY <3>2, <3>3 DEF Init
  <2>2. 1..read = {}
    BY <2>1
  <2>3. InPlace
    BY <2>1, <2>2, KeysOfNone DEF InPlace, Below
  <2>4. Keyless(requests)
    BY <2>1 DEF Keyless
  <2>5. QED
    BY <2>1, <2>3, <2>4 DEF KeysFlow
<1>5. QED
  BY <1>2, <1>3, <1>4 DEF IndInv

\* Every reachable state of the event loop satisfies the inductive invariant.
THEOREM Inductive == Spec => []IndInv
<1>1. IndInv /\ [Next]_vars => IndInv'
  BY TypeStep, ExclusionStep, WakeupStep, NeverEmptyStep, FlowStep DEF IndInv
<1>2. QED
  BY InitInv, <1>1, PTL DEF Spec

\* The state of both threads and of the signal handlers stays well formed.
THEOREM TypeCorrect == Spec => []TypeOK
<1>1. IndInv => TypeOK
  BY DEF IndInv
<1>2. QED
  BY Inductive, <1>1, PTL

\* push_event and run: the two threads, and the handlers that interrupt them,
\* are never in the critical sections of ev_mutex together.
THEOREM Exclusion == Spec => []MutualExclusion
<1>1. IndInv => MutualExclusion
  BY DEF IndInv
<1>2. QED
  BY Inductive, <1>1, PTL

\* run waits only while the queue is empty or a notification is on its way, for
\* any number of keys, resizes and spurious wakeups.
THEOREM WakeupsArrive == Spec => []NoLostWakeup
<1>1. IndInv => NoLostWakeup
  BY DEF IndInv
<1>2. QED
  BY Inductive, <1>1, PTL

\* run never draws or gives an event to the top of an empty controller stack.
THEOREM StackNeverEmpty == Spec => []NeverEmpty
<1>1. IndInv => NeverEmpty
  BY DEF IndInv
<1>2. QED
  BY Inductive, <1>1, PTL

\* Every key reaches a controller in the order typed, at most once, and none is
\* dropped on the way from getch_loop through push_event to the dispatch of run,
\* whatever else is queued between them and whenever a signal interrupts.
THEOREM KeysStayInOrder == Spec => []KeysInOrder
<1>1. IndInv => KeysInOrder
  BY FlowInOrder DEF IndInv
<1>2. QED
  BY Inductive, <1>1, PTL

=============================================================================
