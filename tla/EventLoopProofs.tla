--------------------------- MODULE EventLoopProofs ---------------------------
(***************************************************************************)
(* Proofs about EventLoop, for any number of threads, functors and         *)
(* channels: type correctness, no lost wakeup, no lost quit, conservation  *)
(* of the functors handed over, and that the loop implements               *)
(* SerialExecutor.                                                         *)
(***************************************************************************)
EXTENDS EventLoop, SequenceTheorems, TLAPS

(* The inductive invariant.                                                 *)

\* doingPending_ tells exactly when a batch is being called: QueueInLoop of the
\* loop's own thread relies on it.
DoingMeansRunning ==
    /\ pc \in {"run", "functor"} => doing
    /\ pc \in {"before", "check", "poll", "dispatch", "callback", "returned"} => ~doing

\* A batch is left over only while it is being called (or in a dead process).
BatchWhileRunning == funcs # <<>> => pc \in {"run", "functor", "aborted"}

\* NoLostWakeup, at every point from which the loop thread can reach epoll_wait
\* without swapping the queue first.
WakeupDue ==
    pc \in {"before", "check", "poll", "run", "functor"}
        /\ wakeups = 0 /\ (\A t \in Threads : at[t] # "wake")
        => \A i \in DOMAIN pending : pending[i] \in early

IInv ==
    /\ TypeOK
    /\ DoingMeansRunning
    /\ BatchWhileRunning
    /\ WakeupDue
    /\ NoLostQuit
    /\ FunctorsConserved

-----------------------------------------------------------------------------
(* Sequences.                                                               *)

Joined(s, t, u) == (s \o t) \o u = s \o (t \o u)
AppendJoined(s, t, u, e) == s \o t \o Append(u, e) = Append(s \o t \o u, e)

\* The order in which sequences are joined does not matter.
LEMMA AllJoined ==
  ASSUME NEW S, NEW s \in Seq(S), NEW t \in Seq(S), NEW u \in Seq(S)
  PROVE  Joined(s, t, u)
BY ConcatAssociative, SMTT(30) DEF Joined

\* Appending at the end of the third of three sequences appends to the whole.
LEMMA AppendToThird ==
  ASSUME NEW S, NEW a \in Seq(S), NEW b \in Seq(S), NEW c \in Seq(S), NEW e \in S
  PROVE  AppendJoined(a, b, c, e)
<1>1. a \o b \in Seq(S) /\ a \o b \o c \in Seq(S) /\ <<e>> \in Seq(S)
  BY ConcatProperties
<1>2. a \o b \o Append(c, e) = (a \o b) \o (c \o <<e>>)
  BY AppendIsConcat, Zenon
<1>3. (a \o b) \o (c \o <<e>>) = ((a \o b) \o c) \o <<e>>
  <2>1. Joined(a \o b, c, <<e>>)
    BY <1>1, AllJoined, Zenon
  <2> QED BY <2>1, Zenon DEF Joined
<1>4. ((a \o b) \o c) \o <<e>> = Append(a \o b \o c, e)
  BY <1>1, AppendIsConcat, Zenon
<1> QED BY <1>2, <1>3, <1>4, Zenon DEF AppendJoined

\* Moving the head of the second sequence to the end of the first changes
\* nothing of their concatenation.
LEMMA MoveHead ==
  ASSUME NEW S, NEW a \in Seq(S), NEW b \in Seq(S), b # <<>>
  PROVE  Append(a, Head(b)) \o Tail(b) = a \o b
<1>1. Head(b) \in S /\ Tail(b) \in Seq(S) /\ <<Head(b)>> \in Seq(S)
  BY HeadTailProperties
<1>2. Append(a, Head(b)) \o Tail(b) = (a \o <<Head(b)>>) \o Tail(b)
  BY <1>1, AppendIsConcat, Zenon
<1>3. (a \o <<Head(b)>>) \o Tail(b) = a \o (<<Head(b)>> \o Tail(b))
  <2>1. Joined(a, <<Head(b)>>, Tail(b))
    BY <1>1, AllJoined, Zenon
  <2> QED BY <2>1, Zenon DEF Joined
<1>4. <<Head(b)>> \o Tail(b) = b
  <2> DEFINE h == <<Head(b)>>
  <2>1. Len(h) = 1 /\ h[1] = Head(b) /\ h \in Seq(S)
    BY <1>1
  <2>2. Len(b) \in Nat \ {0} /\ Head(b) = b[1]
    BY EmptySeq
  <2>3. /\ Len(Tail(b)) = Len(b) - 1
        /\ \A i \in 1 .. Len(Tail(b)) : Tail(b)[i] = b[i + 1]
    BY HeadTailProperties
  <2> HIDE DEF h
  <2>4a. /\ h \o Tail(b) \in Seq(S)
         /\ Len(h \o Tail(b)) = Len(h) + Len(Tail(b))
         /\ \A i \in 1 .. Len(h) + Len(Tail(b)) :
               (h \o Tail(b))[i] = IF i <= Len(h) THEN h[i] ELSE Tail(b)[i - Len(h)]
    BY <2>1, <1>1, ConcatProperties, Zenon
  <2>4b. Len(h) + Len(Tail(b)) = Len(b)
    BY <2>1, <2>2, <2>3
  <2>4. /\ h \o Tail(b) \in Seq(S)
        /\ Len(h \o Tail(b)) = Len(b)
        /\ \A i \in 1 .. Len(b) : (h \o Tail(b))[i] = IF i <= 1 THEN h[i] ELSE Tail(b)[i - 1]
    BY <2>4a, <2>4b, <2>1
  <2>5. \A i \in 1 .. Len(b) : (h \o Tail(b))[i] = b[i]
    BY <2>1, <2>2, <2>3, <2>4
  <2>6. h \o Tail(b) = b
    BY <2>4, <2>5, SeqEqual, Zenon
  <2> QED BY <2>6 DEF h
<1> QED BY <1>2, <1>3, <1>4, Zenon

-----------------------------------------------------------------------------
(* The invariant holds initially and is preserved by every step.            *)

\* The constructor establishes the invariant (net/eventloop.cc:22-37).
LEMMA InitIInv == Init => IInv
<1> SUFFICES ASSUME Init PROVE IInv
  OBVIOUS
<1>1. TypeOK
  <2>1. <<>> \in Seq(Functors)
    BY EmptySeq
  <2>2. at \in [Threads -> CallPoints]
    BY DEF Init, CallPoints
  <2>3. doing \in BOOLEAN /\ quit \in BOOLEAN
    BY Zenon DEF Init
  <2> QED BY <2>1, <2>2, <2>3, Zenon DEF Init, TypeOK, LoopPoints
<1>2. FunctorsConserved
  BY ConcatEmptySeq DEF Init, FunctorsConserved
<1>3. DoingMeansRunning /\ BatchWhileRunning /\ WakeupDue /\ NoLostQuit
  BY DEF Init, DoingMeansRunning, BatchWhileRunning, WakeupDue, NoLostQuit
<1> QED BY <1>1, <1>2, <1>3 DEF IInv

\* Steps that leave the queue, the batch and the histories alone.
QuietStep ==
    \/ StartLoop \/ CheckQuit \/ PollEvents \/ PollNothing \/ HandleRead
    \/ (\E c \in Channels : HandleEvent(c) \/ ChannelReady(c))
    \/ CallbackReturns \/ FunctorReturns \/ DonePending \/ QuitOwnLoop
    \/ (\E t \in Threads : ThreadStep(t) \/ QuitAssert(t))
    \/ Over

\* A failed assertion of Quit() changes nothing but where the process is.
LEMMA AbortPreserves == IInv /\ Abort => IInv'
  BY SMTT(30) DEF IInv, Abort, queueVars, historyVars, TypeOK, LoopPoints, DoingMeansRunning,
         BatchWhileRunning, WakeupDue, NoLostQuit, FunctorsConserved

\* The steps that leave the queue alone keep the invariant: polling,
\* dispatching, the writes to the eventfd and Quit().
LEMMA QuietPreserves == IInv /\ QuietStep => IInv'
<1> SUFFICES ASSUME IInv, QuietStep PROVE IInv'
  BY Zenon
<1> USE DEF IInv
<1>0. UNCHANGED <<pending, posted, funcs, ran, early>>
  BY Zenon DEF QuietStep, StartLoop, CheckQuit, PollEvents, PollNothing, HandleRead,
         HandleEvent, ChannelReady, CallbackReturns, FunctorReturns, DonePending,
         QuitOwnLoop, ThreadStep, WakeAfterQueue, QuitSet, QuitWake, QuitAssert, Abort,
         Over, vars, queueVars, historyVars
<1>1. FunctorsConserved'
  BY <1>0 DEF FunctorsConserved
<1>2. CASE StartLoop
  BY <1>2, <1>0, <1>1, Zenon DEF StartLoop, queueVars, historyVars, TypeOK, LoopPoints,
     DoingMeansRunning, BatchWhileRunning, WakeupDue, NoLostQuit
<1>3. CASE CheckQuit
  BY <1>3, <1>0, <1>1, Zenon DEF CheckQuit, queueVars, historyVars, TypeOK, LoopPoints,
     DoingMeansRunning, BatchWhileRunning, WakeupDue, NoLostQuit
<1>4. CASE PollEvents
  BY <1>4, <1>0, <1>1, Zenon DEF PollEvents, Readable, queueVars, historyVars, TypeOK,
     LoopPoints, DoingMeansRunning, BatchWhileRunning, WakeupDue, NoLostQuit
<1>5. CASE PollNothing
  BY <1>5, <1>0, <1>1, Zenon DEF PollNothing, queueVars, historyVars, TypeOK, LoopPoints,
     DoingMeansRunning, BatchWhileRunning, WakeupDue, NoLostQuit
<1>6. CASE HandleRead
  BY <1>6, <1>0, <1>1, Zenon DEF HandleRead, queueVars, historyVars, TypeOK, LoopPoints,
     DoingMeansRunning, BatchWhileRunning, WakeupDue, NoLostQuit
<1>7. ASSUME NEW c \in Channels, HandleEvent(c) PROVE IInv'
  BY <1>7, <1>0, <1>1, Zenon DEF HandleEvent, queueVars, historyVars, TypeOK, LoopPoints,
     DoingMeansRunning, BatchWhileRunning, WakeupDue, NoLostQuit
<1>8. ASSUME NEW c \in Channels, ChannelReady(c) PROVE IInv'
  BY <1>8, <1>0, <1>1, Zenon DEF ChannelReady, queueVars, historyVars, TypeOK, LoopPoints,
     DoingMeansRunning, BatchWhileRunning, WakeupDue, NoLostQuit
<1>9. CASE CallbackReturns
  BY <1>9, <1>0, <1>1, Zenon DEF CallbackReturns, queueVars, historyVars, TypeOK,
     LoopPoints, DoingMeansRunning, BatchWhileRunning, WakeupDue, NoLostQuit
<1>10. CASE FunctorReturns
  BY <1>10, <1>0, <1>1, Zenon DEF FunctorReturns, queueVars, historyVars, TypeOK, LoopPoints,
     DoingMeansRunning, BatchWhileRunning, WakeupDue, NoLostQuit
<1>11. CASE DonePending
  BY <1>11, <1>0, <1>1, Zenon DEF DonePending, queueVars, historyVars, TypeOK, LoopPoints,
     DoingMeansRunning, BatchWhileRunning, WakeupDue, NoLostQuit
<1>12. CASE QuitOwnLoop
  <2>1. CASE UNCHANGED <<pc, active, ready, pending, wakeups, at, doing>> /\ quit' = TRUE
    BY <1>12, <2>1, <1>0, <1>1, SMTT(30) DEF QuitOwnLoop, UserCode, TypeOK, LoopPoints,
       DoingMeansRunning, BatchWhileRunning, WakeupDue, NoLostQuit
  <2> QED BY <1>12, <2>1, AbortPreserves, Zenon DEF QuitOwnLoop, queueVars
<1>13. ASSUME NEW t \in Threads, WakeAfterQueue(t) PROVE IInv'
  BY <1>13, <1>0, <1>1, SMTT(30) DEF WakeAfterQueue, WakeUp, queueVars, historyVars, TypeOK,
     LoopPoints, CallPoints, DoingMeansRunning, BatchWhileRunning, WakeupDue, NoLostQuit
<1>14. ASSUME NEW t \in Threads, QuitSet(t) PROVE IInv'
  BY <1>14, <1>0, <1>1, Zenon DEF QuitSet, queueVars, historyVars, TypeOK,
     LoopPoints, CallPoints, DoingMeansRunning, BatchWhileRunning, WakeupDue, NoLostQuit
<1>15. ASSUME NEW t \in Threads, QuitWake(t) PROVE IInv'
  BY <1>15, <1>0, <1>1 DEF QuitWake, WakeUp, queueVars, historyVars, TypeOK,
     LoopPoints, CallPoints, DoingMeansRunning, BatchWhileRunning, WakeupDue, NoLostQuit
<1>16. ASSUME NEW t \in Threads, QuitAssert(t) PROVE IInv'
  <2>1. CASE /\ at' = [at EXCEPT ![t] = "quit"] /\ at[t] = "idle"
             /\ UNCHANGED <<pc, active, ready, pending, wakeups, quit, doing>>
    BY <2>1, <1>0, <1>1, Zenon DEF TypeOK, LoopPoints, CallPoints,
       DoingMeansRunning, BatchWhileRunning, WakeupDue, NoLostQuit
  <2> QED BY <1>16, <2>1, AbortPreserves, Zenon DEF QuitAssert, queueVars
<1>17. CASE Over
  BY <1>17, <1>0, <1>1, Zenon DEF Over, vars, TypeOK, DoingMeansRunning, BatchWhileRunning,
     WakeupDue, NoLostQuit
<1> QED
  BY <1>2, <1>3, <1>4, <1>5, <1>6, <1>7, <1>8, <1>9, <1>10, <1>11, <1>12, <1>13,
     <1>14, <1>15, <1>16, <1>17, SMTT(30) DEF QuietStep, ThreadStep

\* The critical section of QueueInLoop.
LEMMA PushFacts ==
  ASSUME IInv, NEW f \in Functors, Push(f), UNCHANGED <<funcs, ran>>
  PROVE  /\ pending' \in Seq(Functors) /\ posted' \in Seq(Functors)
         /\ FunctorsConserved'
         /\ \A i \in DOMAIN pending' : \/ i \in DOMAIN pending /\ pending'[i] = pending[i]
                                       \/ pending'[i] = f
<1> USE DEF IInv, TypeOK
<1>1. pending' \in Seq(Functors) /\ posted' \in Seq(Functors)
  BY AppendProperties, Zenon DEF Push
<1>2. FunctorsConserved'
  <2>1. /\ ran \in Seq(Functors) /\ funcs \in Seq(Functors) /\ pending \in Seq(Functors)
        /\ posted = ran \o funcs \o pending
    BY Zenon DEF FunctorsConserved
  <2>2. AppendJoined(ran, funcs, pending, f)
    BY <2>1, AppendToThird, Zenon
  <2> QED BY <2>1, <2>2, Zenon DEF Push, FunctorsConserved, AppendJoined
<1>3. /\ DOMAIN pending = 1 .. Len(pending) /\ Len(pending) \in Nat
      /\ DOMAIN pending' = 1 .. Len(pending')
  BY <1>1, LenProperties
<1>4. /\ Len(pending') = Len(pending) + 1
      /\ \A i \in 1 .. Len(pending) : pending'[i] = pending[i]
      /\ pending'[Len(pending) + 1] = f
  BY AppendProperties DEF Push
<1>5. \A i \in DOMAIN pending' : \/ i \in DOMAIN pending /\ pending'[i] = pending[i]
                                 \/ pending'[i] = f
  BY <1>3, <1>4
<1> QED BY <1>1, <1>2, <1>5, Zenon

\* Another thread's QueueInLoop keeps the invariant: its write is due.
LEMMA QueueInLoopPreserves ==
  ASSUME IInv, NEW t \in Threads, NEW f \in Functors, QueueInLoop(t, f)
  PROVE  IInv'
<1> USE DEF IInv
<1>1. /\ pending' \in Seq(Functors) /\ posted' \in Seq(Functors)
      /\ FunctorsConserved'
  BY PushFacts DEF QueueInLoop, historyVars
<1>2. at'[t] = "wake" /\ at' \in [Threads -> CallPoints]
  BY DEF QueueInLoop, TypeOK, CallPoints
<1>3. TypeOK'
  BY <1>1, <1>2 DEF QueueInLoop, TypeOK, historyVars
<1>4. DoingMeansRunning' /\ BatchWhileRunning'
  BY DEF QueueInLoop, historyVars, DoingMeansRunning, BatchWhileRunning
<1>5. WakeupDue'
  BY <1>2 DEF WakeupDue
<1>6. NoLostQuit'
  BY DEF QueueInLoop, NoLostQuit, TypeOK
<1> QED BY <1>1, <1>3, <1>4, <1>5, <1>6

\* The loop thread's own QueueInLoop keeps the invariant: it writes the
\* eventfd, or DoPendingFunctors comes before the next epoll_wait.
LEMMA QueueInOwnLoopPreserves ==
  ASSUME IInv, NEW f \in Functors, QueueInOwnLoop(f)
  PROVE  IInv'
<1> USE DEF IInv
<1>1. /\ pending' \in Seq(Functors) /\ posted' \in Seq(Functors)
      /\ FunctorsConserved'
      /\ \A i \in DOMAIN pending' : \/ i \in DOMAIN pending /\ pending'[i] = pending[i]
                                    \/ pending'[i] = f
  BY PushFacts, SMTT(30) DEF QueueInOwnLoop
<1>2. TypeOK'
  BY <1>1, SMTT(30) DEF QueueInOwnLoop, WakeUp, TypeOK
<1>3. DoingMeansRunning' /\ BatchWhileRunning'
  BY DEF QueueInOwnLoop, DoingMeansRunning, BatchWhileRunning
<1>4. WakeupDue'
  <2>1. CASE doing
    BY <2>1, SMTT(30) DEF QueueInOwnLoop, WakeUp, WakeupDue, TypeOK
  <2>2. CASE ~doing /\ pc = "before"
    BY <2>2, <1>1, SMTT(30) DEF QueueInOwnLoop, WakeupDue, TypeOK
  <2>3. CASE ~doing /\ pc # "before"
    BY <2>3 DEF QueueInOwnLoop, UserCode, DoingMeansRunning, WakeupDue
  <2> QED BY <2>1, <2>2, <2>3
<1>5. NoLostQuit'
  BY DEF QueueInOwnLoop, UserCode, NoLostQuit
<1> QED BY <1>1, <1>2, <1>3, <1>4, <1>5, SMTT(30)

\* The swap of DoPendingFunctors keeps the invariant: it empties the queue.
LEMMA SwapPendingPreserves == IInv /\ SwapPending => IInv'
<1> SUFFICES ASSUME IInv, SwapPending PROVE IInv'
  OBVIOUS
<1> USE DEF IInv
<1>1. funcs = <<>>
  BY DEF SwapPending, BatchWhileRunning
<1>2. FunctorsConserved'
  <2>1. posted = ran \o pending
    BY <1>1, ConcatEmptySeq, Zenon DEF FunctorsConserved, TypeOK
  <2>2. (ran \o pending) \o <<>> = ran \o pending
    BY ConcatProperties, ConcatEmptySeq, ZenonT(30) DEF TypeOK
  <2> QED BY <2>1, <2>2 DEF SwapPending, FunctorsConserved, historyVars
<1>3. TypeOK'
  BY EmptySeq DEF SwapPending, TypeOK, LoopPoints, historyVars
<1>4. DoingMeansRunning' /\ BatchWhileRunning' /\ NoLostQuit'
  BY DEF SwapPending, DoingMeansRunning, BatchWhileRunning, NoLostQuit
<1>5. WakeupDue'
  BY DEF SwapPending, WakeupDue
<1> QED BY <1>2, <1>3, <1>4, <1>5

\* Calling the head of the batch keeps the invariant.
LEMMA CallFunctorPreserves == IInv /\ CallFunctor => IInv'
<1> SUFFICES ASSUME IInv, CallFunctor PROVE IInv'
  OBVIOUS
<1> USE DEF IInv
<1>1. /\ Head(funcs) \in Functors /\ Tail(funcs) \in Seq(Functors)
      /\ Append(ran, Head(funcs)) \in Seq(Functors)
  BY HeadTailProperties, AppendProperties, Zenon DEF CallFunctor, TypeOK
<1>2. FunctorsConserved'
  BY MoveHead, ZenonT(30) DEF CallFunctor, queueVars, FunctorsConserved, TypeOK
<1>3. TypeOK'
  BY <1>1, Zenon DEF CallFunctor, TypeOK, LoopPoints, queueVars
<1>4. DoingMeansRunning' /\ BatchWhileRunning' /\ NoLostQuit' /\ WakeupDue'
  BY DEF CallFunctor, DoingMeansRunning, BatchWhileRunning, NoLostQuit, WakeupDue,
         queueVars
<1> QED BY <1>2, <1>3, <1>4, Zenon

\* Every step is a quiet one or one of the four that touch the queue.
LEMMA NextCases ==
  ASSUME Next
  PROVE  \/ QuietStep \/ SwapPending \/ CallFunctor
         \/ \E t \in Threads, f \in Functors : QueueInLoop(t, f)
         \/ \E f \in Functors : QueueInOwnLoop(f)
  BY DEF Next, LoopStep, OwnCall, ThreadCall, ThreadStep, QuietStep

\* The invariant is inductive: it holds in every state the loop can reach.
THEOREM Invariance == Spec => []IInv
<1>1. IInv /\ [Next]_vars => IInv'
  <2> SUFFICES ASSUME IInv, [Next]_vars PROVE IInv'
    OBVIOUS
  <2>1. CASE UNCHANGED vars
    BY <2>1 DEF vars, IInv, TypeOK, DoingMeansRunning, BatchWhileRunning, WakeupDue,
       NoLostQuit, FunctorsConserved
  <2>2. CASE Next
    BY <2>2, NextCases, QuietPreserves, SwapPendingPreserves, CallFunctorPreserves,
       QueueInLoopPreserves, QueueInOwnLoopPreserves
  <2> QED BY <2>1, <2>2
<1> QED BY <1>1, InitIInv, PTL DEF Spec

\* The variables keep their types.
THEOREM TypeCorrect == Spec => []TypeOK
<1>1. IInv => TypeOK
  BY DEF IInv
<1> QED BY <1>1, Invariance, PTL

\* The loop thread is never left blocked in epoll_wait with functors pending and
\* nobody about to wake it, whatever the threads and however many
\* (QueueInLoop, WakeUp, HandleRead and DoPendingFunctors of net/eventloop.cc).
THEOREM WakeupNeverLost == Spec => []NoLostWakeup
<1>1. IInv => NoLostWakeup
  BY DEF IInv, WakeupDue, NoLostWakeup
<1> QED BY <1>1, Invariance, PTL

\* The loop thread is never left blocked in epoll_wait after a Quit() that nobody
\* is about to announce (Quit and the condition of Loop, net/eventloop.cc).
THEOREM QuitNeverLost == Spec => []NoLostQuit
<1>1. IInv => NoLostQuit
  BY DEF IInv
<1> QED BY <1>1, Invariance, PTL

\* No functor is dropped, duplicated or reordered by the swap of the queue
\* (DoPendingFunctors, net/eventloop.cc:186-199).
THEOREM FunctorsNeverLost == Spec => []FunctorsConserved
<1>1. IInv => FunctorsConserved
  BY DEF IInv
<1> QED BY <1>1, Invariance, PTL

-----------------------------------------------------------------------------
(* The loop implements the serial executor.                                 *)

\* A quiet step of the loop stops the executor or is none of its business.
LEMMA QuietRefines ==
  ASSUME QuietStep
  PROVE  Executor!Stop \/ UNCHANGED Executor!vars
<1> DEFINE over == pc \in {"returned", "aborted"}
<1>1. UNCHANGED <<posted, ran>>
  BY ZenonT(30) DEF QuietStep, StartLoop, CheckQuit, PollEvents, PollNothing, HandleRead,
         HandleEvent, ChannelReady, CallbackReturns, FunctorReturns, DonePending,
         QuitOwnLoop, ThreadStep, WakeAfterQueue, QuitSet, QuitWake, QuitAssert, Abort,
         Over, vars, queueVars, historyVars
<1>2. over => over'
  BY DEF QuietStep, StartLoop, CheckQuit, PollEvents, PollNothing, HandleRead,
         HandleEvent, ChannelReady, CallbackReturns, FunctorReturns, DonePending,
         QuitOwnLoop, ThreadStep, WakeAfterQueue, QuitSet, QuitWake, QuitAssert, Abort,
         Over, vars
<1>3. CASE over = over'
  BY <1>1, <1>3 DEF Executor!vars
<1>4. CASE ~over /\ over'
  BY <1>1, <1>4, Zenon DEF Executor!Stop
<1> QED BY <1>2, <1>3, <1>4

\* The functor DoPendingFunctors calls is the oldest one not yet called.
LEMMA CallRefines ==
  ASSUME IInv, CallFunctor
  PROVE  Executor!Run
<1> USE DEF IInv, TypeOK
<1>1. /\ ran \in Seq(Functors) /\ funcs \in Seq(Functors) /\ pending \in Seq(Functors)
      /\ funcs # <<>> /\ posted = (ran \o funcs) \o pending
  BY DEF CallFunctor, FunctorsConserved
<1>2. /\ Len(ran) \in Nat /\ Len(pending) \in Nat /\ Len(funcs) \in Nat \ {0}
      /\ Head(funcs) = funcs[1]
  BY <1>1, EmptySeq, LenProperties, SMTT(30)
<1>3. /\ ran \o funcs \in Seq(Functors)
      /\ Len(ran \o funcs) = Len(ran) + Len(funcs)
      /\ (ran \o funcs)[Len(ran) + 1] = funcs[1]
  <2>1. /\ ran \o funcs \in Seq(Functors)
        /\ Len(ran \o funcs) = Len(ran) + Len(funcs)
        /\ \A i \in 1 .. Len(ran) + Len(funcs) : (ran \o funcs)[i] =
              IF i <= Len(ran) THEN ran[i] ELSE funcs[i - Len(ran)]
    BY <1>1, ConcatProperties, ZenonT(30)
  <2> QED BY <2>1, <1>2
<1>4. /\ Len(posted) = Len(ran) + Len(funcs) + Len(pending)
      /\ posted[Len(ran) + 1] = (ran \o funcs)[Len(ran) + 1]
  <2>1. /\ Len(posted) = Len(ran \o funcs) + Len(pending)
        /\ \A i \in 1 .. Len(ran \o funcs) + Len(pending) : posted[i] =
              IF i <= Len(ran \o funcs)
              THEN (ran \o funcs)[i] ELSE pending[i - Len(ran \o funcs)]
    BY <1>1, <1>3, ConcatProperties, SMTT(30)
  <2> QED BY <2>1, <1>2, <1>3, SMTT(30)
<1>5. Len(ran) < Len(posted) /\ Head(funcs) = posted[Len(ran) + 1]
  BY <1>2, <1>3, <1>4
<1> QED BY <1>5 DEF CallFunctor, Executor!Run, queueVars

\* The event loop, with its swapped queue, its eventfd and its interleavings,
\* executes the functors handed over one at a time and in order until it stops.
THEOREM Refinement == Spec => ImplementsExecutor
<1>1. Init => Executor!Init
  BY DEF Init, Executor!Init
<1>2. IInv /\ [Next]_vars => [Executor!Next]_(Executor!vars)
  <2> SUFFICES ASSUME IInv, [Next]_vars
               PROVE  Executor!Next \/ UNCHANGED Executor!vars
    OBVIOUS
  <2>1. CASE UNCHANGED vars
    BY <2>1 DEF vars, Executor!vars
  <2>2. CASE QuietStep
    BY <2>2, QuietRefines, Zenon DEF Executor!Next
  <2>3. CASE SwapPending
    BY <2>3 DEF SwapPending, Executor!vars, historyVars
  <2>4. CASE CallFunctor
    BY <2>4, CallRefines, Zenon DEF Executor!Next
  <2>5. ASSUME NEW t \in Threads, NEW f \in Functors, QueueInLoop(t, f)
        PROVE  Executor!Post(f)
    BY <2>5 DEF QueueInLoop, Push, Executor!Post, historyVars
  <2>6. ASSUME NEW f \in Functors, QueueInOwnLoop(f)
        PROVE  Executor!Post(f)
    BY <2>6 DEF QueueInOwnLoop, Push, Executor!Post
  <2> QED BY <2>1, <2>2, <2>3, <2>4, <2>5, <2>6, NextCases, Zenon DEF Executor!Next
<1> QED BY <1>1, <1>2, Invariance, PTL DEF Spec, ImplementsExecutor, Executor!Spec
=============================================================================
