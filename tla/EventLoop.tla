------------------------------ MODULE EventLoop ------------------------------
(***************************************************************************)
(* jnet::EventLoop (net/eventloop.cc): one thread blocked in epoll_wait, a *)
(* queue of functors that any thread may append to under a mutex, and an   *)
(* eventfd that gets the loop thread out of epoll_wait when the queue is   *)
(* no longer empty.                                                        *)
(*                                                                         *)
(* The loop thread and every other thread take steps of their own; a step  *)
(* is what one thread does between two accesses to state the other threads *)
(* use (pendingFunctors_, quit_ and the eventfd).  The callbacks and the   *)
(* functors are user code: while one of them is running, the loop thread   *)
(* may call any public operation any number of times before it returns.    *)
(* RunInLoop called by the loop's own thread is a plain call of the        *)
(* functor: it is more user code, and no step of its own.                  *)
(* Each functor is handed over at most once, so a functor is also the      *)
(* identity of one hand-over.                                              *)
(***************************************************************************)
EXTENDS Naturals, Sequences

CONSTANTS Threads,    \* the threads other than the loop's own
          Functors,   \* the functors handed to the loop
          Channels    \* the file descriptors polled besides the eventfd

\* The eventfd's channel (wakeupChannel_) is not one of the other channels.
CONSTANT WakeupChannel

ASSUME ChannelsAssumption == WakeupChannel \notin Channels

VARIABLES
    pc,        \* where the loop thread is: see LoopPoints
    active,    \* activeChannels_: reported by the poller and not yet handled
    ready,     \* the channels the kernel has an event for
    pending,   \* pendingFunctors_
    funcs,     \* DoPendingFunctors' local vector, from the next one to call on
    doing,     \* doingPending_
    quit,      \* quit_
    wakeups,   \* the counter inside the eventfd
    at,        \* where each other thread is: see CallPoints
    posted,    \* history: the functors appended to pendingFunctors_, in order
    ran,       \* history: the functors called by DoPendingFunctors, in order
    early      \* history: appended by the loop's own thread before Loop()

vars == <<pc, active, ready, pending, funcs, doing, quit, wakeups, at,
          posted, ran, early>>

queueVars == <<pending, posted>>
historyVars == <<ran, early>>

-----------------------------------------------------------------------------
(* "before": constructed, Loop() not yet called; "check": at the loop's     *)
(* condition; "poll": blocked in epoll_wait; "dispatch": going through      *)
(* activeChannels_; "callback": inside a channel's callback; "run": going   *)
(* through funcs; "functor": inside a functor; "returned": Loop() is over;  *)
(* "aborted": an assertion failed and the process is gone.                  *)
LoopPoints == {"before", "check", "poll", "dispatch", "callback", "run",
               "functor", "returned", "aborted"}

\* The points at which the loop thread runs code of the loop's user.
UserCode == {"before", "callback", "functor", "returned"}

\* "idle": in no operation of the loop; "wake": has appended a functor and not
\* yet called WakeUp(); "quit": past Quit()'s assertion; "quitwake": has set
\* quit_ and not yet called WakeUp().
CallPoints == {"idle", "wake", "quit", "quitwake"}

Alive == pc # "aborted"

Fresh(f) == \A i \in DOMAIN posted : posted[i] # f

\* The state the constructor leaves.
Init ==
    /\ pc = "before"
    /\ active = {} /\ ready = {}
    /\ pending = <<>> /\ funcs = <<>>
    /\ doing = FALSE /\ quit = FALSE
    /\ wakeups = 0
    /\ at = [t \in Threads |-> "idle"]
    /\ posted = <<>> /\ ran = <<>>
    /\ early = {}

-----------------------------------------------------------------------------
(* Handing a functor over.                                                  *)

\* The critical section of QueueInLoop.
Push(f) ==
    /\ Fresh(f)
    /\ pending' = Append(pending, f)
    /\ posted' = Append(posted, f)

\* WakeUp() adds one to the eventfd's counter.
WakeUp == wakeups' = wakeups + 1

\* RunInLoop or QueueInLoop called by another thread: append the functor...
QueueInLoop(t, f) ==
    /\ Alive
    /\ at[t] = "idle"
    /\ Push(f)
    /\ at' = [at EXCEPT ![t] = "wake"]
    /\ UNCHANGED <<pc, active, ready, funcs, doing, quit, wakeups, historyVars>>

\* ... and, once the mutex is released, wake the loop thread.
WakeAfterQueue(t) ==
    /\ Alive
    /\ at[t] = "wake"
    /\ WakeUp
    /\ at' = [at EXCEPT ![t] = "idle"]
    /\ UNCHANGED <<pc, active, ready, queueVars, funcs, doing, quit, historyVars>>

\* Mutant: the loop's own thread never writes the eventfd.
QueueInOwnLoopSilently(f) ==
    /\ pc \in UserCode
    /\ Push(f)
    /\ early' = IF pc = "before" THEN early \cup {f} ELSE early
    /\ UNCHANGED <<pc, active, ready, funcs, doing, quit, wakeups, at, ran>>

\* QueueInLoop called by the loop's own thread writes the eventfd only when
\* DoPendingFunctors is going through its batch.
QueueInOwnLoop(f) ==
    /\ pc \in UserCode
    /\ Push(f)
    /\ IF doing THEN WakeUp ELSE UNCHANGED wakeups
    /\ early' = IF pc = "before" THEN early \cup {f} ELSE early
    /\ UNCHANGED <<pc, active, ready, funcs, doing, quit, at, ran>>

-----------------------------------------------------------------------------
(* Quit: the assertion on quit_, the assignment and the write to the        *)
(* eventfd are three accesses, and only another thread makes the last one.  *)

Abort ==
    /\ pc' = "aborted"
    /\ UNCHANGED <<active, ready, queueVars, funcs, doing, quit, wakeups, at,
                   historyVars>>

QuitAssert(t) ==
    /\ Alive
    /\ at[t] = "idle"
    /\ \/ /\ ~quit
          /\ at' = [at EXCEPT ![t] = "quit"]
          /\ UNCHANGED <<pc, active, ready, queueVars, funcs, doing, quit, wakeups,
                         historyVars>>
       \/ quit /\ Abort

QuitSet(t) ==
    /\ Alive
    /\ at[t] = "quit"
    /\ quit' = TRUE
    /\ at' = [at EXCEPT ![t] = "quitwake"]
    /\ UNCHANGED <<pc, active, ready, queueVars, funcs, doing, wakeups, historyVars>>

\* Mutant: a Quit() that relies on the loop noticing quit_ by itself.
QuitNoWake(t) ==
    /\ Alive
    /\ at[t] = "quitwake"
    /\ at' = [at EXCEPT ![t] = "idle"]
    /\ UNCHANGED <<pc, active, ready, queueVars, funcs, doing, quit, wakeups,
                   historyVars>>

QuitWake(t) ==
    /\ Alive
    /\ at[t] = "quitwake"
    /\ WakeUp
    /\ at' = [at EXCEPT ![t] = "idle"]
    /\ UNCHANGED <<pc, active, ready, queueVars, funcs, doing, quit, historyVars>>

QuitOwnLoop ==
    /\ pc \in UserCode
    /\ \/ /\ ~quit
          /\ quit' = TRUE
          /\ UNCHANGED <<pc, active, ready, queueVars, funcs, doing, wakeups, at,
                         historyVars>>
       \/ quit /\ Abort

-----------------------------------------------------------------------------
(* Loop.                                                                    *)

\* Loop() is called by the thread that constructed the loop.
StartLoop ==
    /\ pc = "before"
    /\ pc' = "check"
    /\ UNCHANGED <<active, ready, queueVars, funcs, doing, quit, wakeups, at,
                   historyVars>>

\* while (!quit_) activeChannels_.clear()
CheckQuit ==
    /\ pc = "check"
    /\ IF quit
       THEN pc' = "returned" /\ UNCHANGED active
       ELSE pc' = "poll" /\ active' = {}
    /\ UNCHANGED <<ready, queueVars, funcs, doing, quit, wakeups, at, historyVars>>

\* What epoll_wait finds ready: level-triggered, so the eventfd is readable as
\* long as its counter is not zero.
Readable == ready \cup (IF wakeups > 0 THEN {WakeupChannel} ELSE {})

\* Poller::Poll with events to report.
PollEvents ==
    /\ pc = "poll"
    /\ Readable # {}
    /\ active' = Readable
    /\ pc' = "dispatch"
    /\ UNCHANGED <<ready, queueVars, funcs, doing, quit, wakeups, at, historyVars>>

\* Poller::Poll with nothing to report: kPollTimeMs went by, or epoll_wait was
\* interrupted by a signal (which can happen whatever is ready).
PollNothing ==
    /\ pc = "poll"
    /\ pc' = "dispatch"
    /\ UNCHANGED <<active, ready, queueVars, funcs, doing, quit, wakeups, at,
                   historyVars>>

\* The eventfd's channel: HandleRead reads the counter, which resets it.
HandleRead ==
    /\ pc = "dispatch"
    /\ WakeupChannel \in active
    /\ active' = active \ {WakeupChannel}
    /\ wakeups' = 0
    /\ UNCHANGED <<pc, ready, queueVars, funcs, doing, quit, at, historyVars>>

\* Any other active channel: its callback takes the event and runs user code.
HandleEvent(c) ==
    /\ pc = "dispatch"
    /\ c \in active
    /\ active' = active \ {c}
    /\ ready' = ready \ {c}
    /\ pc' = "callback"
    /\ UNCHANGED <<queueVars, funcs, doing, quit, wakeups, at, historyVars>>

CallbackReturns ==
    /\ pc = "callback"
    /\ pc' = "dispatch"
    /\ UNCHANGED <<active, ready, queueVars, funcs, doing, quit, wakeups, at,
                   historyVars>>

\* Mutant: the queue is copied out instead of swapped out.
CopyPending ==
    /\ pc = "dispatch" /\ active = {}
    /\ funcs' = pending
    /\ doing' = TRUE
    /\ pc' = "run"
    /\ UNCHANGED <<active, ready, queueVars, quit, wakeups, at, historyVars>>

\* DoPendingFunctors up to its loop: doingPending_ is only ever accessed by the
\* loop's own thread, so setting it is part of the step that swaps the queue.
SwapPending ==
    /\ pc = "dispatch" /\ active = {}
    /\ funcs' = pending
    /\ pending' = <<>>
    /\ doing' = TRUE
    /\ pc' = "run"
    /\ UNCHANGED <<active, ready, posted, quit, wakeups, at, historyVars>>

\* Mutant: the batch is gone through one step too far; what lies behind it is not
\* a functor.
CallPastEnd ==
    /\ pc = "run"
    /\ funcs' = Tail(Append(funcs, WakeupChannel))
    /\ ran' = Append(ran, Head(Append(funcs, WakeupChannel)))
    /\ pc' = "functor"
    /\ UNCHANGED <<active, ready, queueVars, doing, quit, wakeups, at, early>>

\* Mutant: the batch is called from its end.
CallNewest ==
    /\ pc = "run" /\ funcs # <<>>
    /\ ran' = Append(ran, funcs[Len(funcs)])
    /\ funcs' = SubSeq(funcs, 1, Len(funcs) - 1)
    /\ pc' = "functor"
    /\ UNCHANGED <<active, ready, queueVars, doing, quit, wakeups, at, early>>

\* One functor of the batch, user code again.
CallFunctor ==
    /\ pc = "run" /\ funcs # <<>>
    /\ ran' = Append(ran, Head(funcs))
    /\ funcs' = Tail(funcs)
    /\ pc' = "functor"
    /\ UNCHANGED <<active, ready, queueVars, doing, quit, wakeups, at, early>>

FunctorReturns ==
    /\ pc = "functor"
    /\ pc' = "run"
    /\ UNCHANGED <<active, ready, queueVars, funcs, doing, quit, wakeups, at,
                   historyVars>>

DonePending ==
    /\ pc = "run" /\ funcs = <<>>
    /\ doing' = FALSE
    /\ pc' = "check"
    /\ UNCHANGED <<active, ready, queueVars, funcs, quit, wakeups, at, historyVars>>

-----------------------------------------------------------------------------
\* The kernel gets an event for a channel.
ChannelReady(c) ==
    /\ Alive
    /\ c \notin ready
    /\ ready' = ready \cup {c}
    /\ UNCHANGED <<pc, active, queueVars, funcs, doing, quit, wakeups, at, historyVars>>

\* The loop is over: the only way the system may come to a halt.
Over == pc \in {"returned", "aborted"} /\ UNCHANGED vars

LoopStep ==
    \/ CheckQuit \/ PollEvents \/ HandleRead \/ (\E c \in Channels : HandleEvent(c))
    \/ CallbackReturns \/ SwapPending \/ CallFunctor \/ FunctorReturns \/ DonePending

ThreadStep(t) == WakeAfterQueue(t) \/ QuitSet(t) \/ QuitWake(t)

OwnCall == QuitOwnLoop \/ (\E f \in Functors : QueueInOwnLoop(f))

ThreadCall(t) == QuitAssert(t) \/ (\E f \in Functors : QueueInLoop(t, f))

Next ==
    \/ StartLoop \/ LoopStep \/ PollNothing \/ OwnCall
    \/ \E t \in Threads : ThreadStep(t) \/ ThreadCall(t)
    \/ \E c \in Channels : ChannelReady(c)
    \/ Over

Spec == Init /\ [][Next]_vars

(* The operating system runs every thread that can run, epoll_wait returns  *)
(* when something is ready, and callbacks and functors return.  Nothing is  *)
(* assumed of epoll_wait's ten-second timeout: no progress relies on it.    *)
FairSpec ==
    /\ Spec
    /\ WF_vars(LoopStep)
    /\ \A t \in Threads : WF_vars(ThreadStep(t))

-----------------------------------------------------------------------------
\* The types of the loop's state and of the threads' points of execution.
TypeOK ==
    /\ pc \in LoopPoints
    /\ active \subseteq Channels \cup {WakeupChannel}
    /\ ready \subseteq Channels
    /\ pending \in Seq(Functors) /\ funcs \in Seq(Functors)
    /\ doing \in BOOLEAN /\ quit \in BOOLEAN
    /\ wakeups \in Nat
    /\ at \in [Threads -> CallPoints]
    /\ posted \in Seq(Functors) /\ ran \in Seq(Functors)
    /\ early \subseteq Functors

\* No lost wakeup.  When the loop thread is blocked in epoll_wait while functors
\* are pending, the eventfd is readable or some thread is about to write it
\* (QueueInLoop, net/eventloop.cc:148-164); the one exception is functors that
\* the loop's own thread queued before Loop() was called, for which line 153
\* writes nothing.
NoLostWakeup ==
    pc = "poll" /\ wakeups = 0 /\ (\A t \in Threads : at[t] # "wake")
        => \A i \in DOMAIN pending : pending[i] \in early

\* No lost quit.  When the loop thread is blocked in epoll_wait although quit_
\* is set, the eventfd is readable or the thread that called Quit() is about to
\* write it (net/eventloop.cc:116-122).
NoLostQuit ==
    pc = "poll" /\ quit => wakeups > 0 \/ \E t \in Threads : at[t] = "quitwake"

\* Nothing is dropped, duplicated or reordered: the functors handed over are
\* exactly those called, then those of the batch being called, then those still
\* queued (the swap in DoPendingFunctors, net/eventloop.cc:189-197).
FunctorsConserved == posted = ran \o funcs \o pending

Executor == INSTANCE SerialExecutor WITH stopped <- pc \in {"returned", "aborted"}

\* The loop implements the serial executor its interface promises
\* (net/eventloop.h:34-37).
ImplementsExecutor == Executor!Spec

\* Once Loop() runs, every functor handed over is called unless the loop is told
\* to quit, without the help of epoll_wait's timeout.  Functors the loop's own
\* thread queued before Loop() do need it (net/eventloop.cc:153).
FunctorsRun ==
    \A f \in Functors :
        (pc # "before" /\ f \notin early /\ \E i \in DOMAIN posted : posted[i] = f)
            ~> (quit \/ \E i \in DOMAIN ran : ran[i] = f)

\* Once Loop() runs, Quit() from any thread makes it return (or a second Quit()
\* fails its assertion), without the help of epoll_wait's timeout.
QuitStopsLoop == (quit /\ pc # "before") ~> pc \in {"returned", "aborted"}
=============================================================================
