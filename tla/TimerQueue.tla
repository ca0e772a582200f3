----------------------------- MODULE TimerQueue -----------------------------
(***************************************************************************)
(* jnet::TimerQueue (net/timerqueue.cc): timers kept in a set ordered by   *)
(* expiration, one timerfd armed for the earliest of them, and callbacks   *)
(* called by the loop thread when the timerfd becomes readable.            *)
(*                                                                         *)
(* AddTimer allocates the Timer in the calling thread and has the loop     *)
(* thread insert it; Cancel has the loop thread erase it.  A TimerId is    *)
(* the Timer's address and its sequence number; a Timer's memory is reused *)
(* by a later Timer once it has been deleted.  Requests of other threads   *)
(* reach the loop thread through EventLoop::RunInLoop, whose promise       *)
(* (SerialExecutor) is all that is used of it here: in order, each once,   *)
(* between two rounds of event handling.                                   *)
(*                                                                         *)
(* Expirations are wall-clock times (gettimeofday), while the timerfd      *)
(* counts monotonic time: stepping the wall clock moves one and not the    *)
(* other.  A unit of time is the 100 microseconds below which              *)
(* HowMuchTimeFromNow never goes.                                          *)
(***************************************************************************)
EXTENDS Integers, Sequences, FiniteSets

CONSTANTS Addresses,   \* where a Timer may be allocated; ordered like pointers
          Intervals,   \* the intervals timers are created with; 0: one-shot
          MaxTimers,   \* bound: Timers created in a behaviour
          MaxTime,     \* bound: the wall clock
          Delays       \* how far from the time of the call timers expire

ASSUME TimerAssumption ==
    /\ Addresses \subseteq Nat
    /\ Intervals \subseteq Nat
    /\ Delays \subseteq Int
    /\ MaxTimers \in Nat /\ MaxTime \in Nat

VARIABLES
    wall,       \* TimeStamp::Now()
    stepped,    \* the wall clock has been set
    left,       \* time until the timerfd fires; 0: not armed
    readable,   \* the timerfd has fired and has not been read
    reported,   \* the poller has reported the timerfd, HandleRead is due
    heap,       \* the memory of each address
    ids,        \* ids[s]: the address of the s-th Timer created (s_numCreated_)
    timers,     \* timers_: pairs of expiration and address
    queue,      \* requests on their way to the loop thread
    at,         \* "idle", "calling" (HandleRead between callbacks) or "callback"
    now,        \* HandleRead's local: when it started
    expired,    \* HandleRead's local: the entries taken by GetExpired
    todo,       \* those of expired whose callback has not been called yet
    asked,      \* history: the timers Cancel() was called for
    erased,     \* history: the timers a cancellation took out of timers_
    fired       \* history: the timers whose callback was called

vars == <<wall, stepped, left, readable, reported, heap, ids, timers, queue, at,
          now, expired, todo, asked, erased, fired>>

clockVars == <<wall, stepped>>
batchVars == <<at, now, expired, todo>>
historyVars == <<asked, erased, fired>>

-----------------------------------------------------------------------------
Max2(x, y) == IF x > y THEN x ELSE y

\* A Timer object: sequence_, expiration_ and interval_.
Timer == [live : {TRUE}, seq : 1 .. MaxTimers, exp : Int, interval : Nat]

\* Memory that no Timer occupies; what is read from it matters to nothing.
Freed == [live |-> FALSE, seq |-> 0, exp |-> 0, interval |-> 0]

Entries == Int \X Addresses

\* std::pair's order on the entries of timers_.
Before(d, e) == d[1] < e[1] \/ (d[1] = e[1] /\ d[2] < e[2])

\* timers_.begin() of a set of entries.
IsFirst(e, S) == e \in S /\ \A d \in S : d = e \/ Before(e, d)

\* ResetTimerfd: at least one unit ahead; setting a timerfd takes back an
\* expiration that has not been read.
ResetTimerfd(expiration) ==
    /\ left' = Max2(expiration - wall, 1)
    /\ readable' = FALSE

Init ==
    /\ wall = 1 /\ stepped = FALSE
    /\ left = 0 /\ readable = FALSE /\ reported = FALSE
    /\ heap = [a \in Addresses |-> Freed]
    /\ ids = <<>>
    /\ timers = {}
    /\ queue = <<>>
    /\ at = "idle" /\ now = 0 /\ expired = {} /\ todo = {}
    /\ asked = {} /\ erased = {} /\ fired = {}

-----------------------------------------------------------------------------
(* AddTimer.                                                                *)

\* new Timer(cb, expiration, interval), in the thread that calls AddTimer.
NewTimer(a, expiration, interval) ==
    /\ Len(ids) < MaxTimers
    /\ ~heap[a].live
    /\ heap' = [heap EXCEPT ![a] = [live |-> TRUE, seq |-> Len(ids) + 1,
                                    exp |-> expiration, interval |-> interval]]
    /\ ids' = Append(ids, a)

\* What Insert returns: the timer comes before all others.
IsEarliest(expiration) == \A e \in timers : expiration < e[1]

\* Mutant: the timerfd is armed only when timers_ was empty.
InsertFirstOnly(a, expiration) ==
    /\ timers' = timers \cup {<<expiration, a>>}
    /\ IF timers = {}
       THEN ResetTimerfd(expiration)
       ELSE UNCHANGED <<left, readable>>

\* AddTimerInLoop: insert, and arm the timerfd if the timer is now the earliest.
AddTimerInLoop(a, expiration) ==
    /\ timers' = timers \cup {<<expiration, a>>}
    /\ IF IsEarliest(expiration)
       THEN ResetTimerfd(expiration)
       ELSE UNCHANGED <<left, readable>>

AddTimer(a, expiration, interval) ==
    /\ NewTimer(a, expiration, interval)
    /\ queue' = Append(queue, [op |-> "add", seq |-> Len(ids) + 1])
    /\ UNCHANGED <<clockVars, left, readable, reported, timers, batchVars, historyVars>>

\* AddTimer called by user code on the loop thread.
AddTimerOwn(a, expiration, interval) ==
    /\ at \in {"idle", "callback"}
    /\ NewTimer(a, expiration, interval)
    /\ AddTimerInLoop(a, expiration)
    /\ UNCHANGED <<clockVars, reported, queue, batchVars, historyVars>>

-----------------------------------------------------------------------------
(* Cancel.  The Timer may have been deleted by then.  Nothing in timers_    *)
(* points at deleted memory, so whatever is read as its expiration erases   *)
(* nothing; when a new Timer lives there, that Timer's expiration is read.  *)

CancelTimerIdInLoop(s) ==
    LET a == ids[s]
        entry == <<heap[a].exp, a>>
    IN  /\ timers' = timers \ {entry}
        /\ erased' = IF entry \in timers THEN erased \cup {heap[a].seq} ELSE erased

Cancel(s) ==
    /\ s \notin asked
    /\ asked' = asked \cup {s}
    /\ queue' = Append(queue, [op |-> "cancel", seq |-> s])
    /\ UNCHANGED <<clockVars, left, readable, reported, heap, ids, timers, batchVars,
                   erased, fired>>

CancelOwn(s) ==
    /\ at \in {"idle", "callback"}
    /\ s \notin asked
    /\ asked' = asked \cup {s}
    /\ CancelTimerIdInLoop(s)
    /\ UNCHANGED <<clockVars, left, readable, reported, heap, ids, queue, batchVars,
                   fired>>

\* The loop thread executes the oldest request of another thread.
RunRequest ==
    /\ at = "idle"
    /\ queue # <<>>
    /\ queue' = Tail(queue)
    /\ LET r == Head(queue)
       IN  \/ /\ r.op = "add"
              /\ AddTimerInLoop(ids[r.seq], heap[ids[r.seq]].exp)
              /\ UNCHANGED erased
           \/ /\ r.op = "cancel"
              /\ CancelTimerIdInLoop(r.seq)
              /\ UNCHANGED <<left, readable>>
    /\ UNCHANGED <<clockVars, reported, heap, ids, batchVars, asked, fired>>

-----------------------------------------------------------------------------
(* The timerfd fires.                                                       *)

\* The poller finds the timerfd readable.
Poll ==
    /\ at = "idle" /\ readable /\ ~reported
    /\ reported' = TRUE
    /\ UNCHANGED <<clockVars, left, readable, heap, ids, timers, queue, batchVars,
                   historyVars>>

\* Mutant: GetExpired copies the expired entries and leaves them in timers_.
HandleReadKeeps ==
    /\ at = "idle" /\ reported
    /\ reported' = FALSE
    /\ readable' = FALSE
    /\ now' = wall
    /\ expired' = {e \in timers : e[1] <= wall}
    /\ todo' = expired'
    /\ at' = "calling"
    /\ UNCHANGED <<clockVars, left, heap, ids, timers, queue, historyVars>>

\* HandleRead up to its callbacks.  The timerfd may have been set again since it
\* was reported: reading it then fails, which changes nothing.
HandleRead ==
    /\ at = "idle" /\ reported
    /\ reported' = FALSE
    /\ readable' = FALSE
    /\ now' = wall
    /\ expired' = {e \in timers : e[1] <= wall}
    /\ todo' = expired'
    /\ timers' = timers \ expired'
    /\ at' = "calling"
    /\ UNCHANGED <<clockVars, left, heap, ids, queue, historyVars>>

RunTimer ==
    /\ at = "calling"
    /\ \E e \in todo :
          /\ IsFirst(e, todo)
          /\ todo' = todo \ {e}
          /\ fired' = fired \cup {heap[e[2]].seq}
    /\ at' = "callback"
    /\ UNCHANGED <<clockVars, left, readable, reported, heap, ids, timers, queue, now,
                   expired, asked, erased>>

CallbackReturns ==
    /\ at = "callback"
    /\ at' = "calling"
    /\ UNCHANGED <<clockVars, left, readable, reported, heap, ids, timers, queue, now,
                   expired, todo, historyVars>>

\* Mutant: every expired Timer is inserted again.
RepeatAll == expired

\* The expired entries whose Timer repeats: cancelingTimers_ is only ever cleared,
\* so no Timer is found in it.
Repeating == {e \in expired : heap[e[2]].interval > 0}

\* Mutant: Reset does not arm the timerfd.
NoRearm == UNCHANGED <<left, readable>>

\* Timer::Restart, for a Timer that repeats.
Restart(timer) == [timer EXCEPT !.exp = now + timer.interval]

\* The end of Reset: TimeStamp() is not a valid expiration.
RearmEarliest ==
    \/ timers' = {} /\ UNCHANGED <<left, readable>>
    \/ \E e \in timers' :
          /\ IsFirst(e, timers')
          /\ IF heap'[e[2]].exp = 0
             THEN UNCHANGED <<left, readable>>
             ELSE ResetTimerfd(heap'[e[2]].exp)

\* Reset: Timers that repeat are restarted from now and inserted again, the
\* others are deleted, and the timerfd is armed for the earliest there is.
Reset ==
    /\ at = "calling" /\ todo = {}
    /\ heap' = [a \in Addresses |->
                  IF \E e \in expired : e[2] = a
                  THEN IF heap[a].interval > 0 THEN Restart(heap[a]) ELSE Freed
                  ELSE heap[a]]
    /\ timers' = timers \cup {<<Restart(heap[e[2]]).exp, e[2]>> : e \in Repeating}
    /\ RearmEarliest
    /\ at' = "idle"
    /\ now' = 0 /\ expired' = {}
    /\ UNCHANGED <<clockVars, reported, ids, queue, todo, historyVars>>

-----------------------------------------------------------------------------
(* Time.                                                                    *)

\* At its bound the wall clock stands still and the timerfd still counts.
Tick ==
    /\ wall < MaxTime \/ left > 0
    /\ wall' = IF wall < MaxTime THEN wall + 1 ELSE wall
    /\ left' = Max2(left - 1, 0)
    /\ readable' = (readable \/ left = 1)
    /\ UNCHANGED <<stepped, reported, heap, ids, timers, queue, batchVars, historyVars>>

\* The administrator or NTP sets the wall clock, once.
StepClock ==
    /\ ~stepped
    /\ stepped' = TRUE
    /\ wall' \in (1 .. MaxTime) \ {wall}
    /\ UNCHANGED <<left, readable, reported, heap, ids, timers, queue, batchVars,
                   historyVars>>

-----------------------------------------------------------------------------
LoopStep == RunRequest \/ Poll \/ HandleRead \/ RunTimer \/ CallbackReturns \/ Reset

Add ==
    \E a \in Addresses, d \in Delays, interval \in Intervals :
        \/ AddTimer(a, wall + d, interval)
        \/ AddTimerOwn(a, wall + d, interval)

CancelSome == \E s \in DOMAIN ids : Cancel(s) \/ CancelOwn(s)

\* Nothing is left to happen within the bounds.
Over == wall = MaxTime /\ UNCHANGED vars

Next == LoopStep \/ Add \/ CancelSome \/ Tick \/ StepClock \/ Over

Spec == Init /\ [][Next]_vars

\* The loop thread keeps running, callbacks return, and time passes.
FairSpec == Spec /\ WF_vars(LoopStep) /\ WF_vars(Tick)

-----------------------------------------------------------------------------
(* Properties.                                                              *)

\* No dangling entry: whatever is added, cancelled and fired in whatever order,
\* each entry of timers_ and of the batch HandleRead works on points at a Timer
\* that has not been deleted (Reset deletes), is filed under that Timer's
\* expiration (or CancelTimerIdInLoop would not find it), and is the only one.
EntriesLive ==
    /\ \A e \in timers \cup expired : heap[e[2]].live /\ heap[e[2]].exp = e[1]
    /\ timers \cap expired = {}

\* The timerfd is never left unarmed while a timer waits: outside HandleRead, if
\* timers_ is not empty, HandleRead is due, or the timerfd is readable, or it is
\* armed -- and, unless the wall clock was set, for no later than the earliest
\* expiration or one unit from now (AddTimerInLoop arms it for a new earliest
\* timer only, Cancel never, Reset always).
NeverSleepsPastDeadline ==
    at = "idle" =>
        \A e \in timers :
            \/ reported \/ readable
            \/ left > 0 /\ (stepped \/ wall + left <= Max2(e[1], wall + 1))

\* A timer that CancelTimerIdInLoop took out of timers_ is never called
\* afterwards: it is neither waiting in timers_ nor among the expired.
CancelledStaysCancelled ==
    \A e \in timers \cup expired : heap[e[2]].seq \notin erased

\* A timer whose AddTimerInLoop has run and which expires within the bounds is
\* called, unless it is cancelled, even if the wall clock is set meanwhile.
TimersFire ==
    \A s \in 1 .. MaxTimers :
        (\E e \in timers : heap[e[2]].seq = s /\ e[1] <= MaxTime)
            ~> (s \in fired \/ s \in erased)

\* A cancellation removes no timer but the one it names (timerqueue.cc:148: erasing
\* a timer that GetExpired has taken out already "will cause no problem").
CancelOnlyItsOwn == erased \subseteq asked
=============================================================================
