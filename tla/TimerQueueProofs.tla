-------------------------- MODULE TimerQueueProofs --------------------------
(***************************************************************************)
(* The safety properties of TimerQueue, proved for any number of timers,   *)
(* addresses, delays and intervals, and any bound on time.                 *)
(***************************************************************************)
EXTENDS TimerQueue, TLAPS

\* Memory, whether a Timer lives in it or not.
Cell == [live : BOOLEAN, seq : Nat, exp : Int, interval : Nat]
Request == [op : {"add", "cancel"}, seq : Nat]

Types ==
    /\ wall \in Nat \ {0} /\ stepped \in BOOLEAN
    /\ left \in Nat /\ readable \in BOOLEAN /\ reported \in BOOLEAN
    /\ heap \in [Addresses -> Cell]
    /\ ids \in Seq(Addresses)
    /\ timers \in SUBSET Entries /\ expired \in SUBSET Entries /\ todo \in SUBSET Entries
    /\ queue \in Seq(Request)
    /\ at \in {"idle", "calling", "callback"}
    /\ now \in Nat /\ (at # "idle" => now > 0)
    /\ erased \in SUBSET (1 .. Len(ids))

\* A request names a Timer that was created.
RequestsNamed == \A i \in 1 .. Len(queue) : queue[i].seq \in 1 .. Len(ids)

\* A Timer lives where the address in its TimerId says.
LiveNumbered ==
    \A a \in Addresses :
        heap[a].live => heap[a].seq \in 1 .. Len(ids) /\ ids[heap[a].seq] = a

\* A Timer that is on its way to the loop thread lives, has not been cancelled, and is
\* not filed yet.
AddsPending ==
    \A i \in 1 .. Len(queue) : queue[i].op = "add" =>
        LET a == ids[queue[i].seq]
        IN  /\ heap[a].live /\ heap[a].seq = queue[i].seq
            /\ queue[i].seq \notin erased
            /\ \A e \in timers \cup expired : e[2] # a

AddsOnce ==
    \A i, j \in 1 .. Len(queue) :
        queue[i].op = "add" /\ queue[j].op = "add" /\ queue[i].seq = queue[j].seq => i = j

\* The timerfd is readable, or will be in time for an expiration.
Armed(expiration) ==
    readable \/ (left > 0 /\ (stepped \/ wall + left <= Max2(expiration, wall + 1)))

\* HandleRead has taken what had expired when it began; what its callbacks have added
\* for an earlier time has armed the timerfd.
ArmedInCallbacks == at # "idle" => \A e \in timers : e[1] <= now => Armed(e[1])

Memory ==
    /\ RequestsNamed /\ LiveNumbered /\ AddsPending /\ AddsOnce
    /\ EntriesLive /\ CancelledStaysCancelled

IInv == Types /\ Memory /\ ArmedInCallbacks /\ NeverSleepsPastDeadline

-----------------------------------------------------------------------------
(* Facts about the operators.                                               *)

\* An entry of timers_.
LEMMA EntryParts ==
    ASSUME NEW e \in Entries
    PROVE  e = <<e[1], e[2]>> /\ e[1] \in Int /\ e[2] \in Addresses
BY DEF Entries

\* What is in time for one expiration is in time for a later one.
LEMMA ArmedLater ==
    ASSUME Types, NEW x \in Int, NEW y \in Int, x <= y, Armed(x)
    PROVE  Armed(y)
<1>1. Max2(x, wall + 1) <= Max2(y, wall + 1)
    BY DEF Types, Max2
<1>2. Max2(x, wall + 1) \in Int /\ Max2(y, wall + 1) \in Int /\ wall + left \in Int
    BY DEF Types, Max2
<1> QED
    BY <1>1, <1>2 DEF Armed

\* Outside HandleRead, the property says that every entry is in time.
LEMMA SleepsArmed ==
    NeverSleepsPastDeadline <=> (at = "idle" => \A e \in timers : reported \/ Armed(e[1]))
BY DEF NeverSleepsPastDeadline, Armed

\* ResetTimerfd arms the timerfd for the expiration.
LEMMA ResetArms ==
    ASSUME Types, NEW x \in Int, ResetTimerfd(x), UNCHANGED <<wall, stepped>>
    PROVE  left' \in Nat \ {0} /\ readable' = FALSE /\ Armed(x)'
<1>1. left' = Max2(x - wall, 1) /\ wall' = wall /\ wall \in Nat /\ readable' = FALSE
    BY DEF ResetTimerfd, Types
<1>2. left' \in Nat \ {0}
    BY <1>1 DEF Max2
<1>3. wall + left' <= Max2(x, wall + 1)
    BY <1>1 DEF Max2
<1> QED
    BY <1>1, <1>2, <1>3 DEF Armed

\* AddTimerInLoop: each entry is in time afterwards, or as much in time as an entry
\* was that is not later.
LEMMA InsertArms ==
    ASSUME Types, NEW a \in Addresses, NEW x \in Int, AddTimerInLoop(a, x),
           UNCHANGED <<wall, stepped>>
    PROVE  /\ left' \in Nat /\ readable' \in BOOLEAN /\ timers' \in SUBSET Entries
           /\ \A e \in timers' :
                 \/ Armed(e[1])'
                 \/ /\ UNCHANGED <<left, readable>>
                    /\ \E d \in timers : d[1] \in Int /\ d[1] <= e[1]
<1>1. timers' = timers \cup {<<x, a>>} /\ <<x, a>> \in Entries
    BY DEF AddTimerInLoop, Entries
<1>2. CASE IsEarliest(x)
  <2>1. left' \in Nat \ {0} /\ readable' = FALSE /\ Armed(x)'
      BY <1>2, ResetArms, Zenon DEF AddTimerInLoop
  <2>2. ASSUME NEW e \in timers' PROVE Armed(e[1])'
    <3>1. e[1] \in Int /\ x <= e[1]
        BY <1>1, <1>2, EntryParts DEF IsEarliest, Types
    <3>2. Max2(x, wall + 1) <= Max2(e[1], wall + 1) /\ wall' = wall /\ wall + left' \in Int
        BY <2>1, <3>1, SMTT(30) DEF Types, Max2
    <3>3. Max2(x, wall + 1) \in Int /\ Max2(e[1], wall + 1) \in Int
        BY <3>1 DEF Types, Max2
    <3> QED
        BY <2>1, <3>2, <3>3 DEF Armed
  <2> QED
      BY <1>1, <2>1, <2>2, Zenon DEF Types
<1>3. CASE ~IsEarliest(x)
  <2>1. UNCHANGED <<left, readable>>
      BY <1>3 DEF AddTimerInLoop
  <2>2. PICK d \in timers : ~(x < d[1])
      BY <1>3 DEF IsEarliest
  <2>3. d[1] \in Int /\ d[1] <= x
      BY <2>2, EntryParts DEF Types
  <2>4. \A e \in timers : e[1] \in Int /\ e[1] <= e[1]
      BY EntryParts DEF Types
  <2>5. ASSUME NEW e \in timers' PROVE \E f \in timers : f[1] \in Int /\ f[1] <= e[1]
      BY <1>1, <2>3, <2>4
  <2>6. left' \in Nat /\ readable' \in BOOLEAN /\ timers' \in SUBSET Entries
      BY <1>1, <2>1 DEF Types
  <2> QED
      BY <2>1, <2>5, <2>6
<1> QED
    BY <1>2, <1>3

\* The part of the invariant that is about the clock and the timerfd, when
\* AddTimerInLoop is called between two rounds or by a callback.
LEMMA InsertInTime ==
    ASSUME IInv, NEW a \in Addresses, NEW x \in Int, AddTimerInLoop(a, x),
           UNCHANGED <<wall, stepped, at, now, reported>>
    PROVE  ArmedInCallbacks' /\ NeverSleepsPastDeadline'
<1>1. \A e \in timers' :
        \/ Armed(e[1])'
        \/ UNCHANGED <<left, readable>> /\ \E d \in timers : d[1] \in Int /\ d[1] <= e[1]
    BY InsertArms DEF IInv
<1>2. \A e \in timers' : e[1] \in Int
    BY EntryParts, InsertArms DEF IInv
<1>3. ASSUME NEW e \in timers', UNCHANGED <<left, readable>>, NEW d \in timers,
             d[1] \in Int, d[1] <= e[1], Armed(d[1])
      PROVE  Armed(e[1])'
  <2>1. Armed(e[1])
      BY <1>2, <1>3, ArmedLater DEF IInv
  <2> QED
      BY <1>3, <2>1 DEF Armed
<1>4. ArmedInCallbacks'
  <2> SUFFICES ASSUME at # "idle", NEW e \in timers', e[1] <= now PROVE Armed(e[1])'
      BY DEF ArmedInCallbacks
  <2>1. ASSUME NEW d \in timers, d[1] \in Int, d[1] <= e[1] PROVE Armed(d[1])
      BY <1>2, <2>1 DEF IInv, ArmedInCallbacks, Types
  <2> QED
      BY <1>1, <1>3, <2>1
<1>5. NeverSleepsPastDeadline'
  <2>1. ASSUME at = "idle", NEW e \in timers' PROVE reported \/ Armed(e[1])'
      BY <1>1, <1>3, <2>1, SleepsArmed DEF IInv
  <2>2. (at = "idle")' => \A e \in timers' : reported' \/ Armed(e[1])'
      BY <2>1, ZenonT(30)
  <2> QED
      BY <2>2 DEF NeverSleepsPastDeadline, Armed
<1> QED
    BY <1>4, <1>5

-----------------------------------------------------------------------------
(* The steps.                                                               *)

\* A step that leaves the Timers and the entries alone.
LEMMA MemoryKept ==
    ASSUME Memory, UNCHANGED <<heap, ids, queue, timers, expired, erased>>
    PROVE  Memory'
BY DEF Memory, RequestsNamed, LiveNumbered, AddsPending, AddsOnce, EntriesLive,
       CancelledStaysCancelled

\* A step that leaves the clock, the timerfd and the place in the loop alone, and adds
\* no entry.
LEMMA InTimeKept ==
    ASSUME ArmedInCallbacks, NeverSleepsPastDeadline, timers' \subseteq timers,
           UNCHANGED <<wall, stepped, left, readable, reported, at, now>>
    PROVE  ArmedInCallbacks' /\ NeverSleepsPastDeadline'
BY DEF ArmedInCallbacks, NeverSleepsPastDeadline, Armed

\* new Timer: memory that nothing points at, and a number that was never used.
LEMMA NewTimerFacts ==
    ASSUME IInv, NEW a \in Addresses, NEW x \in Int, NEW interval \in Nat,
           NewTimer(a, x, interval)
    PROVE  /\ ids' \in Seq(Addresses) /\ Len(ids') = Len(ids) + 1 /\ Len(ids) \in Nat
           /\ ids'[Len(ids) + 1] = a /\ \A s \in 1 .. Len(ids) : ids'[s] = ids[s]
           /\ heap' \in [Addresses -> Cell]
           /\ heap'[a].live /\ heap'[a].seq = Len(ids) + 1 /\ heap'[a].exp = x
           /\ \A b \in Addresses \ {a} : heap'[b] = heap[b]
           /\ \A e \in timers \cup expired : e[2] \in Addresses \ {a}
           /\ \A i \in 1 .. Len(queue) :
                 queue[i].op = "add" => ids[queue[i].seq] \in Addresses \ {a}
           /\ erased \in SUBSET (1 .. Len(ids')) /\ Len(ids) + 1 \notin erased
<1>1. ids \in Seq(Addresses) /\ ids' = Append(ids, a) /\ ~heap[a].live
    BY DEF NewTimer, IInv, Types
<1>2. /\ ids' \in Seq(Addresses) /\ Len(ids') = Len(ids) + 1 /\ Len(ids) \in Nat
      /\ ids'[Len(ids) + 1] = a /\ \A s \in 1 .. Len(ids) : ids'[s] = ids[s]
    BY <1>1
<1>3. /\ heap' \in [Addresses -> Cell]
      /\ heap'[a].live /\ heap'[a].seq = Len(ids) + 1 /\ heap'[a].exp = x
      /\ \A b \in Addresses \ {a} : heap'[b] = heap[b]
    BY <1>2, SMTT(30) DEF NewTimer, IInv, Types, Cell
<1>4. \A e \in timers \cup expired : e[2] \in Addresses \ {a}
    BY <1>1, EntryParts, Zenon DEF IInv, Types, Memory, EntriesLive
<1>5. \A i \in 1 .. Len(queue) :
        queue[i].op = "add" => ids[queue[i].seq] \in Addresses \ {a}
    BY <1>1, SMTT(30) DEF IInv, Memory, RequestsNamed, AddsPending
<1>6. erased \in SUBSET (1 .. Len(ids')) /\ Len(ids) + 1 \notin erased
    BY <1>2 DEF IInv, Types
<1> QED
    BY <1>2, <1>3, <1>4, <1>5, <1>6

\* A new Timer has no entry yet, and the Timers that have one stay as they are.
LEMMA NewTimerAlone ==
    ASSUME IInv, NEW a \in Addresses, NEW x \in Int, NEW interval \in Nat,
           NewTimer(a, x, interval)
    PROVE  /\ heap'[a].live /\ heap'[a].exp = x /\ heap'[a].seq \notin erased
           /\ \A e \in timers \cup expired : heap'[e[2]] = heap[e[2]] /\ e[2] # a
<1>1. heap'[a].live /\ heap'[a].exp = x /\ heap'[a].seq \notin erased
    BY NewTimerFacts, ZenonT(30)
<1>2. \A c \in Addresses \ {a} : heap'[c] = heap[c]
    BY NewTimerFacts, Zenon
<1>3. \A e \in timers \cup expired : e[2] \in Addresses \ {a}
    BY NewTimerFacts, Zenon
<1> QED
    BY <1>1, <1>2, <1>3, Zenon

\* A new Timer lives where its TimerId says.
LEMMA NewTimerNumbered ==
    ASSUME IInv, NEW a \in Addresses, NEW x \in Int, NEW interval \in Nat,
           NewTimer(a, x, interval)
    PROVE  LiveNumbered'
<1>1. \A n \in Nat : n + 1 \in 1 .. n + 1 /\ \A s \in 1 .. n : s \in 1 .. n + 1
    OBVIOUS
<1>2. Len(ids) \in Nat /\ Len(ids') = Len(ids) + 1
    BY NewTimerFacts, Zenon
<1> SUFFICES ASSUME NEW b \in Addresses, heap'[b].live
             PROVE  heap'[b].seq \in 1 .. Len(ids) + 1 /\ ids'[heap'[b].seq] = b
    BY <1>2, Zenon DEF LiveNumbered
<1>3. CASE b = a
  <2>1. heap'[a].seq = Len(ids) + 1 /\ ids'[Len(ids) + 1] = a
      BY NewTimerFacts, Zenon
  <2>2. Len(ids) + 1 \in 1 .. Len(ids) + 1
      BY <1>1, <1>2, Zenon
  <2> QED
      BY <1>3, <2>1, <2>2, Zenon
<1>4. CASE b # a
  <2>1. heap'[b] = heap[b]
    <3>1. \A c \in Addresses \ {a} : heap'[c] = heap[c]
        BY NewTimerFacts, Zenon
    <3> QED
        BY <1>4, <3>1, Zenon
  <2>2. heap[b].seq \in 1 .. Len(ids) /\ ids[heap[b].seq] = b
      BY <2>1, Zenon DEF IInv, Memory, LiveNumbered
  <2>3. ids'[heap[b].seq] = b
      BY <2>2, NewTimerFacts, Zenon
  <2> QED
      BY <1>1, <1>2, <2>1, <2>2, <2>3, Zenon
<1> QED
    BY <1>3, <1>4, Zenon

\* At most one entry more, for a Timer that has none and has not been cancelled.
LEMMA EntryAdded ==
    ASSUME EntriesLive, CancelledStaysCancelled, NEW a, NEW x,
           timers' \subseteq timers \cup {<<x, a>>}, expired' = expired, erased' = erased,
           \A e \in timers \cup expired : heap'[e[2]] = heap[e[2]] /\ e[2] # a,
           heap'[a].live, heap'[a].exp = x, heap'[a].seq \notin erased
    PROVE  EntriesLive' /\ CancelledStaysCancelled'
<1>1. <<x, a>>[1] = x /\ <<x, a>>[2] = a
    OBVIOUS
<1>2. ASSUME NEW e \in timers' \cup expired'
      PROVE  heap'[e[2]].live /\ heap'[e[2]].exp = e[1] /\ heap'[e[2]].seq \notin erased'
  <2>1. CASE e \in timers \cup expired
    <3>1. heap[e[2]].live /\ heap[e[2]].exp = e[1] /\ heap[e[2]].seq \notin erased
        BY <2>1, Zenon DEF EntriesLive, CancelledStaysCancelled
    <3>2. heap'[e[2]] = heap[e[2]]
        BY <2>1, Zenon
    <3> QED
        BY <3>1, <3>2, Zenon
  <2>2. CASE e = <<x, a>>
      BY <1>1, <2>2, Zenon
  <2> QED
      BY <2>1, <2>2, Zenon
<1>3. <<x, a>> \notin expired
    BY <1>1, Zenon
<1>4. timers' \cap expired' = {}
    BY <1>3, Zenon DEF EntriesLive
<1> QED
    BY <1>2, <1>4, Zenon DEF EntriesLive, CancelledStaysCancelled

\* AddTimer by another thread: the Timer is on its way.
LEMMA AddTimerIInv ==
    ASSUME IInv, NEW a \in Addresses, NEW x \in Int, NEW interval \in Nat,
           AddTimer(a, x, interval)
    PROVE  IInv'
<1> DEFINE r == [op |-> "add", seq |-> Len(ids) + 1]
<1>1. NewTimer(a, x, interval) /\ queue' = Append(queue, r)
    BY DEF AddTimer
<1>2. UNCHANGED <<wall, stepped, left, readable, reported, timers, at, now, expired, todo,
                  erased>>
    BY Zenon DEF AddTimer, clockVars, batchVars, historyVars
<1>3. r \in Request /\ queue \in Seq(Request)
    BY <1>1, NewTimerFacts DEF Request, IInv, Types
<1>4. /\ queue' \in Seq(Request) /\ Len(queue') = Len(queue) + 1 /\ Len(queue) \in Nat
      /\ queue'[Len(queue) + 1] = r /\ \A i \in 1 .. Len(queue) : queue'[i] = queue[i]
    BY <1>1, <1>3
<1>5. r.op = "add" /\ r.seq = Len(ids) + 1
    BY Zenon
<1> HIDE DEF r
<1>6. Types'
    BY <1>1, <1>2, <1>4, NewTimerFacts, Zenon DEF IInv, Types
<1>7. RequestsNamed' /\ LiveNumbered' /\ AddsOnce'
  <2>1. \A i \in 1 .. Len(queue) : queue[i].seq \in 1 .. Len(ids)
      BY Zenon DEF IInv, Memory, RequestsNamed
  <2>2. RequestsNamed'
    <3>1. ASSUME NEW i \in 1 .. Len(queue) + 1 PROVE queue'[i].seq \in 1 .. Len(ids) + 1
      <4>1. CASE i \in 1 .. Len(queue)
          BY <1>4, <2>1, <4>1, SMTT(30)
      <4>2. CASE i = Len(queue) + 1
          BY <1>1, <1>4, <1>5, <4>2, NewTimerFacts
      <4> QED
          BY <1>4, <4>1, <4>2
    <3> QED
        BY <1>1, <1>4, <3>1, NewTimerFacts, Zenon DEF RequestsNamed
  <2>3. LiveNumbered'
      BY <1>1, NewTimerNumbered, Zenon
  <2>4. AddsOnce'
    <3>1. Len(ids) \in Nat
        BY <1>1, NewTimerFacts, Zenon
    <3>2. ASSUME NEW k \in 1 .. Len(queue')
          PROVE  \/ /\ k \in 1 .. Len(queue) /\ queue'[k] = queue[k]
                    /\ queue'[k].seq # Len(ids) + 1
                 \/ k = Len(queue) + 1 /\ queue'[k].seq = Len(ids) + 1
      <4>1. k \in 1 .. Len(queue) \/ k = Len(queue) + 1
          BY <1>4
      <4>2. \A s \in 1 .. Len(ids) : s # Len(ids) + 1
          BY <3>1, SMTT(30)
      <4> QED
          BY <1>4, <1>5, <2>1, <4>1, <4>2, Zenon
    <3> QED
        BY <3>2, Zenon DEF IInv, Memory, AddsOnce
  <2> QED
      BY <2>2, <2>3, <2>4
<1>8. AddsPending'
  <2> SUFFICES ASSUME NEW i \in 1 .. Len(queue'), queue'[i].op = "add"
               PROVE  LET b == ids'[queue'[i].seq]
                      IN  /\ heap'[b].live /\ heap'[b].seq = queue'[i].seq
                          /\ queue'[i].seq \notin erased
                          /\ \A e \in timers \cup expired : e[2] # b
      BY <1>2, ZenonT(30) DEF AddsPending
  <2>1. CASE i \in 1 .. Len(queue)
    <3>1. queue'[i] = queue[i] /\ queue[i].op = "add" /\ queue[i].seq \in 1 .. Len(ids)
        BY <1>4, <2>1, Zenon DEF IInv, Memory, RequestsNamed
    <3>2. /\ ids'[queue[i].seq] = ids[queue[i].seq]
          /\ heap'[ids[queue[i].seq]] = heap[ids[queue[i].seq]]
        BY <1>1, <2>1, <3>1, NewTimerFacts, ZenonT(30)
    <3> QED
      <4>1. LET b == ids[queue[i].seq]
            IN  /\ heap[b].live /\ heap[b].seq = queue[i].seq
                /\ queue[i].seq \notin erased
                /\ \A e \in timers \cup expired : e[2] # b
          BY <2>1, <3>1, Zenon DEF IInv, Memory, AddsPending
      <4> QED
          BY <3>1, <3>2, <4>1, Zenon
  <2>2. CASE i = Len(queue) + 1
    <3>1. queue'[i].seq = Len(ids) + 1 /\ ids'[Len(ids) + 1] = a
        BY <1>1, <1>4, <1>5, <2>2, NewTimerFacts, Zenon
    <3>2. /\ heap'[a].live /\ heap'[a].seq = Len(ids) + 1 /\ Len(ids) + 1 \notin erased
          /\ \A e \in timers \cup expired : e[2] # a
        BY <1>1, NewTimerFacts, ZenonT(30)
    <3> QED
        BY <3>1, <3>2
  <2> QED
      BY <1>4, <2>1, <2>2, SMTT(30)
<1>9. EntriesLive' /\ CancelledStaysCancelled'
  <2>1. /\ heap'[a].live /\ heap'[a].exp = x /\ heap'[a].seq \notin erased
        /\ \A e \in timers \cup expired : heap'[e[2]] = heap[e[2]] /\ e[2] # a
      BY <1>1, NewTimerAlone, Zenon
  <2>2. timers' \subseteq timers \cup {<<x, a>>}
      BY <1>2, Zenon
  <2> QED
      BY <1>2, <2>1, <2>2, EntryAdded, Zenon DEF IInv, Memory
<1>10. ArmedInCallbacks' /\ NeverSleepsPastDeadline'
    BY <1>2, InTimeKept DEF IInv
<1> QED
    BY <1>6, <1>7, <1>8, <1>9, <1>10 DEF IInv, Memory

\* AddTimer on the loop thread: the Timer is filed at once.
LEMMA AddTimerOwnIInv ==
    ASSUME IInv, NEW a \in Addresses, NEW x \in Int, NEW interval \in Nat,
           AddTimerOwn(a, x, interval)
    PROVE  IInv'
<1>1. NewTimer(a, x, interval) /\ AddTimerInLoop(a, x)
    BY DEF AddTimerOwn
<1>2. UNCHANGED <<wall, stepped, reported, queue, at, now, expired, todo, erased>>
    BY DEF AddTimerOwn, clockVars, batchVars, historyVars
<1>3. timers' = timers \cup {<<x, a>>}
    BY <1>1 DEF AddTimerInLoop
<1>4. Types'
    BY <1>1, <1>2, NewTimerFacts, InsertArms, Zenon DEF IInv, Types
<1>5. RequestsNamed' /\ LiveNumbered' /\ AddsOnce'
  <2>1. Len(ids) \in Nat /\ Len(ids') = Len(ids) + 1
      BY <1>1, NewTimerFacts, Zenon
  <2>2. \A s \in 1 .. Len(ids) : s \in 1 .. Len(ids) + 1
      BY <2>1
  <2>3. RequestsNamed'
      BY <1>2, <2>1, <2>2, Zenon DEF IInv, Memory, RequestsNamed
  <2>4. LiveNumbered'
      BY <1>1, NewTimerNumbered, Zenon
  <2>5. AddsOnce'
      BY <1>2, Zenon DEF IInv, Memory, AddsOnce
  <2> QED
      BY <2>3, <2>4, <2>5, Zenon
<1>6. AddsPending'
  <2> SUFFICES ASSUME NEW i \in 1 .. Len(queue), queue[i].op = "add"
               PROVE  LET b == ids'[queue[i].seq]
                      IN  /\ heap'[b].live /\ heap'[b].seq = queue[i].seq
                          /\ queue[i].seq \notin erased
                          /\ \A e \in timers' \cup expired : e[2] # b
      BY <1>2, Zenon DEF AddsPending
  <2> DEFINE b == ids[queue[i].seq]
  <2>1. queue[i].seq \in 1 .. Len(ids)
      BY Zenon DEF IInv, Memory, RequestsNamed
  <2>2. /\ heap[b].live /\ heap[b].seq = queue[i].seq /\ queue[i].seq \notin erased
        /\ \A e \in timers \cup expired : e[2] # b
      BY Zenon DEF IInv, Memory, AddsPending
  <2>3. ids'[queue[i].seq] = b /\ b \in Addresses \ {a} /\ heap'[b] = heap[b]
      BY <1>1, <2>1, NewTimerFacts, ZenonT(30)
  <2>4. \A e \in timers' \cup expired : e[2] # b
      BY <1>3, <2>2, <2>3
  <2> QED
      BY <2>2, <2>3, <2>4, ZenonT(30)
<1>7. EntriesLive' /\ CancelledStaysCancelled'
  <2>1. /\ heap'[a].live /\ heap'[a].exp = x /\ heap'[a].seq \notin erased
        /\ \A e \in timers \cup expired : heap'[e[2]] = heap[e[2]] /\ e[2] # a
      BY <1>1, NewTimerAlone, Zenon
  <2>2. timers' \subseteq timers \cup {<<x, a>>}
      BY <1>3, Zenon
  <2> QED
      BY <1>2, <2>1, <2>2, EntryAdded, Zenon DEF IInv, Memory
<1>8. ArmedInCallbacks' /\ NeverSleepsPastDeadline'
    BY <1>1, <1>2, InsertInTime
<1> QED
    BY <1>4, <1>5, <1>6, <1>7, <1>8 DEF IInv, Memory

\* Cancel by another thread: a request that names a Timer that was created.
LEMMA CancelIInv ==
    ASSUME IInv, NEW s \in DOMAIN ids, Cancel(s)
    PROVE  IInv'
<1> DEFINE r == [op |-> "cancel", seq |-> s]
<1>1. queue' = Append(queue, r)
    BY DEF Cancel
<1>2. UNCHANGED <<wall, stepped, left, readable, reported, heap, ids, timers, at, now, expired,
                  todo, erased>>
    BY DEF Cancel, clockVars, batchVars
<1>3. s \in 1 .. Len(ids) /\ s \in Nat /\ queue \in Seq(Request)
    BY DEF IInv, Types
<1>4. r \in Request /\ r.op = "cancel" /\ r.seq = s
    BY <1>3 DEF Request
<1> HIDE DEF r
<1>5. /\ queue' \in Seq(Request) /\ Len(queue') = Len(queue) + 1 /\ Len(queue) \in Nat
      /\ queue'[Len(queue) + 1] = r /\ \A i \in 1 .. Len(queue) : queue'[i] = queue[i]
    BY <1>1, <1>3, <1>4, SMTT(30)
<1>6. Types'
    BY <1>2, <1>5 DEF IInv, Types
<1>7. RequestsNamed' /\ AddsOnce'
  <2>1. RequestsNamed'
      BY <1>2, <1>3, <1>4, <1>5, SMTT(30) DEF IInv, Memory, RequestsNamed
  <2>2. \A i \in 1 .. Len(queue') : queue'[i].op = "add" =>
            i \in 1 .. Len(queue) /\ queue'[i] = queue[i]
      BY <1>4, <1>5
  <2>3. AddsOnce'
      BY <2>2, ZenonT(30) DEF IInv, Memory, AddsOnce
  <2> QED
      BY <2>1, <2>3, SMTT(30)
<1>8. AddsPending' /\ LiveNumbered'
    BY <1>2, <1>4, <1>5, SMTT(30) DEF IInv, Memory, AddsPending, LiveNumbered
<1>9. EntriesLive' /\ CancelledStaysCancelled'
    BY <1>2 DEF IInv, Memory, EntriesLive, CancelledStaysCancelled
<1>10. ArmedInCallbacks' /\ NeverSleepsPastDeadline'
    BY <1>2, InTimeKept DEF IInv
<1> QED
    BY <1>6, <1>7, <1>8, <1>9, <1>10 DEF IInv, Memory

\* CancelTimerIdInLoop: the Timer it erases, if any, is the one that lives at the
\* address, and it is neither among the expired nor on its way.
LEMMA EraseFacts ==
    ASSUME IInv, NEW s \in 1 .. Len(ids), CancelTimerIdInLoop(s),
           UNCHANGED <<heap, ids, expired>>
    PROVE  /\ timers' \subseteq timers /\ erased' \in SUBSET (1 .. Len(ids))
           /\ EntriesLive' /\ CancelledStaysCancelled'
           /\ \A i \in 1 .. Len(queue) : queue[i].op = "add" => queue[i].seq \notin erased'
<1> DEFINE a == ids[s]
           entry == <<heap[a].exp, a>>
<1>1. a \in Addresses /\ entry[2] = a /\ timers' = timers \ {entry}
    BY DEF IInv, Types, CancelTimerIdInLoop
<1>2. EntriesLive'
    BY <1>1, ZenonT(30) DEF IInv, Memory, EntriesLive
<1>3. CASE entry \notin timers
  <2>1. erased' = erased
      BY <1>3, Zenon DEF CancelTimerIdInLoop
  <2> QED
      BY <1>1, <1>2, <2>1 DEF IInv, Types, Memory, CancelledStaysCancelled, AddsPending
<1>4. CASE entry \in timers
  <2>1. erased' = erased \cup {heap[a].seq}
      BY <1>4, SMTT(30) DEF CancelTimerIdInLoop
  <2>2. heap[a].live /\ heap[a].seq \in 1 .. Len(ids) /\ ids[heap[a].seq] = a
      BY <1>1, <1>4, SMTT(30) DEF IInv, Memory, EntriesLive, LiveNumbered
  <2>3. ASSUME NEW e \in timers' \cup expired PROVE heap[e[2]].seq # heap[a].seq
    <3>1. e \in timers \cup expired /\ e # entry /\ e \in Entries /\ e[2] \in Addresses
        BY <1>1, <1>4, EntryParts, Zenon DEF IInv, Types, Memory, EntriesLive
    <3>2. heap[e[2]].live /\ e = <<heap[e[2]].exp, e[2]>>
        BY <3>1, EntryParts DEF IInv, Memory, EntriesLive
    <3>3. e[2] # a
        BY <3>1, <3>2, SMTT(30)
    <3> QED
        BY <2>2, <3>1, <3>2, <3>3 DEF IInv, Memory, LiveNumbered
  <2>4. CancelledStaysCancelled'
      BY <1>1, <2>1, <2>3, SMTT(30) DEF IInv, Memory, CancelledStaysCancelled
  <2>5. ASSUME NEW i \in 1 .. Len(queue), queue[i].op = "add"
        PROVE  queue[i].seq \notin erased'
    <3>1. /\ heap[ids[queue[i].seq]].seq = queue[i].seq /\ queue[i].seq \notin erased
          /\ ids[queue[i].seq] # a
        BY <1>1, <1>4, <2>5, Zenon DEF IInv, Memory, AddsPending
    <3> QED
        BY <2>1, <2>2, <3>1, SMTT(30)
  <2> QED
      BY <1>1, <1>2, <2>1, <2>2, <2>4, <2>5, Zenon DEF IInv, Types
<1> QED
    BY <1>3, <1>4, SMTT(30)

\* Cancel on the loop thread.
LEMMA CancelOwnIInv ==
    ASSUME IInv, NEW s \in DOMAIN ids, CancelOwn(s)
    PROVE  IInv'
<1>1. CancelTimerIdInLoop(s)
    BY DEF CancelOwn
<1>2. UNCHANGED <<wall, stepped, left, readable, reported, heap, ids, queue, at, now, expired,
                  todo>>
    BY DEF CancelOwn, clockVars, batchVars
<1>3. s \in 1 .. Len(ids)
    BY DEF IInv, Types
<1>4. /\ timers' \subseteq timers /\ erased' \in SUBSET (1 .. Len(ids))
      /\ EntriesLive' /\ CancelledStaysCancelled'
      /\ \A i \in 1 .. Len(queue) : queue[i].op = "add" => queue[i].seq \notin erased'
    BY <1>1, <1>2, <1>3, EraseFacts, Zenon
<1>5. Types'
    BY <1>2, <1>4, Zenon DEF IInv, Types
<1>6. RequestsNamed' /\ AddsOnce' /\ LiveNumbered'
    BY <1>2, Zenon DEF IInv, Memory, RequestsNamed, AddsOnce, LiveNumbered
<1>7. AddsPending'
    BY <1>2, <1>4, Zenon DEF IInv, Memory, AddsPending
<1>8. ArmedInCallbacks' /\ NeverSleepsPastDeadline'
    BY <1>2, <1>4, InTimeKept DEF IInv
<1> QED
    BY <1>4, <1>5, <1>6, <1>7, <1>8 DEF IInv, Memory

\* The loop thread executes a request: a Timer that arrives is filed, one that is
\* cancelled is taken out.
LEMMA RunRequestIInv ==
    ASSUME IInv, RunRequest
    PROVE  IInv'
<1> DEFINE r == Head(queue)
<1>1. queue # <<>> /\ queue' = Tail(queue) /\ queue \in Seq(Request)
    BY DEF RunRequest, IInv, Types
<1>2. /\ r = queue[1] /\ r \in Request /\ Len(queue) \in Nat \ {0}
      /\ queue' \in Seq(Request) /\ Len(queue') = Len(queue) - 1
      /\ \A i \in 1 .. Len(queue') : queue'[i] = queue[i + 1] /\ i + 1 \in 1 .. Len(queue)
    BY <1>1, SMTT(30)
<1>3. UNCHANGED <<wall, stepped, reported, heap, ids, at, now, expired, todo>>
    BY Zenon DEF RunRequest, clockVars, batchVars
<1>4. 1 \in 1 .. Len(queue) /\ r.seq \in 1 .. Len(ids) /\ ids[r.seq] \in Addresses
    BY <1>2 DEF IInv, Types, Memory, RequestsNamed
<1>5. RequestsNamed' /\ LiveNumbered'
    BY <1>2, <1>3, Zenon DEF IInv, Memory, RequestsNamed, LiveNumbered
<1>6. AddsOnce'
  <2>1. ASSUME NEW i \in 1 .. Len(queue'), NEW j \in 1 .. Len(queue'),
               queue'[i].op = "add", queue'[j].op = "add", queue'[i].seq = queue'[j].seq
        PROVE  i = j
    <3>1. /\ queue'[i] = queue[i + 1] /\ i + 1 \in 1 .. Len(queue)
          /\ queue'[j] = queue[j + 1] /\ j + 1 \in 1 .. Len(queue)
        BY <1>2, Zenon
    <3>2. i + 1 = j + 1
        BY <2>1, <3>1, Zenon DEF IInv, Memory, AddsOnce
    <3> QED
        BY <3>2
  <2> QED
      BY <2>1, Zenon DEF AddsOnce
<1>7. CASE r.op = "cancel"
  <2>1. CancelTimerIdInLoop(r.seq) /\ UNCHANGED <<left, readable>>
      BY <1>7 DEF RunRequest
  <2>2. /\ timers' \subseteq timers /\ erased' \in SUBSET (1 .. Len(ids))
        /\ EntriesLive' /\ CancelledStaysCancelled'
        /\ \A i \in 1 .. Len(queue) : queue[i].op = "add" => queue[i].seq \notin erased'
      BY <1>3, <1>4, <2>1, EraseFacts, Zenon
  <2>3. Types'
      BY <1>2, <1>3, <2>1, <2>2, Zenon DEF IInv, Types
  <2>4. AddsPending'
    <3> SUFFICES ASSUME NEW i \in 1 .. Len(queue'), queue'[i].op = "add"
                 PROVE  LET b == ids[queue'[i].seq]
                        IN  /\ heap[b].live /\ heap[b].seq = queue'[i].seq
                            /\ queue'[i].seq \notin erased'
                            /\ \A e \in timers' \cup expired : e[2] # b
        BY <1>3, Zenon DEF AddsPending
    <3>1. PICK j \in 1 .. Len(queue) : queue'[i] = queue[j]
        BY <1>2, Zenon
    <3>2. queue[j].op = "add" /\ queue[j].seq \notin erased'
        BY <2>2, <3>1, Zenon
    <3>3. LET b == ids[queue[j].seq]
          IN  /\ heap[b].live /\ heap[b].seq = queue[j].seq
              /\ \A e \in timers \cup expired : e[2] # b
        BY <3>2, ZenonT(30) DEF IInv, Memory, AddsPending
    <3> QED
        BY <2>2, <3>1, <3>2, <3>3, Zenon
  <2>5. ArmedInCallbacks' /\ NeverSleepsPastDeadline'
      BY <1>3, <2>1, <2>2, InTimeKept DEF IInv
  <2> QED
      BY <1>5, <1>6, <2>2, <2>3, <2>4, <2>5, Zenon DEF IInv, Memory
<1>8. CASE r.op = "add"
  <2> DEFINE a == ids[r.seq]
             x == heap[a].exp
  <2>1. AddTimerInLoop(a, x) /\ UNCHANGED erased
      BY <1>8, SMTT(30) DEF RunRequest
  <2>2. /\ heap[a].live /\ heap[a].seq = r.seq /\ r.seq \notin erased
        /\ \A e \in timers \cup expired : e[2] # a
      BY <1>2, <1>4, <1>8, SMTT(30) DEF IInv, Memory, AddsPending
  <2>3. a \in Addresses /\ x \in Int /\ timers' = timers \cup {<<x, a>>}
      BY <1>4, <2>1, Zenon DEF IInv, Types, Cell, AddTimerInLoop
  <2>4. Types'
      BY <1>2, <1>3, <2>1, <2>3, InsertArms, Zenon DEF IInv, Types
  <2>5. EntriesLive' /\ CancelledStaysCancelled'
    <3>1. EntriesLive /\ CancelledStaysCancelled
        BY Zenon DEF IInv, Memory
    <3>2. /\ heap'[a].live /\ heap'[a].exp = x /\ heap'[a].seq \notin erased
          /\ \A e \in timers \cup expired : heap'[e[2]] = heap[e[2]] /\ e[2] # a
        BY <1>3, <2>2, Zenon
    <3>3. timers' \subseteq timers \cup {<<x, a>>} /\ expired' = expired /\ erased' = erased
        BY <1>3, <2>1, <2>3, ZenonT(30)
    <3> QED
        BY <3>1, <3>2, <3>3, EntryAdded, Zenon
  <2>6. AddsPending'
    <3> SUFFICES ASSUME NEW i \in 1 .. Len(queue'), queue'[i].op = "add"
                 PROVE  LET b == ids[queue'[i].seq]
                        IN  /\ heap[b].live /\ heap[b].seq = queue'[i].seq
                            /\ queue'[i].seq \notin erased
                            /\ \A e \in timers' \cup expired : e[2] # b
        BY <1>3, <2>1, Zenon DEF AddsPending
    <3>1. queue'[i] = queue[i + 1] /\ i + 1 \in 1 .. Len(queue) /\ i + 1 # 1
        BY <1>2, SMTT(30)
    <3>2. queue[i + 1].seq # r.seq
        BY <1>2, <1>4, <1>8, <3>1, Zenon DEF IInv, Memory, AddsOnce
    <3>3. LET b == ids[queue[i + 1].seq]
          IN  /\ heap[b].live /\ heap[b].seq = queue[i + 1].seq
              /\ queue[i + 1].seq \notin erased
              /\ \A e \in timers \cup expired : e[2] # b
        BY <3>1, Zenon DEF IInv, Memory, AddsPending
    <3>4. ids[queue[i + 1].seq] # a
        BY <2>2, <3>2, <3>3, ZenonT(30)
    <3> QED
      <4>1. ASSUME NEW e \in timers' \cup expired PROVE e[2] # ids[queue[i + 1].seq]
        <5>1. CASE e \in timers \cup expired
            BY <3>3, <5>1, Zenon
        <5>2. CASE e = <<x, a>>
          <6>1. e[2] = a
              BY <5>2
          <6> QED
              BY <3>4, <6>1, Zenon
        <5> QED
            BY <2>3, <5>1, <5>2, Zenon
      <4> QED
          BY <3>1, <3>3, <4>1, Zenon
  <2>7. ArmedInCallbacks' /\ NeverSleepsPastDeadline'
      BY <1>3, <2>1, <2>3, InsertInTime, Zenon
  <2> QED
      BY <1>5, <1>6, <2>4, <2>5, <2>6, <2>7, SMTT(30) DEF IInv, Memory
<1> QED
    BY <1>2, <1>7, <1>8, Zenon DEF Request

\* The poller reports the timerfd.
LEMMA PollIInv ==
    ASSUME IInv, Poll
    PROVE  IInv'
<1>1. UNCHANGED <<wall, stepped, left, readable, heap, ids, timers, queue, at, now, expired,
                  todo, erased>>
    BY DEF Poll, clockVars, batchVars, historyVars
<1>2. reported' = TRUE
    BY Zenon DEF Poll
<1>3. Types'
    BY <1>1, <1>2 DEF IInv, Types
<1>4. Memory'
    BY <1>1, MemoryKept, Zenon DEF IInv
<1>5. ArmedInCallbacks' /\ NeverSleepsPastDeadline'
    BY <1>1, <1>2 DEF IInv, ArmedInCallbacks, NeverSleepsPastDeadline, Armed
<1> QED
    BY <1>3, <1>4, <1>5 DEF IInv

\* HandleRead takes what has expired: nothing that is left is earlier than now.
LEMMA HandleReadIInv ==
    ASSUME IInv, HandleRead
    PROVE  IInv'
<1>1. UNCHANGED <<wall, stepped, left, heap, ids, queue, erased>>
    BY DEF HandleRead, clockVars, historyVars
<1>2. /\ at' = "calling" /\ now' = wall /\ readable' = FALSE /\ reported' = FALSE
      /\ expired' = {e \in timers : e[1] <= wall} /\ todo' = expired'
      /\ timers' = timers \ expired'
    BY DEF HandleRead
<1>3. timers' \subseteq timers /\ expired' \subseteq timers /\ timers' \cap expired' = {}
    BY <1>2, Zenon
<1>4. Types'
  <2>1. timers' \in SUBSET Entries /\ expired' \in SUBSET Entries /\ todo' \in SUBSET Entries
      BY <1>2, <1>3 DEF IInv, Types
  <2>2. /\ readable' \in BOOLEAN /\ reported' \in BOOLEAN /\ now' \in Nat /\ now' > 0
        /\ at' \in {"idle", "calling", "callback"}
    <3>1. wall \in Nat /\ wall > 0
        BY SMTT(30) DEF IInv, Types
    <3> QED
        BY <3>1, Zenon DEF HandleRead
  <2> QED
      BY <1>1, <2>1, <2>2, Zenon DEF IInv, Types
<1>5. RequestsNamed' /\ LiveNumbered' /\ AddsOnce' /\ AddsPending'
    BY <1>1, <1>3, ZenonT(30) DEF IInv, Memory, RequestsNamed, LiveNumbered, AddsOnce, AddsPending
<1>6. EntriesLive' /\ CancelledStaysCancelled'
    BY <1>1, <1>3 DEF IInv, Memory, EntriesLive, CancelledStaysCancelled
<1>7. ArmedInCallbacks' /\ NeverSleepsPastDeadline'
    BY <1>2 DEF ArmedInCallbacks, NeverSleepsPastDeadline
<1> QED
    BY <1>4, <1>5, <1>6, <1>7 DEF IInv, Memory

\* A callback is called, and returns.
LEMMA CallbackIInv ==
    ASSUME IInv, RunTimer \/ CallbackReturns
    PROVE  IInv'
<1>1. UNCHANGED <<wall, stepped, left, readable, reported, heap, ids, timers, queue, now,
                  expired, erased>>
    BY Zenon DEF RunTimer, CallbackReturns, clockVars, historyVars
<1>2. at # "idle" /\ at' \in {"calling", "callback"} /\ todo' \subseteq todo
    BY Zenon DEF RunTimer, CallbackReturns
<1>3. Types'
    BY <1>1, <1>2 DEF IInv, Types
<1>4. Memory'
    BY <1>1, MemoryKept DEF IInv
<1>5. ArmedInCallbacks' /\ NeverSleepsPastDeadline'
    BY <1>1, <1>2, Zenon DEF IInv, ArmedInCallbacks, NeverSleepsPastDeadline, Armed
<1> QED
    BY <1>3, <1>4, <1>5, Zenon DEF IInv

\* Reset, memory: a Timer that is filed or on its way is left alone, one that repeats
\* keeps its number, and the entries afterwards are those of Timers that had one.
LEMMA ResetMemory ==
    ASSUME IInv, Reset
    PROVE  /\ heap' \in [Addresses -> Cell] /\ timers' \in SUBSET Entries
           /\ \A a \in Addresses : heap'[a].live => heap[a].live /\ heap'[a].seq = heap[a].seq
           /\ \A a \in Addresses :
                 (\A e \in timers \cup expired : e[2] # a) =>
                     heap'[a] = heap[a] /\ \A e \in timers' : e[2] # a
           /\ \A e \in timers' :
                 /\ heap'[e[2]].live /\ heap'[e[2]].exp = e[1]
                 /\ heap'[e[2]].seq \notin erased
                 /\ e \in timers \/ e[1] > 0
<1> USE DEF IInv, Types, Memory
<1>1. /\ heap' = [a \in Addresses |->
                    IF \E e \in expired : e[2] = a
                    THEN IF heap[a].interval > 0 THEN Restart(heap[a]) ELSE Freed
                    ELSE heap[a]]
      /\ timers' = timers \cup {<<Restart(heap[e[2]]).exp, e[2]>> : e \in Repeating}
      /\ now \in Nat /\ now > 0
    BY Zenon DEF Reset
<1>2. ASSUME NEW a \in Addresses
      PROVE  /\ heap[a] \in Cell /\ Restart(heap[a]) \in Cell
             /\ Restart(heap[a]).exp = now + heap[a].interval
             /\ Restart(heap[a]).live = heap[a].live /\ Restart(heap[a]).seq = heap[a].seq
  <2>1. heap[a] \in Cell
      BY ZenonT(30)
  <2>2. now + heap[a].interval \in Int
      BY <1>1, <2>1 DEF Cell
  <2> HIDE DEF IInv, Types, Memory
  <2>3. Restart(heap[a]) \in Cell
      BY <2>1, <2>2 DEF Cell, Restart
  <2>4. /\ Restart(heap[a]).exp = now + heap[a].interval
        /\ Restart(heap[a]).live = heap[a].live /\ Restart(heap[a]).seq = heap[a].seq
      BY <2>1, ZenonT(30) DEF Cell, Restart
  <2> QED
      BY <2>1, <2>3, <2>4
<1>3. heap' \in [Addresses -> Cell]
    BY <1>1, <1>2, SMTT(30) DEF Freed, Cell
<1>4. \A a \in Addresses : heap'[a].live => heap[a].live /\ heap'[a].seq = heap[a].seq
    BY <1>1, <1>2, Zenon DEF Freed
<1>5. ASSUME NEW e \in timers
      PROVE  e[2] \in Addresses /\ heap'[e[2]] = heap[e[2]]
  <2>1. e[2] \in Addresses
      BY EntryParts, Zenon
  <2>2. ASSUME NEW d \in expired, d[2] = e[2] PROVE FALSE
    <3>1. d[1] = e[1]
        BY <2>2 DEF EntriesLive
    <3>2. d = e
        BY <2>2, <3>1, EntryParts, Zenon
    <3> QED
        BY <3>2, Zenon DEF EntriesLive
  <2> QED
      BY <1>1, <2>1, <2>2, Zenon
<1>6. ASSUME NEW e \in timers', e \notin timers
      PROVE  \E d \in Repeating : e = <<now + heap[d[2]].interval, d[2]>> /\ d[2] \in Addresses
  <2>1. PICK d \in Repeating : e = <<Restart(heap[d[2]]).exp, d[2]>>
      BY <1>1, <1>6
  <2>2. d[2] \in Addresses
      BY EntryParts, Zenon DEF Repeating
  <2> QED
      BY <1>2, <2>1, <2>2, ZenonT(30)
<1>7. ASSUME NEW e \in timers'
      PROVE  /\ e \in Entries /\ heap'[e[2]].live /\ heap'[e[2]].exp = e[1]
             /\ heap'[e[2]].seq \notin erased
             /\ e \in timers \/ e[1] > 0
             /\ \E d \in timers \cup expired : e[2] = d[2]
  <2>1. CASE e \in timers
      BY <1>5, <2>1, Zenon DEF EntriesLive, CancelledStaysCancelled
  <2>2. CASE e \notin timers
    <3>1. PICK d \in Repeating : e = <<now + heap[d[2]].interval, d[2]>> /\ d[2] \in Addresses
        BY <1>6, <2>2
    <3>2. d \in expired /\ heap[d[2]].interval > 0 /\ heap[d[2]].interval \in Nat
        BY <1>2, <3>1, Zenon DEF Repeating, Cell
    <3>3. heap'[d[2]] = Restart(heap[d[2]])
        BY <1>1, <3>1, <3>2, Zenon
    <3>4. heap[d[2]].live /\ heap[d[2]].seq \notin erased
        BY <3>2, ZenonT(30) DEF EntriesLive, CancelledStaysCancelled
    <3>5. e[1] = now + heap[d[2]].interval /\ e[2] = d[2] /\ e \in Entries /\ e[1] > 0
      <4>1. now + heap[d[2]].interval \in Int /\ now + heap[d[2]].interval > 0
        <5>1. now \in Nat /\ now > 0 /\ heap[d[2]].interval \in Nat
            BY <1>1, <3>2, Zenon
        <5> QED
            BY ONLY <5>1
      <4>2. e[1] = now + heap[d[2]].interval /\ e[2] = d[2]
          BY <3>1
      <4> QED
          BY <3>1, <4>1, <4>2, ZenonT(30) DEF Entries
    <3> QED
        BY <1>2, <3>1, <3>2, <3>3, <3>4, <3>5, ZenonT(30)
  <2> QED
      BY <2>1, <2>2, Zenon
<1>8. ASSUME NEW a \in Addresses, \A e \in timers \cup expired : e[2] # a
      PROVE  heap'[a] = heap[a] /\ \A e \in timers' : e[2] # a
    BY <1>1, <1>7, <1>8, SMTT(30)
<1> QED
    BY <1>3, <1>4, <1>7, <1>8, Zenon

\* Reset, time: the timerfd is armed for the first entry, or was armed already for one
\* that a callback has added for time 0.
LEMMA ResetInTime ==
    ASSUME IInv, Reset
    PROVE  left' \in Nat /\ readable' \in BOOLEAN /\ NeverSleepsPastDeadline'
<1> USE DEF IInv, Types
<1>1. UNCHANGED <<wall, stepped, reported>> /\ RearmEarliest /\ at = "calling" /\ now > 0
    BY Zenon DEF Reset, clockVars
<1>2. CASE timers' = {} /\ UNCHANGED <<left, readable>>
    BY <1>2 DEF NeverSleepsPastDeadline
<1>3. ASSUME NEW f \in timers', IsFirst(f, timers'),
             IF heap'[f[2]].exp = 0 THEN UNCHANGED <<left, readable>>
                                    ELSE ResetTimerfd(heap'[f[2]].exp)
      PROVE  left' \in Nat /\ readable' \in BOOLEAN /\ NeverSleepsPastDeadline'
  <2>1. \A e \in timers' : e[1] \in Int /\ f[1] \in Int /\ f[1] <= e[1]
    <3>1. timers' \in SUBSET Entries
        BY ResetMemory, Zenon
    <3>2. ASSUME NEW e \in timers' PROVE e[1] \in Int /\ f[1] \in Int /\ f[1] <= e[1]
      <4>1. e[1] \in Int /\ f[1] \in Int
          BY <1>3, <3>1, EntryParts, Zenon
      <4>2. e = f \/ Before(f, e)
          BY <1>3, Zenon DEF IsFirst
      <4> QED
          BY <4>1, <4>2 DEF Before
    <3> QED
        BY <3>2, Zenon
  <2>2. heap'[f[2]].exp = f[1] /\ (f \in timers \/ f[1] > 0)
      BY <1>3, ResetMemory, Zenon
  <2>3. CASE f[1] = 0
    <3>1. UNCHANGED <<left, readable>> /\ f \in timers
        BY <1>3, <2>2, <2>3
    <3>2. Armed(0)
        BY <1>1, <2>3, <3>1 DEF ArmedInCallbacks
    <3>3. ASSUME NEW e \in timers' PROVE Armed(e[1])
        BY <2>1, <2>3, <3>2, ArmedLater, Zenon
    <3> QED
        BY <1>1, <3>1, <3>3, Zenon DEF NeverSleepsPastDeadline, Armed
  <2>4. CASE f[1] # 0
    <3>1. left' \in Nat \ {0} /\ readable' = FALSE /\ Armed(f[1])'
        BY <1>1, <1>3, <2>1, <2>2, <2>4, ResetArms, Zenon
    <3>2. ASSUME NEW e \in timers' PROVE Armed(e[1])'
      <4>1. /\ Max2(f[1], wall + 1) <= Max2(e[1], wall + 1) /\ wall + left' \in Int
            /\ Max2(f[1], wall + 1) \in Int /\ Max2(e[1], wall + 1) \in Int
          BY <2>1, <3>1, SMTT(30) DEF Max2
      <4> QED
          BY <1>1, <3>1, <4>1, SMTT(30) DEF Armed
    <3> QED
        BY <3>1, <3>2, Zenon DEF NeverSleepsPastDeadline, Armed
  <2> QED
      BY <2>1, <2>3, <2>4, ZenonT(30)
<1> QED
    BY <1>1, <1>2, <1>3, Zenon DEF RearmEarliest

\* Reset restarts the repeating timers and arms the timerfd.
LEMMA ResetIInv ==
    ASSUME IInv, Reset
    PROVE  IInv'
<1>1. /\ UNCHANGED <<wall, stepped, reported, ids, queue, todo, erased>>
      /\ at' = "idle" /\ now' = 0 /\ expired' = {}
    BY Zenon DEF Reset, clockVars, historyVars
<1>2. Types'
    BY <1>1, ResetMemory, ResetInTime, Zenon DEF IInv, Types
<1>3. RequestsNamed' /\ AddsOnce'
    BY <1>1, Zenon DEF IInv, Memory, RequestsNamed, AddsOnce
<1>4. LiveNumbered'
    BY <1>1, ResetMemory, ZenonT(30) DEF IInv, Memory, LiveNumbered
<1>5. AddsPending'
  <2> SUFFICES ASSUME NEW i \in 1 .. Len(queue), queue[i].op = "add"
               PROVE  LET a == ids[queue[i].seq]
                      IN  /\ heap'[a].live /\ heap'[a].seq = queue[i].seq
                          /\ queue[i].seq \notin erased
                          /\ \A e \in timers' : e[2] # a
      BY <1>1, Zenon DEF AddsPending
  <2>1. ids[queue[i].seq] \in Addresses
      BY SMTT(30) DEF IInv, Types, Memory, RequestsNamed
  <2>2. LET a == ids[queue[i].seq]
        IN  /\ heap[a].live /\ heap[a].seq = queue[i].seq
            /\ queue[i].seq \notin erased
            /\ \A e \in timers \cup expired : e[2] # a
      BY ZenonT(30) DEF IInv, Memory, AddsPending
  <2> QED
      BY <2>1, <2>2, ResetMemory, Zenon
<1>6. EntriesLive' /\ CancelledStaysCancelled'
    BY <1>1, ResetMemory DEF EntriesLive, CancelledStaysCancelled
<1>7. ArmedInCallbacks' /\ NeverSleepsPastDeadline'
    BY <1>1, ResetInTime DEF ArmedInCallbacks
<1> QED
    BY <1>2, <1>3, <1>4, <1>5, <1>6, <1>7 DEF IInv, Memory

\* Time passes: the timerfd comes as much closer as the wall clock does.
LEMMA TickIInv ==
    ASSUME IInv, Tick
    PROVE  IInv'
<1>1. /\ UNCHANGED <<stepped, reported, heap, ids, timers, queue, at, now, expired, todo,
                     erased>>
      /\ wall \in Nat \ {0} /\ left \in Nat
      /\ wall' \in {wall, wall + 1}
      /\ left' = Max2(left - 1, 0) /\ readable' = (readable \/ left = 1)
    BY DEF IInv, Types, Tick, batchVars, historyVars
<1>2. left' \in Nat /\ (left > 1 => left' = left - 1 /\ left' > 0)
    BY <1>1, SMTT(30) DEF Max2
<1>3. Types'
    BY <1>1, <1>2 DEF IInv, Types
<1>4. Memory'
    BY <1>1, MemoryKept DEF IInv
<1>5. ASSUME NEW x \in Int, Armed(x)
      PROVE  Armed(x)'
  <2>1. CASE readable \/ left = 1
      BY <1>1, <2>1, Zenon DEF Armed
  <2>2. CASE ~readable /\ left # 1
    <3>1. left > 1 /\ (stepped \/ wall + left <= Max2(x, wall + 1))
        BY <1>1, <1>5, <2>2 DEF Armed
    <3>2. wall' + left' <= wall + left
        BY <1>1, <1>2, <3>1
    <3>3. wall + left <= Max2(x, wall + 1) => wall' + left' <= Max2(x, wall' + 1)
      <4>1. left' = left - 1 /\ wall \in Nat /\ left \in Nat /\ left > 1
          BY <1>1, <1>2, <3>1
      <4>2. CASE wall' = wall
          BY <4>1, <4>2 DEF Max2
      <4>3. CASE wall' = wall + 1
          BY <4>1, <4>3 DEF Max2
      <4> QED
          BY <1>1, <4>2, <4>3, Zenon
    <3> QED
        BY <1>1, <1>2, <3>1, <3>3, Zenon DEF Armed
  <2> QED
      BY <2>1, <2>2, Zenon
<1>6. \A e \in timers : e[1] \in Int
    BY EntryParts, Zenon DEF IInv, Types
<1>7. ArmedInCallbacks'
    BY <1>1, <1>5, <1>6 DEF IInv, ArmedInCallbacks
<1>8. NeverSleepsPastDeadline'
    BY <1>1, <1>5, <1>6, Zenon DEF IInv, NeverSleepsPastDeadline, Armed
<1> QED
    BY <1>3, <1>4, <1>7, <1>8, Zenon DEF IInv

\* The wall clock is set: the timerfd keeps counting.
LEMMA StepClockIInv ==
    ASSUME IInv, StepClock
    PROVE  IInv'
<1>1. /\ UNCHANGED <<left, readable, reported, heap, ids, timers, queue, at, now, expired,
                     todo, erased>>
      /\ stepped' = TRUE /\ wall' \in 1 .. MaxTime
    BY Zenon DEF StepClock, batchVars, historyVars
<1>2. Types'
    BY <1>1, TimerAssumption DEF IInv, Types
<1>3. Memory'
    BY <1>1, MemoryKept, Zenon DEF IInv
<1>4. ArmedInCallbacks' /\ NeverSleepsPastDeadline'
    BY <1>1 DEF IInv, ArmedInCallbacks, NeverSleepsPastDeadline, Armed
<1> QED
    BY <1>2, <1>3, <1>4 DEF IInv

-----------------------------------------------------------------------------
\* There is no timer.
LEMMA InitIInv == Init => IInv
<1> SUFFICES ASSUME Init PROVE IInv
    BY Zenon
<1>1. Types
  <2>1. Freed \in Cell
      BY DEF Freed, Cell
  <2>2. heap \in [Addresses -> Cell]
      BY <2>1 DEF Init
  <2>3. ids \in Seq(Addresses) /\ queue \in Seq(Request) /\ erased \in SUBSET (1 .. Len(ids))
      BY DEF Init
  <2>4. /\ timers \in SUBSET Entries /\ expired \in SUBSET Entries /\ todo \in SUBSET Entries
        /\ stepped \in BOOLEAN /\ readable \in BOOLEAN /\ reported \in BOOLEAN
      BY Zenon DEF Init
  <2>5. /\ wall \in Nat \ {0} /\ left \in Nat /\ now \in Nat /\ at = "idle"
      BY SMTT(30) DEF Init
  <2> QED
      BY <2>2, <2>3, <2>4, <2>5, Zenon DEF Types
<1>2. Memory
    BY DEF Init, Memory, RequestsNamed, LiveNumbered, AddsPending, AddsOnce, EntriesLive,
           CancelledStaysCancelled, Freed
<1> QED
    BY <1>1, <1>2 DEF Init, IInv, ArmedInCallbacks, NeverSleepsPastDeadline

\* The invariant is inductive.
LEMMA NextIInv == IInv /\ [Next]_vars => IInv'
<1> SUFFICES ASSUME IInv, [Next]_vars PROVE IInv'
    OBVIOUS
<1>1. CASE LoopStep
    BY <1>1, RunRequestIInv, PollIInv, HandleReadIInv, CallbackIInv, ResetIInv, Zenon DEF LoopStep
<1>2. CASE Add
  <2>1. PICK a \in Addresses, d \in Delays, interval \in Intervals :
            AddTimer(a, wall + d, interval) \/ AddTimerOwn(a, wall + d, interval)
      BY <1>2, Zenon DEF Add
  <2>2. wall + d \in Int /\ interval \in Nat
      BY TimerAssumption DEF IInv, Types
  <2> QED
      BY <2>1, <2>2, AddTimerIInv, AddTimerOwnIInv, Zenon
<1>3. CASE CancelSome
  <2>1. PICK s \in DOMAIN ids : Cancel(s) \/ CancelOwn(s)
      BY <1>3 DEF CancelSome
  <2>2. s \in 1 .. Len(ids)
      BY DEF IInv, Types
  <2> QED
      BY <2>1, <2>2, CancelIInv, CancelOwnIInv
<1>4. CASE Over \/ UNCHANGED vars
  <2>1. UNCHANGED vars
      BY <1>4, Zenon DEF Over
  <2>2. Types' /\ Memory'
      BY <2>1, MemoryKept, ZenonT(30) DEF IInv, Types, vars
  <2>3. ArmedInCallbacks' /\ NeverSleepsPastDeadline'
      BY <2>1 DEF IInv, ArmedInCallbacks, NeverSleepsPastDeadline, Armed, vars
  <2> QED
      BY <2>2, <2>3 DEF IInv
<1> QED
    BY <1>1, <1>2, <1>3, <1>4, TickIInv, StepClockIInv DEF Next

\* The inductive invariant holds in every state the timer queue reaches.
THEOREM TimerQueueInvariance == Spec => []IInv
BY InitIInv, NextIInv, PTL DEF Spec

\* No entry of timers_ or of HandleRead's batch points at a deleted Timer, and each is
\* filed under its Timer's expiration, whatever is added, cancelled and fired by
\* whichever thread and however often memory is reused.
THEOREM NoDanglingEntry == Spec => []EntriesLive
<1>1. IInv => EntriesLive
    BY DEF IInv, Memory
<1> QED
    BY <1>1, TimerQueueInvariance, PTL

\* The loop thread never sleeps past the earliest expiration: AddTimerInLoop, Reset and
\* the passing of time keep the timerfd armed early enough for every entry.
THEOREM TimerfdInTime == Spec => []NeverSleepsPastDeadline
<1>1. IInv => NeverSleepsPastDeadline
    BY DEF IInv
<1> QED
    BY <1>1, TimerQueueInvariance, PTL

\* A timer that CancelTimerIdInLoop has erased is in no batch and in no set again.
THEOREM ErasedNeverReturns == Spec => []CancelledStaysCancelled
<1>1. IInv => CancelledStaysCancelled
    BY DEF IInv, Memory
<1> QED
    BY <1>1, TimerQueueInvariance, PTL
=============================================================================
