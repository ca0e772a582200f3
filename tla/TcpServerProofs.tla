--------------------------- MODULE TcpServerProofs ---------------------------
(***************************************************************************)
(* The safety properties of TcpServer over Poller, proved for any number   *)
(* of loop threads, connections and descriptors, and any number of failed  *)
(* accepts and of closes by other threads.                                 *)
(***************************************************************************)
EXTENDS TcpServer, TLAPS

Stages == {"none", "new", "built", "loop", "events", "functors", "exit", "destroy", "gone"}
Closings == [conn : Conns \cup {None}, delete : BOOLEAN]
Threads ==
    [stage : Stages, ptr : BOOLEAN, latch : Int, quit : BOOLEAN, wake : BOOLEAN,
     active : Seq(Conns), pending : Seq(Functors), batch : Seq(Functors),
     held : SUBSET Conns, closing : Closings]
Connections ==
    [loop : Loops \cup {None}, sockfd : Fds \cup {None}, readcb : BOOLEAN,
     msg : {"none", "wire", "input", "offered"}, eof : BOOLEAN]
Ats == {"bind", "bound", "start", "wait", "serve", "set", "close", "unlisten", "join"}

\* The state's types in full.
Types ==
    /\ file \in [Fds -> Conns \cup {None, Leaked, Listener}]
    /\ interest \in [Loops -> [Fds -> Conns \cup {None}]]
    /\ channels \in [Loops -> [Fds -> Conns \cup {None}]]
    /\ chfd \in [Conns -> Fds \cup {-1, None}]
    /\ aborted \in BOOLEAN /\ wild \in BOOLEAN /\ early \in BOOLEAN
    /\ at \in Ats /\ listen \in Fds \cup {None}
    /\ pool \in [numThreads : Nat, loops : Seq(Loops), next : Nat]
    /\ conns \subseteq Conns /\ doomed \subseteq Conns
    /\ thread \in [Loops -> Threads] /\ conn \in [Conns -> Connections]

\* Until it is counted a thread's latch is up; one that the pool has is past that, and
\* none returns from Loop() before the pool is destroyed.
Life(l) ==
    /\ l > Len(pool.loops) /\ (at = "wait" => l > Len(pool.loops) + 1) =>
          thread[l].stage = "none"
    /\ l <= Len(pool.loops) => thread[l].stage \notin {"none", "new"}
    /\ thread[l].stage \in {"none", "new", "built"} => thread[l].latch = 1
    /\ thread[l].stage \in {"built", "loop", "events", "functors"} => thread[l].ptr
    /\ thread[l].stage \in {"built", "loop", "events", "functors", "exit"} => thread[l].wake
    /\ thread[l].stage \in {"exit", "destroy", "gone"} => thread[l].quit
    /\ thread[l].quit => at = "join"

\* The pool starts the threads in turn, and only a loop's destructor aborts.
Starting ==
    /\ \A i \in 1 .. Len(pool.loops) : pool.loops[i] = i
    /\ pool.next = 0 \/ pool.next < pool.numThreads
    /\ 1 .. pool.numThreads \subseteq Loops
    /\ at \in {"bind", "bound"} => Len(pool.loops) = 0 /\ pool.next = 0
    /\ at \in {"start", "wait"} => Len(pool.loops) < pool.numThreads /\ pool.next = 0
    /\ at \notin {"bind", "bound", "start", "wait"} => Len(pool.loops) = pool.numThreads
    /\ \A l \in Loops : Life(l)
    /\ AssertionsHold

\* A connection is as it was made until it is accepted; a channel belongs to one that
\* was attached.
Accepted ==
    \A k \in Conns :
        /\ k \notin conns => conn[k] = Conn
        /\ Waiting(k) => conn[k].sockfd \in Fds
        /\ chfd[k] # None => conn[k].loop # None

\* The requests that a loop has, in the order it will run them.
Requests(l) == thread[l].batch \o thread[l].pending

\* A request to attach is for a connection that waits for it, and a request to close one
\* is on its own loop.
Fit(l, r) ==
    /\ r.op = "attach" => Waiting(r.conn)
    /\ r.op = "close" => conn[r.conn].loop = l

Fitting == \A l \in Loops : \A i \in 1 .. Len(Requests(l)) : Fit(l, Requests(l)[i])

\* No connection is attached twice.
AttachOnce ==
    \A l, m \in Loops : \A i \in 1 .. Len(Requests(l)), j \in 1 .. Len(Requests(m)) :
        /\ Requests(l)[i].op = "attach" /\ Requests(m)[j].op = "attach"
        /\ Requests(l)[i].conn = Requests(m)[j].conn
        => l = m /\ i = j

\* No connection waits once ~TcpServer has come past it.
NoneLeft ==
    at \in {"close", "unlisten", "join"} /\ ~wild =>
        \A k \in conns : conn[k].loop = None => at = "close" /\ k \in doomed

Batches == \A l \in Loops : thread[l].stage # "functors" => thread[l].batch = <<>>

Queued == Batches /\ Fitting /\ AttachOnce /\ NoneLeft

\* A poller's map has the channels of its loop, the one that is being closed included;
\* the kernel knows no others, and not that one.
Agree(k, f, l) == channels[l][f] = k <=> chfd[k] = f /\ conn[k].loop = l
Known(f, l) == interest[l][f] = channels[l][f] \/ interest[l][f] = None
Closed(l) ==
    LET k == thread[l].closing.conn
    IN  /\ k = None => thread[l].closing = Nothing
        /\ k # None => conn[k].loop = l /\ chfd[k] \in Fds /\ interest[l][chfd[k]] = None

Mapped ==
    /\ \A k \in Conns, f \in Fds, l \in Loops : Agree(k, f, l)
    /\ \A f \in Fds, l \in Loops : Known(f, l)
    /\ \A l \in Loops : Closed(l)

\* The channels of a round are live ones of the loop, each once.
Active ==
    \A l \in Loops :
        /\ \A i \in 1 .. Len(thread[l].active) :
              LET k == thread[l].active[i]
              IN  /\ chfd[k] # None /\ conn[k].loop = l
                  /\ thread[l].closing # [conn |-> k, delete |-> TRUE]
        /\ \A i, j \in 1 .. Len(thread[l].active) :
              thread[l].active[i] = thread[l].active[j] => i = j

\* Until the pool is destroyed: who has a descriptor, and what epoll knows.
Closing(k) == \E l \in Loops : thread[l].closing.conn = k

Owner(k, f) ==
    file[f] = k <=> \/ Waiting(k) /\ conn[k].sockfd = f
                    \/ chfd[k] = f /\ ~Closing(k)
Watched(k, f, l) == channels[l][f] = k /\ ~Closing(k) => interest[l][f] = k
Listening == at # "unlisten" /\ listen # None => file[listen] = Listener

Table ==
    at # "join" =>
        /\ \A k \in Conns, f \in Fds : Owner(k, f)
        /\ \A k \in Conns, f \in Fds, l \in Loops : Watched(k, f, l)
        /\ Listening

\* With createcb_: the read callback is there from the start until CleanUp.
Callbacks ==
    early =>
        /\ \A k \in Conns :
              /\ Waiting(k) => conn[k].readcb
              /\ chfd[k] # None /\ ~(\E l \in Loops : thread[l].closing = [conn |-> k, delete |-> TRUE])
                    => conn[k].readcb
              /\ conn[k].msg # "input"

IInv ==
    Types /\ Starting /\ Accepted /\ Queued /\ Mapped /\ Active /\ Table /\ Callbacks

-----------------------------------------------------------------------------
(* Sequences and sets.                                                      *)

\* No descriptor, loop, connection, or owner of a descriptor is mistaken for another.
LEMMA Distinct ==
    /\ None # -1 /\ \A f \in Fds : f # None /\ f # -1
    /\ \A l \in Loops : l # None
    /\ \A k \in Conns : k # None /\ k # Leaked /\ k # Listener
BY PollerAssumption, ServerAssumption

\* What a thread, a loop and the pool start from.
LEMMA Empties ==
    /\ 0 \in Nat /\ 1 \in Int
    /\ <<>> \in Seq(Conns) /\ <<>> \in Seq(Functors) /\ <<>> \in Seq(Loops)
OBVIOUS

\* The active channels stay as they are.
LEMMA ActiveIs ==
    ASSUME \A l \in Loops : thread'[l].active = thread[l].active,
           \A l \in Loops : \A i \in 1 .. Len(thread[l].active) :
               LET k == thread[l].active[i]
               IN  /\ chfd'[k] # None /\ conn'[k].loop = l
                   /\ thread'[l].closing # [conn |-> k, delete |-> TRUE],
           \A l \in Loops : \A i, j \in 1 .. Len(thread[l].active) :
               thread[l].active[i] = thread[l].active[j] => i = j
    PROVE  Active'
BY SMTT(30) DEF Active

\* The table of descriptors, put together from its parts.
LEMMA TableIs ==
    ASSUME \A k \in Conns, f \in Fds : Owner(k, f)',
           \A k \in Conns, f \in Fds, l \in Loops : Watched(k, f, l)',
           Listening'
    PROVE  Table'
BY DEF Table

\* A request is added to those of a loop.
LEMMA ConcatAppend ==
    ASSUME NEW b \in Seq(Functors), NEW p \in Seq(Functors), NEW r \in Functors
    PROVE  b \o Append(p, r) = Append(b \o p, r)
BY SMTT(30)

\* The first request of a loop is taken.
LEMMA ConcatTail ==
    ASSUME NEW b \in Seq(Functors), NEW p \in Seq(Functors), b # <<>>
    PROVE  /\ Tail(b) \in Seq(Functors) /\ Len(b \o p) \in Nat \ {0}
           /\ Head(b) = (b \o p)[1] /\ Len(Tail(b) \o p) = Len(b \o p) - 1
           /\ \A i \in 1 .. Len(b \o p) - 1 : (Tail(b) \o p)[i] = (b \o p)[i + 1]
OBVIOUS

\* A list with an empty one.
LEMMA ConcatEmpty ==
    ASSUME NEW p \in Seq(Functors)
    PROVE  <<>> \o p = p /\ p \o <<>> = p
OBVIOUS

\* A list without its head.
LEMMA TailFacts ==
    ASSUME NEW s \in Seq(Conns), s # <<>>
    PROVE  /\ Tail(s) \in Seq(Conns) /\ Head(s) = s[1] /\ Head(s) \in Conns
           /\ Len(s) \in Nat \ {0} /\ Len(Tail(s)) = Len(s) - 1
           /\ \A i \in 1 .. Len(s) - 1 : Tail(s)[i] = s[i + 1]
OBVIOUS

-----------------------------------------------------------------------------
(* What the parts of the invariant depend on.                               *)

Running == {"loop", "events", "functors"}
Served == {"serve", "set", "close", "unlisten"}

SameLoops == \A k \in Conns : conn'[k].loop = conn[k].loop
SameClosing == \A l \in Loops : thread'[l].closing = thread[l].closing
SameLives ==
    \A l \in Loops :
        /\ thread'[l].latch = thread[l].latch /\ thread'[l].ptr = thread[l].ptr
        /\ thread'[l].wake = thread[l].wake /\ thread'[l].quit = thread[l].quit
        /\ \/ thread'[l].stage = thread[l].stage
           \/ thread[l].stage \in Running /\ thread'[l].stage \in Running

\* The threads' lives are not touched.
LEMMA StartingKept ==
    ASSUME Starting, SameLives, aborted' = aborted,
           pool'.loops = pool.loops, pool'.numThreads = pool.numThreads,
           \/ pool'.next = pool.next
           \/ at = "serve" /\ (pool'.next = 0 \/ pool'.next < pool.numThreads),
           at' = at \/ (at \in Served /\ at' \in Served \cup {"join"})
    PROVE  Starting'
<1>1. /\ \A i \in 1 .. Len(pool'.loops) : pool'.loops[i] = i
      /\ pool'.next = 0 \/ pool'.next < pool'.numThreads
      /\ 1 .. pool'.numThreads \subseteq Loops
      /\ at' \in {"bind", "bound"} => Len(pool'.loops) = 0 /\ pool'.next = 0
      /\ at' \in {"start", "wait"} => Len(pool'.loops) < pool'.numThreads /\ pool'.next = 0
      /\ at' \notin {"bind", "bound", "start", "wait"} => Len(pool'.loops) = pool'.numThreads
    BY DEF Starting, Served
<1>2. ASSUME NEW l \in Loops PROVE Life(l)'
    BY DEF Starting, Life, Served, SameLives, Running
<1>3. AssertionsHold'
    BY DEF Starting, AssertionsHold, SameLives, Running
<1> QED
    BY <1>1, <1>2, <1>3 DEF Starting

\* No connection is accepted or attached.
LEMMA AcceptedKept ==
    ASSUME Accepted, SameLoops, conns' = conns,
           \A k \in Conns : /\ k \notin conns => conn'[k] = conn[k]
                            /\ Waiting(k) => conn'[k].sockfd = conn[k].sockfd
                            /\ chfd'[k] # None => chfd[k] # None
    PROVE  Accepted'
BY DEF Accepted, SameLoops, Waiting

\* No request is made or run.
LEMMA QueuedKept ==
    ASSUME Queued, Types, SameLoops, conns' = conns, doomed' = doomed, wild' = wild,
           at' \in {"close", "unlisten", "join"} => at' = at,
           \A l \in Loops : /\ Requests(l)' = Requests(l)
                            /\ thread'[l].stage # "functors" => thread'[l].batch = <<>>
    PROVE  Queued'
<1>1. \A l \in Loops : \A i \in 1 .. Len(Requests(l)) : Requests(l)[i].conn \in Conns
  <2>1. \A l \in Loops : Requests(l) \in Seq(Functors)
      BY DEF Requests, Types, Threads
  <2>2. \A l \in Loops : \A i \in 1 .. Len(Requests(l)) : Requests(l)[i] \in Functors
      BY <2>1
  <2> QED
      BY <2>2, Zenon DEF Functors
<1>2. \A k \in Conns : Waiting(k)' <=> Waiting(k)
    BY DEF SameLoops, Waiting
<1>3. Fitting'
  <2>1. ASSUME NEW l \in Loops, NEW i \in 1 .. Len(Requests(l))
        PROVE  Fit(l, Requests(l)[i])'
      BY <1>1, <1>2 DEF Queued, Fitting, Fit, SameLoops
  <2> QED
      BY <2>1 DEF Fitting
<1>4. AttachOnce'
    BY DEF Queued, AttachOnce
<1>5. NoneLeft'
    BY Zenon DEF Queued, NoneLeft, SameLoops, Types
<1>6. Batches'
    BY DEF Batches
<1> QED
    BY <1>3, <1>4, <1>5, <1>6 DEF Queued

\* No channel is added, closed or removed.
LEMMA MappedKept ==
    ASSUME Mapped, Types, SameLoops, SameClosing, UNCHANGED <<channels, interest, chfd>>
    PROVE  Mapped'
<1>1. \A l \in Loops : thread[l].closing.conn \in Conns \cup {None}
    BY DEF Types, Threads, Closings
<1> QED
    BY <1>1, SMTT(30) DEF Mapped, Agree, Known, Closed, SameLoops, SameClosing

\* No channel is deleted, and no round begins.
LEMMA ActiveKept ==
    ASSUME Active, Types, SameLoops, SameClosing,
           \A k \in Conns : chfd'[k] = None => chfd[k] = None,
           \A l \in Loops : thread'[l].active = thread[l].active
    PROVE  Active'
<1>1. \A l \in Loops : \A i \in 1 .. Len(thread[l].active) : thread[l].active[i] \in Conns
  <2>1. \A l \in Loops : thread[l].active \in Seq(Conns)
      BY DEF Types, Threads
  <2> QED
      BY <2>1
<1>2. ASSUME NEW l \in Loops, NEW i \in 1 .. Len(thread[l].active)
      PROVE  LET k == thread[l].active[i]
             IN  /\ chfd'[k] # None /\ conn'[k].loop = l
                 /\ thread'[l].closing # [conn |-> k, delete |-> TRUE]
    BY <1>1 DEF Active, SameLoops, SameClosing
<1>3. \A l \in Loops : \A i, j \in 1 .. Len(thread[l].active) :
          thread[l].active[i] = thread[l].active[j] => i = j
    BY DEF Active
<1> QED
    BY <1>2, <1>3, ActiveIs, Zenon

\* No descriptor is opened or closed.
LEMMA TableKept ==
    ASSUME Table, SameLoops, SameClosing,
           UNCHANGED <<file, interest, channels, chfd, conns, listen>>,
           at = "join" => at' = "join", at = "unlisten" => at' \in {"unlisten", "join"},
           at' # "join" => \A k \in Conns : conn'[k].sockfd = conn[k].sockfd
    PROVE  Table'
<1>1. \A k \in Conns : (Waiting(k)' <=> Waiting(k)) /\ (Closing(k)' <=> Closing(k))
    BY DEF SameLoops, SameClosing, Waiting, Closing
<1> QED
    BY <1>1 DEF Table, Owner, Watched, Listening

\* No callback is dropped, and nothing is read.
LEMMA CallbacksKept ==
    ASSUME Callbacks, SameClosing, early' = early,
           \A k \in Conns : /\ Waiting(k)' => Waiting(k)
                            /\ conn[k].readcb => conn'[k].readcb
                            /\ conn[k].msg # "input" => conn'[k].msg # "input"
                            /\ chfd'[k] # None => chfd[k] # None
    PROVE  Callbacks'
BY DEF Callbacks, SameClosing

SameQueues ==
    \A l \in Loops : /\ thread'[l].pending = thread[l].pending
                     /\ thread'[l].batch = thread[l].batch
                     /\ thread'[l].active = thread[l].active

\* A step in the life of a thread touches no connection.
LEMMA OthersKept ==
    ASSUME IInv, SameClosing, SameQueues,
           UNCHANGED <<file, interest, channels, chfd, listen, early, conns, doomed, conn, wild>>,
           at = "join" => at' = "join", at = "unlisten" => at' \in {"unlisten", "join"},
           at' \in {"close", "unlisten", "join"} => at' = at,
           \A l \in Loops : thread'[l].stage # "functors" => thread[l].batch = <<>>
    PROVE  Accepted' /\ Queued' /\ Mapped' /\ Active' /\ Table' /\ Callbacks'
<1>1. SameLoops
    BY DEF SameLoops
<1>2. \A k \in Conns : Waiting(k)' <=> Waiting(k)
    BY Zenon DEF Waiting
<1>3. \A l \in Loops : /\ Requests(l)' = Requests(l)
                       /\ thread'[l].stage # "functors" => thread'[l].batch = <<>>
    BY Zenon DEF Requests, SameQueues
<1>4. Accepted'
    BY <1>1, AcceptedKept DEF IInv
<1>5. Queued'
    BY <1>1, <1>3, QueuedKept DEF IInv
<1>6. Mapped' /\ Active'
    BY <1>1, MappedKept, ActiveKept DEF IInv, SameQueues
<1>7. Table'
    BY <1>1, TableKept DEF IInv
<1>8. Callbacks'
    BY <1>2, CallbacksKept DEF IInv
<1> QED
    BY <1>4, <1>5, <1>6, <1>7, <1>8

\* One thread's record is replaced.
LEMMA ThreadSet ==
    ASSUME thread \in [Loops -> Threads], NEW l \in Loops, NEW t \in Threads,
           thread' = [thread EXCEPT ![l] = t]
    PROVE  /\ thread' \in [Loops -> Threads] /\ thread'[l] = t
           /\ \A i \in Loops : i # l => thread'[i] = thread[i]
OBVIOUS

-----------------------------------------------------------------------------
(* Starting.                                                                *)

\* A thread constructs its loop.
LEMMA ConstructIInv ==
    ASSUME IInv, NEW l \in Loops, Construct(l)
    PROVE  IInv'
<1>1. /\ thread[l].stage = "new"
      /\ UNCHANGED <<file, interest, channels, chfd, evcap, aborted, at, listen, pool, early,
                     conns, doomed, wild, trouble, conn>>
    BY DEF Construct, pollerVars, baseVars
<1> DEFINE t == [thread[l] EXCEPT !.stage = "built", !.wake = TRUE, !.ptr = TRUE]
<1>2. thread \in [Loops -> Threads]
    BY DEF IInv, Types
<1>3. thread' = [thread EXCEPT ![l] = t]
    BY <1>2, Zenon DEF Construct
<1>4. /\ t \in Threads /\ t.stage = "built" /\ t.wake = TRUE /\ t.ptr = TRUE
      /\ t.latch = thread[l].latch /\ t.quit = thread[l].quit /\ t.closing = thread[l].closing
      /\ t.active = thread[l].active /\ t.pending = thread[l].pending
      /\ t.batch = thread[l].batch
    BY <1>2, ZenonT(30) DEF Threads, Stages
<1> HIDE DEF t
<1>5. /\ thread' \in [Loops -> Threads] /\ thread'[l] = t
      /\ \A i \in Loops : i # l => thread'[i] = thread[i]
    BY <1>2, <1>3, <1>4, ThreadSet
<1>6. Types'
    BY <1>1, <1>5, Zenon DEF IInv, Types
<1>7. Starting'
  <2>1. ASSUME NEW i \in Loops PROVE Life(i)'
    <3>1. CASE i = l
        BY <1>1, <1>4, <1>5, <3>1, Zenon DEF IInv, Starting, Life
    <3>2. CASE i # l
        BY <1>1, <1>5, <3>2, Zenon DEF IInv, Starting, Life
    <3> QED
        BY <3>1, <3>2, Zenon
  <2>2. AssertionsHold'
      BY <1>1, <1>5, Zenon DEF IInv, Starting, AssertionsHold
  <2> QED
      BY <1>1, <2>1, <2>2 DEF IInv, Starting
<1>8. \A i \in Loops : thread'[i].stage # "functors" => thread[i].batch = <<>>
    BY <1>1, <1>4, <1>5, ZenonT(30) DEF IInv, Queued, Batches
<1>9. SameClosing /\ SameQueues
    BY <1>4, <1>5, Zenon DEF SameClosing, SameQueues
<1>10. Accepted' /\ Queued' /\ Mapped' /\ Active' /\ Table' /\ Callbacks'
    BY <1>1, <1>8, <1>9, OthersKept, Zenon
<1> QED
    BY <1>6, <1>7, <1>10 DEF IInv

\* A thread counts its latch down, once.
LEMMA CountIInv ==
    ASSUME IInv, NEW l \in Loops, Count(l)
    PROVE  IInv'
<1>1. /\ thread[l].stage = "built"
      /\ UNCHANGED <<file, interest, channels, chfd, evcap, aborted, at, listen, pool, early,
                     conns, doomed, wild, trouble, conn>>
    BY DEF Count, pollerVars, baseVars
<1> DEFINE t == [thread[l] EXCEPT !.stage = "loop", !.latch = @ - 1]
<1>2. thread \in [Loops -> Threads]
    BY DEF IInv, Types
<1>3. thread' = [thread EXCEPT ![l] = t]
    BY <1>2, Zenon DEF Count
<1>4. /\ t \in Threads /\ t.stage = "loop" /\ t.wake = thread[l].wake /\ t.ptr = thread[l].ptr
      /\ t.quit = thread[l].quit /\ t.closing = thread[l].closing
      /\ t.active = thread[l].active /\ t.pending = thread[l].pending
      /\ t.batch = thread[l].batch
  <2>1. thread[l] \in Threads /\ thread[l].latch - 1 \in Int
      BY <1>2 DEF Threads
  <2> QED
      BY <2>1, Zenon DEF Threads, Stages
<1> HIDE DEF t
<1>5. /\ thread' \in [Loops -> Threads] /\ thread'[l] = t
      /\ \A i \in Loops : i # l => thread'[i] = thread[i]
    BY <1>2, <1>3, <1>4, ThreadSet, Zenon
<1>6. Types'
    BY <1>1, <1>5, Zenon DEF IInv, Types
<1>7. Starting'
  <2>1. ASSUME NEW i \in Loops PROVE Life(i)'
    <3>1. CASE i = l
        BY <1>1, <1>4, <1>5, <3>1, Zenon DEF IInv, Starting, Life
    <3>2. CASE i # l
        BY <1>1, <1>5, <3>2, Zenon DEF IInv, Starting, Life
    <3> QED
        BY <3>1, <3>2
  <2>2. AssertionsHold'
      BY <1>1, <1>5, Zenon DEF IInv, Starting, AssertionsHold
  <2> QED
      BY <1>1, <2>1, <2>2, Zenon DEF IInv, Starting
<1>8. \A i \in Loops : thread'[i].stage # "functors" => thread[i].batch = <<>>
    BY <1>1, <1>4, <1>5, Zenon DEF IInv, Queued, Batches
<1>9. SameClosing /\ SameQueues
    BY <1>4, <1>5, Zenon DEF SameClosing, SameQueues
<1>10. Accepted' /\ Queued' /\ Mapped' /\ Active' /\ Table' /\ Callbacks'
    BY <1>1, <1>8, <1>9, OthersKept
<1> QED
    BY <1>6, <1>7, <1>10 DEF IInv

\* The number of threads is set.
LEMMA StartThreadIInv ==
    ASSUME IInv, NEW n \in Loops, StartThread(n)
    PROVE  IInv'
<1>1. /\ at = "bound" /\ at' = "start" /\ pool' = [pool EXCEPT !.numThreads = n]
      /\ UNCHANGED <<file, interest, channels, chfd, evcap, aborted, listen, early, conns,
                     doomed, wild, trouble, conn, thread>>
    BY DEF StartThread, pollerVars
<1>2. n \in Nat \ {0} /\ 1 .. n \subseteq Loops
    BY ServerAssumption, Zenon
<1>3. /\ pool' \in [numThreads : Nat, loops : Seq(Loops), next : Nat]
      /\ pool'.numThreads = n /\ pool'.loops = pool.loops /\ pool'.next = pool.next
    BY <1>1, <1>2, Zenon DEF IInv, Types
<1>4. Types'
    BY <1>1, <1>3 DEF IInv, Types, Ats
<1>5. Starting'
  <2>1. \A i \in Loops : Life(i)'
      BY <1>1, <1>3 DEF IInv, Starting, Life
  <2>2. Len(pool.loops) = 0 /\ pool.next = 0
      BY <1>1 DEF IInv, Starting
  <2> QED
      BY <1>1, <1>2, <1>3, <2>1, <2>2 DEF IInv, Starting, AssertionsHold
<1>6. SameClosing /\ SameQueues /\ \A l \in Loops : thread'[l].stage # "functors" => thread[l].batch = <<>>
    BY <1>1 DEF SameClosing, SameQueues, IInv, Queued, Batches
<1>7. Accepted' /\ Queued' /\ Mapped' /\ Active' /\ Table' /\ Callbacks'
    BY <1>1, <1>6, OthersKept
<1> QED
    BY <1>4, <1>5, <1>7 DEF IInv

\* The thread that the pool is about to start, or waits for.
LEMMA NextThread ==
    ASSUME IInv, at \in {"start", "wait"}
    PROVE  /\ Len(pool.loops) \in Nat /\ Len(pool.loops) + 1 \in Loops
           /\ Len(pool.loops) + 1 <= pool.numThreads /\ pool.numThreads \in Nat
<1>1. pool.loops \in Seq(Loops) /\ pool.numThreads \in Nat
    BY DEF IInv, Types
<1>2. Len(pool.loops) \in Nat
    BY <1>1
<1>3. Len(pool.loops) < pool.numThreads /\ 1 .. pool.numThreads \subseteq Loops
    BY DEF IInv, Starting
<1> QED
    BY <1>1, <1>2, <1>3

\* The next thread is created, in turn.
LEMMA StartLoopIInv ==
    ASSUME IInv, StartLoop
    PROVE  IInv'
<1> DEFINE l == Len(pool.loops) + 1
           t == [thread[l] EXCEPT !.stage = "new"]
<1>1. /\ at = "start" /\ at' = "wait"
      /\ UNCHANGED <<file, interest, channels, chfd, evcap, aborted, listen, pool, early,
                     conns, doomed, wild, trouble, conn>>
    BY Zenon DEF StartLoop, pollerVars
<1>2. thread \in [Loops -> Threads] /\ l \in Loops /\ Len(pool.loops) \in Nat
    BY <1>1, NextThread DEF IInv, Types
<1>3. thread' = [thread EXCEPT ![l] = t]
    BY <1>2 DEF StartLoop
<1>4. /\ t \in Threads /\ t.stage = "new" /\ t.latch = thread[l].latch
      /\ t.quit = thread[l].quit /\ t.closing = thread[l].closing
      /\ t.active = thread[l].active /\ t.pending = thread[l].pending
      /\ t.batch = thread[l].batch
    BY <1>2, ZenonT(30) DEF Threads, Stages
<1> HIDE DEF t
<1>5. /\ thread' \in [Loops -> Threads] /\ thread'[l] = t
      /\ \A i \in Loops : i # l => thread'[i] = thread[i]
    BY <1>2, <1>3, <1>4, ThreadSet
<1>6. Types'
    BY <1>1, <1>5 DEF IInv, Types, Ats
<1>7. thread[l].stage = "none"
    BY <1>1, <1>2 DEF IInv, Starting, Life
<1>8. Starting'
  <2>1. ASSUME NEW i \in Loops PROVE Life(i)'
    <3>1. CASE i = l
        BY <1>1, <1>2, <1>4, <1>5, <1>7, <3>1, SMTT(30) DEF IInv, Starting, Life
    <3>2. CASE i # l
      <4>1. i \in Int
          BY ServerAssumption
      <4>2. Life(i)
          BY Zenon DEF IInv, Starting
      <4> QED
          BY <1>1, <1>2, <1>5, <3>2, <4>1, <4>2, Zenon DEF Life
    <3> QED
        BY <3>1, <3>2, ZenonT(30)
  <2>2. AssertionsHold'
      BY <1>1, <1>5, <1>7, Zenon DEF IInv, Starting, AssertionsHold
  <2> QED
      BY <1>1, <2>1, <2>2 DEF IInv, Starting
<1>9. \A i \in Loops : thread'[i].stage # "functors" => thread[i].batch = <<>>
    BY <1>4, <1>5, <1>7, Zenon DEF IInv, Queued, Batches
<1>10. SameClosing /\ SameQueues
    BY <1>4, <1>5, Zenon DEF SameClosing, SameQueues
<1>11. Accepted' /\ Queued' /\ Mapped' /\ Active' /\ Table' /\ Callbacks'
    BY <1>1, <1>9, <1>10, OthersKept, Zenon
<1> QED
    BY <1>6, <1>8, <1>11 DEF IInv

\* The latch is down, so the loop that the pool keeps is constructed.
LEMMA LoopStartedIInv ==
    ASSUME IInv, LoopStarted
    PROVE  IInv'
<1> DEFINE l == Len(pool.loops) + 1
<1>1. /\ at = "wait" /\ thread[l].latch <= 0
      /\ pool' = [pool EXCEPT !.loops = Append(@, l)]
      /\ at' = IF l = pool.numThreads THEN "serve" ELSE "start"
      /\ UNCHANGED <<file, interest, channels, chfd, evcap, aborted, listen, early, conns,
                     doomed, wild, trouble, conn, thread>>
    BY DEF LoopStarted, Wait, pollerVars
<1>2. /\ l \in Loops /\ Len(pool.loops) \in Nat /\ l <= pool.numThreads /\ pool.numThreads \in Nat
      /\ pool.loops \in Seq(Loops)
    BY <1>1, NextThread DEF IInv, Types
<1>3. /\ pool' \in [numThreads : Nat, loops : Seq(Loops), next : Nat]
      /\ pool'.numThreads = pool.numThreads /\ pool'.next = pool.next
      /\ pool'.loops = Append(pool.loops, l)
  <2>1. pool \in [numThreads : Nat, loops : Seq(Loops), next : Nat]
      BY DEF IInv, Types
  <2>2. Append(pool.loops, l) \in Seq(Loops)
      BY <1>2
  <2> QED
      BY <1>1, <2>1, <2>2, Zenon
<1>4. /\ Len(pool'.loops) = l
      /\ \A i \in 1 .. Len(pool.loops) : pool'.loops[i] = pool.loops[i]
      /\ pool'.loops[l] = l
    BY <1>2, <1>3
<1>5. Types'
    BY <1>1, <1>3, Zenon DEF IInv, Types, Ats
<1>6. thread[l].stage \notin {"none", "new", "built"}
    BY <1>1, <1>2 DEF IInv, Starting, Life
<1>7. Starting'
  <2>1. ASSUME NEW i \in Loops PROVE Life(i)'
    <3>1. i \in Int
        BY ServerAssumption
    <3>2. Life(i)
        BY DEF IInv, Starting
    <3> QED
        BY <1>1, <1>2, <1>4, <1>6, <3>1, <3>2 DEF Life
  <2>2. AssertionsHold'
      BY <1>1, Zenon DEF IInv, Starting, AssertionsHold
  <2>3. \A i \in 1 .. Len(pool'.loops) : pool'.loops[i] = i
    <3>1. \A i \in 1 .. Len(pool.loops) : pool.loops[i] = i
        BY Zenon DEF IInv, Starting
    <3>2. \A i \in 1 .. l : i # l => i \in 1 .. Len(pool.loops)
        BY <1>1, <1>2
    <3> QED
        BY <1>4, <3>1, <3>2, Zenon
  <2>4. pool.next = 0 /\ 1 .. pool.numThreads \subseteq Loops
      BY <1>1 DEF IInv, Starting
  <2>5. /\ at' \in {"start", "serve"}
        /\ at' = "start" => Len(pool'.loops) < pool.numThreads
        /\ at' = "serve" => Len(pool'.loops) = pool.numThreads
      BY <1>1, <1>2, <1>4
  <2> QED
      BY <1>3, <2>1, <2>2, <2>3, <2>4, <2>5 DEF Starting
<1>8. SameClosing /\ SameQueues /\ \A i \in Loops : thread'[i].stage # "functors" => thread[i].batch = <<>>
    BY <1>1 DEF SameClosing, SameQueues, IInv, Queued, Batches
<1>9. Accepted' /\ Queued' /\ Mapped' /\ Active' /\ Table' /\ Callbacks'
    BY <1>1, <1>8, OthersKept
<1> QED
    BY <1>5, <1>7, <1>9 DEF IInv

\* The kernel gives out a number that is free.
LEMMA OpenFacts ==
    ASSUME Types, NEW o \in Conns \cup {Leaked, Listener}, NEW f \in Fds, Open(o, f)
    PROVE  /\ file[f] = None /\ file' \in [Fds -> Conns \cup {None, Leaked, Listener}]
           /\ file'[f] = o /\ \A g \in Fds : g # f => file'[g] = file[g]
    BY DEF Open, FreeFds, Types

\* The descriptors of connections are not changed.
LEMMA TableOpened ==
    ASSUME Table, Types, SameLoops, SameClosing, NEW o \in {Leaked, Listener}, NEW f \in Fds,
           Open(o, f), UNCHANGED <<interest, channels, chfd, conns>>,
           at \in {"bind", "serve"}, at' \notin {"unlisten", "join"},
           listen' # None => listen' = listen \/ (listen' = f /\ o = Listener),
           \A k \in Conns : conn'[k].sockfd = conn[k].sockfd
    PROVE  Table'
<1>1. /\ file[f] = None /\ file'[f] = o /\ \A g \in Fds : g # f => file'[g] = file[g]
    BY OpenFacts, Zenon
<1>2. \A k \in Conns : (Waiting(k)' <=> Waiting(k)) /\ (Closing(k)' <=> Closing(k))
    BY DEF SameLoops, SameClosing, Waiting, Closing
<1>3. \A k \in Conns : k # None /\ k # o
    BY PollerAssumption, ServerAssumption, Zenon
<1>4. \A k \in Conns, g \in Fds : file'[g] = k <=> file[g] = k
    BY <1>1, <1>3, Zenon
<1>5. listen' # None => file'[listen'] = Listener
  <2>1. CASE listen' = listen /\ listen # None
    <3>1. listen \in Fds /\ file[listen] = Listener
        BY <2>1, Zenon DEF Types, Table, Owner, Watched, Listening
    <3> QED
        BY <1>1, <2>1, <3>1, ServerAssumption, Zenon
  <2>2. CASE listen' = f /\ o = Listener
      BY <1>1, <2>2
  <2> QED
      BY <2>1, <2>2, Zenon
<1> QED
    BY <1>2, <1>4, <1>5 DEF Table, Owner, Watched, Listening

\* The listening socket takes a free number, or none.
LEMMA BindIInv ==
    ASSUME IInv, Bind
    PROVE  IInv'
<1>1. /\ at = "bind" /\ at' = "bound"
      /\ UNCHANGED <<interest, channels, chfd, evcap, aborted, pool, early, conns, doomed,
                     thread, conn, wild, trouble>>
    BY DEF Bind
<1>2. (\E f \in Fds : Open(Listener, f) /\ listen' = f) \/ UNCHANGED <<file, listen>>
    BY DEF Bind
<1>3. SameLives /\ SameLoops /\ SameClosing
    BY <1>1 DEF SameLives, SameLoops, SameClosing
<1>4. \A k \in Conns : Waiting(k)' <=> Waiting(k)
    BY <1>1 DEF Waiting
<1>5. Types'
  <2>1. CASE UNCHANGED <<file, listen>>
      BY <1>1, <2>1, Zenon DEF IInv, Types, Ats
  <2>2. ASSUME NEW f \in Fds, Open(Listener, f), listen' = f PROVE Types'
    <3>1. file' \in [Fds -> Conns \cup {None, Leaked, Listener}]
        BY <2>2, OpenFacts, Zenon DEF IInv
    <3> QED
        BY <1>1, <2>2, <3>1, Zenon DEF IInv, Types, Ats
  <2> QED
      BY <1>2, <2>1, <2>2, Zenon
<1>6. Starting'
  <2>1. \A l \in Loops : Life(l)'
      BY <1>1, Zenon DEF IInv, Starting, Life
  <2> QED
      BY <1>1, <2>1, Zenon DEF IInv, Starting, AssertionsHold
<1>7. Accepted'
    BY <1>1, <1>3, AcceptedKept, Zenon DEF IInv
<1>8. Queued'
  <2>1. \A l \in Loops : /\ Requests(l)' = Requests(l)
                         /\ thread'[l].stage # "functors" => thread'[l].batch = <<>>
      BY <1>1, Zenon DEF Requests, IInv, Queued, Batches
  <2> QED
      BY <1>1, <1>3, <2>1, QueuedKept, Zenon DEF IInv
<1>9. Mapped' /\ Active'
    BY <1>1, <1>3, MappedKept, ActiveKept, Zenon DEF IInv
<1>10. Table'
  <2>1. CASE UNCHANGED <<file, listen>>
      BY <1>1, <1>3, <2>1, TableKept, Zenon DEF IInv
  <2>2. ASSUME NEW f \in Fds, Open(Listener, f), listen' = f PROVE Table'
      BY <1>1, <1>3, <2>2, TableOpened, Zenon DEF IInv
  <2> QED
      BY <1>2, <2>1, <2>2
<1>11. Callbacks'
    BY <1>1, <1>3, <1>4, CallbacksKept, Zenon DEF IInv
<1> QED
    BY <1>5, <1>6, <1>7, <1>8, <1>9, <1>10, <1>11, Zenon DEF IInv

-----------------------------------------------------------------------------
(* Accepting.                                                               *)

\* A descriptor is left open, for no connection.
LEMMA AcceptFailsIInv ==
    ASSUME IInv, NEW f \in Fds, AcceptFails(f)
    PROVE  IInv'
<1>1. /\ at = "serve" /\ Open(Leaked, f)
      /\ UNCHANGED <<interest, channels, chfd, evcap, aborted, at, listen, pool, early,
                     conns, doomed, thread, conn, wild>>
    BY Zenon DEF AcceptFails
<1>2. SameLives /\ SameLoops /\ SameClosing
    BY <1>1 DEF SameLives, SameLoops, SameClosing
<1>3. \A k \in Conns : Waiting(k)' <=> Waiting(k)
    BY <1>1, Zenon DEF Waiting
<1>4. Types'
  <2>1. file' \in [Fds -> Conns \cup {None, Leaked, Listener}]
      BY <1>1, OpenFacts DEF IInv
  <2> QED
      BY <1>1, <2>1 DEF IInv, Types
<1>5. Starting'
    BY <1>1, <1>2, StartingKept, Zenon DEF IInv
<1>6. Accepted'
    BY <1>1, <1>2, AcceptedKept, Zenon DEF IInv
<1>7. Queued'
  <2>1. \A l \in Loops : /\ Requests(l)' = Requests(l)
                         /\ thread'[l].stage # "functors" => thread'[l].batch = <<>>
      BY <1>1, Zenon DEF Requests, IInv, Queued, Batches
  <2> QED
      BY <1>1, <1>2, <2>1, QueuedKept, Zenon DEF IInv
<1>8. Mapped' /\ Active'
    BY <1>1, <1>2, MappedKept, ActiveKept, Zenon DEF IInv
<1>9. Table'
    BY <1>1, <1>2, TableOpened, Zenon DEF IInv
<1>10. Callbacks'
    BY <1>1, <1>2, <1>3, CallbacksKept, Zenon DEF IInv
<1> QED
    BY <1>4, <1>5, <1>6, <1>7, <1>8, <1>9, <1>10, Zenon DEF IInv

\* A request is queued.
LEMMA PostFacts ==
    ASSUME Types, NEW l \in Loops, NEW r \in Functors,
           thread' = [thread EXCEPT ![l].pending = Append(@, r)]
    PROVE  /\ thread' \in [Loops -> Threads] /\ SameLives /\ SameClosing
           /\ \A i \in Loops : /\ thread'[i].active = thread[i].active
                               /\ thread'[i].batch = thread[i].batch
                               /\ thread'[i].stage = thread[i].stage
                               /\ Requests(i) \in Seq(Functors)
                               /\ i # l => Requests(i)' = Requests(i)
           /\ Requests(l)' = Append(Requests(l), r)
<1> DEFINE t == [thread[l] EXCEPT !.pending = Append(@, r)]
<1>1. /\ thread \in [Loops -> Threads]
      /\ \A i \in Loops : thread[i].pending \in Seq(Functors) /\ thread[i].batch \in Seq(Functors)
    BY Zenon DEF Types, Threads
<1>2. thread' = [thread EXCEPT ![l] = t]
    BY <1>1
<1>3. Append(thread[l].pending, r) \in Seq(Functors) /\ thread[l] \in Threads
    BY <1>1
<1>4. /\ t \in Threads /\ t.stage = thread[l].stage /\ t.latch = thread[l].latch
      /\ t.ptr = thread[l].ptr /\ t.wake = thread[l].wake /\ t.quit = thread[l].quit
      /\ t.closing = thread[l].closing /\ t.active = thread[l].active
      /\ t.batch = thread[l].batch /\ t.pending = Append(thread[l].pending, r)
    BY <1>3, Zenon DEF Threads
<1> HIDE DEF t
<1>5. /\ thread' \in [Loops -> Threads] /\ thread'[l] = t
      /\ \A i \in Loops : i # l => thread'[i] = thread[i]
    BY <1>1, <1>2, <1>4, ThreadSet, Zenon
<1>6. SameLives /\ SameClosing
    BY <1>4, <1>5 DEF SameLives, SameClosing
<1>7. \A i \in Loops : Requests(i) \in Seq(Functors)
    BY <1>1, SMTT(30) DEF Requests
<1>8. Requests(l)' = Append(Requests(l), r)
  <2>1. Requests(l)' = thread[l].batch \o Append(thread[l].pending, r)
      BY <1>4, <1>5, Zenon DEF Requests
  <2> QED
      BY <1>1, <2>1, ConcatAppend, Zenon DEF Requests
<1>9. \A i \in Loops : i # l => Requests(i)' = Requests(i)
    BY <1>5, Zenon DEF Requests
<1> QED
    BY <1>4, <1>5, <1>6, <1>7, <1>8, <1>9, Zenon

\* The new request fits, and if it is to attach, it is the only one for its connection.
LEMMA QueuedPost ==
    ASSUME Fitting, AttachOnce, Batches, Types, NEW l \in Loops, NEW r \in Functors,
           thread' = [thread EXCEPT ![l].pending = Append(@, r)],
           \A k \in Conns : /\ Waiting(k) => Waiting(k)'
                            /\ conn[k].loop # None => conn'[k].loop = conn[k].loop,
           Fit(l, r)', r.op = "attach" => ~Waiting(r.conn)
    PROVE  Fitting' /\ AttachOnce' /\ Batches'
<1> DEFINE n == Len(Requests(l))
<1>1. /\ \A i \in Loops : /\ thread'[i].batch = thread[i].batch
                          /\ thread'[i].stage = thread[i].stage
                          /\ Requests(i) \in Seq(Functors)
                          /\ i # l => Requests(i)' = Requests(i)
      /\ Requests(l)' = Append(Requests(l), r)
    BY PostFacts, Zenon
<1>2. /\ n \in Nat /\ Len(Requests(l)') = n + 1 /\ Requests(l)'[n + 1] = r
      /\ \A i \in 1 .. n : Requests(l)'[i] = Requests(l)[i]
      /\ \A i \in 1 .. n + 1 : i \in 1 .. n \/ i = n + 1
    BY <1>1
<1>3. \A m \in Loops : \A i \in 1 .. Len(Requests(m)) :
          Requests(m)[i] \in Functors /\ Requests(m)[i].conn \in Conns
  <2>1. \A m \in Loops : \A i \in 1 .. Len(Requests(m)) : Requests(m)[i] \in Functors
      BY <1>1
  <2> QED
      BY <2>1 DEF Functors
<1>4. ASSUME NEW m \in Loops, NEW q \in Functors, Fit(m, q) PROVE Fit(m, q)'
  <2>1. q.conn \in Conns /\ m # None
      BY PollerAssumption DEF Functors
  <2> QED
      BY <1>4, <2>1 DEF Fit
<1>5. ASSUME NEW m \in Loops, NEW i \in 1 .. Len(Requests(m)') PROVE Fit(m, Requests(m)[i])'
  <2>1. CASE m = l /\ i = n + 1
      BY <1>2, <2>1, Zenon
  <2>2. CASE i \in 1 .. Len(Requests(m)) /\ Requests(m)'[i] = Requests(m)[i]
    <3>1. PICK q \in Functors : q = Requests(m)[i]
        BY <1>3, <2>2
    <3>2. Fit(m, q)'
        BY <1>4, <2>2, <3>1, Zenon DEF Fitting
    <3> QED
        BY <2>2, <3>1, <3>2, Zenon DEF Fit
  <2>3. CASE m # l
      BY <1>1, <2>2, <2>3, Zenon
  <2>4. CASE m = l /\ i \in 1 .. n
      BY <1>2, <2>2, <2>4
  <2> QED
      BY <1>2, <2>1, <2>3, <2>4
<1>6. \A m \in Loops : \A i \in 1 .. Len(Requests(m)) :
          r.op = "attach" /\ Requests(m)[i].op = "attach" => Requests(m)[i].conn # r.conn
    BY DEF Fitting, Fit
<1>7. ASSUME NEW m \in Loops, NEW o \in Loops,
             NEW i \in 1 .. Len(Requests(m)'), NEW j \in 1 .. Len(Requests(o)'),
             Requests(m)'[i].op = "attach", Requests(o)'[j].op = "attach",
             Requests(m)'[i].conn = Requests(o)'[j].conn
      PROVE  m = o /\ i = j
  <2>1. \/ m = l /\ i = n + 1
        \/ i \in 1 .. Len(Requests(m)) /\ Requests(m)'[i] = Requests(m)[i]
      BY <1>1, <1>2, Zenon
  <2>2. \/ o = l /\ j = n + 1
        \/ j \in 1 .. Len(Requests(o)) /\ Requests(o)'[j] = Requests(o)[j]
      BY <1>1, <1>2, Zenon
  <2>3. CASE m = l /\ i = n + 1
      BY <1>2, <1>6, <1>7, <2>2, <2>3, Zenon
  <2>4. CASE o = l /\ j = n + 1
      BY <1>2, <1>6, <1>7, <2>1, <2>4, Zenon
  <2>5. CASE /\ i \in 1 .. Len(Requests(m)) /\ Requests(m)'[i] = Requests(m)[i]
             /\ j \in 1 .. Len(Requests(o)) /\ Requests(o)'[j] = Requests(o)[j]
      BY <1>7, <2>5 DEF AttachOnce
  <2> QED
      BY <2>1, <2>2, <2>3, <2>4, <2>5, Zenon
<1>8. Batches'
    BY <1>1 DEF Batches
<1> QED
    BY <1>5, <1>7, <1>8 DEF Fitting, AttachOnce

\* HandleAccept's connection is a new one.
LEMMA NextConn ==
    ASSUME Accepted, NEW k \in Conns, k \notin conns
    PROVE  conn[k] = Conn /\ chfd[k] = None
<1>1. conn[k] = Conn /\ (chfd[k] # None => conn[k].loop # None)
    BY DEF Accepted
<1>2. Conn.loop = None
    BY DEF Conn
<1> QED
    BY <1>1, <1>2, Zenon

\* A new connection waits on one loop, with a number that nobody has.
LEMMA AcceptIInv ==
    ASSUME IInv, NEW k \in Conns, NEW f \in Fds, NEW l \in Loops, Accept(k, f, l)
    PROVE  IInv'
<1> DEFINE c == [conn[k] EXCEPT !.sockfd = f, !.readcb = early]
           r == [op |-> "attach", conn |-> k]
<1>1. /\ at = "serve" /\ at' = "set" /\ k \notin conns /\ conns' = conns \cup {k}
      /\ Open(k, f) /\ GetNextLoop(l)
      /\ thread' = [thread EXCEPT ![l].pending = Append(@, r)]
      /\ UNCHANGED <<interest, channels, chfd, evcap, aborted, listen, early, doomed, wild>>
    BY DEF Accept, Post
<1>2. r \in Functors /\ r.op = "attach" /\ r.conn = k
    BY DEF Functors
<1> HIDE DEF r
<1>3. /\ k \notin conns /\ conn[k] = Conn /\ chfd[k] = None
      /\ conns' \subseteq Conns /\ ~Waiting(k)
    BY <1>1, NextConn, Zenon DEF IInv, Types, Waiting
<1>4. /\ conn \in [Conns -> Connections] /\ conn[k] \in Connections /\ early \in BOOLEAN
      /\ conn[k].loop = None /\ conn[k].msg = "none"
  <2>1. Conn.loop = None /\ Conn.msg = "none"
      BY DEF Conn
  <2> QED
      BY <1>3, <2>1, Zenon DEF IInv, Types
<1>5. conn' = [conn EXCEPT ![k] = c]
    BY <1>4, Zenon DEF Accept, Create
<1>6. /\ c \in Connections /\ c.loop = None /\ c.sockfd = f /\ c.readcb = early
      /\ c.msg = "none"
    BY <1>4, Zenon DEF Connections
<1> HIDE DEF c
<1>7. /\ conn' \in [Conns -> Connections] /\ conn'[k] = c
      /\ \A o \in Conns : o # k => conn'[o] = conn[o]
    BY <1>4, <1>5, <1>6, Zenon
<1>8. /\ thread' \in [Loops -> Threads] /\ SameLives /\ SameClosing
      /\ \A i \in Loops : thread'[i].active = thread[i].active
    BY <1>1, <1>2, PostFacts, Zenon DEF IInv
<1>9. SameLoops
    BY <1>4, <1>6, <1>7 DEF SameLoops
<1>10. /\ file[f] = None /\ file' \in [Fds -> Conns \cup {None, Leaked, Listener}]
       /\ file'[f] = k /\ \A g \in Fds : g # f => file'[g] = file[g]
    BY <1>1, OpenFacts DEF IInv
<1>11. /\ pool' \in [numThreads : Nat, loops : Seq(Loops), next : Nat]
       /\ pool'.loops = pool.loops /\ pool'.numThreads = pool.numThreads
       /\ pool'.next = 0 \/ pool'.next < pool.numThreads
  <2>1. /\ pool \in [numThreads : Nat, loops : Seq(Loops), next : Nat]
        /\ Len(pool.loops) = pool.numThreads
      BY <1>1 DEF IInv, Types, Starting
  <2>2. pool' = [pool EXCEPT !.next = IF @ + 1 >= Len(pool.loops) THEN 0 ELSE @ + 1]
      BY <1>1, Zenon DEF GetNextLoop
  <2> QED
      BY <2>1, <2>2
<1>12. Types'
    BY <1>1, <1>3, <1>7, <1>8, <1>10, <1>11, Zenon DEF IInv, Types, Ats
<1>13. Starting'
    BY <1>1, <1>8, <1>11, StartingKept, Zenon DEF IInv, Served
<1>14. \A o \in Conns : Waiting(o)' <=> (Waiting(o) \/ o = k)
    BY <1>1, <1>3, <1>6, <1>7, <1>9, Zenon DEF Waiting, SameLoops
<1>15. Accepted'
  <2>1. ASSUME NEW o \in Conns
        PROVE  /\ o \notin conns' => conn'[o] = Conn
               /\ Waiting(o)' => conn'[o].sockfd \in Fds
               /\ chfd'[o] # None => conn'[o].loop # None
    <3>1. CASE o = k
        BY <1>1, <1>3, <1>6, <1>7, <3>1, Zenon
    <3>2. CASE o # k
        BY <1>1, <1>7, <1>14, <3>2, Zenon DEF IInv, Accepted
    <3> QED
        BY <3>1, <3>2, Zenon
  <2> QED
      BY <1>3, <2>1, Zenon DEF Accepted
<1>16. Queued'
  <2>1. Fit(l, r)'
      BY <1>2, <1>14, Zenon DEF Fit
  <2>2. Fitting' /\ AttachOnce' /\ Batches'
    <3>1. \A o \in Conns : /\ Waiting(o) => Waiting(o)'
                           /\ conn[o].loop # None => conn'[o].loop = conn[o].loop
        BY <1>9, <1>14 DEF SameLoops
    <3> QED
        BY <1>1, <1>2, <1>3, <2>1, <3>1, QueuedPost, Zenon DEF IInv, Queued
  <2> QED
      BY <1>1, <2>2, Zenon DEF Queued, NoneLeft
<1>17. Mapped' /\ Active'
    BY <1>1, <1>8, <1>9, MappedKept, ActiveKept DEF IInv
<1>18. Table'
  <2>1. \A o \in Conns : Closing(o)' <=> Closing(o)
      BY <1>8 DEF Closing, SameClosing
  <2>2. ASSUME NEW o \in Conns, NEW g \in Fds
        PROVE  Owner(o, g)'
    <3>1. Owner(o, g)
        BY <1>1, Zenon DEF IInv, Table
    <3>2. k # None /\ o # None /\ g # None
        BY PollerAssumption
    <3>3. CASE o = k
        BY <1>1, <1>3, <1>6, <1>7, <1>10, <1>14, <3>1, <3>2, <3>3, Zenon DEF Owner
    <3>4. CASE o # k
        BY <1>1, <1>7, <1>10, <1>14, <2>1, <3>1, <3>2, <3>4, Zenon DEF Owner
    <3> QED
        BY <3>3, <3>4, Zenon
  <2>3. listen # None => file'[listen] = Listener
    <3>1. SUFFICES ASSUME listen # None PROVE file'[listen] = Listener
        BY Zenon
    <3>2. listen \in Fds /\ file[listen] = Listener
        BY <1>1, <3>1, Zenon DEF IInv, Types, Table, Listening
    <3> QED
        BY <1>10, <3>2, ServerAssumption, Zenon
  <2>4. ASSUME NEW o \in Conns, NEW g \in Fds, NEW i \in Loops
        PROVE  Watched(o, g, i)'
    <3>1. Watched(o, g, i)
        BY <1>1, Zenon DEF IInv, Table
    <3> QED
        BY <1>1, <2>1, <3>1, Zenon DEF Watched
  <2>5. Listening'
      BY <1>1, <2>3, Zenon DEF Listening
  <2> QED
      BY <2>2, <2>4, <2>5, TableIs, Zenon
<1>19. Callbacks'
  <2>1. SUFFICES ASSUME early, NEW o \in Conns
                 PROVE  /\ Waiting(o)' => conn'[o].readcb
                        /\ chfd'[o] # None /\ ~(\E i \in Loops :
                              thread'[i].closing = [conn |-> o, delete |-> TRUE]) => conn'[o].readcb
                        /\ conn'[o].msg # "input"
      BY <1>1 DEF Callbacks
  <2>2. CASE o = k
      BY <1>1, <1>3, <1>6, <1>7, <2>1, <2>2, Zenon
  <2>3. CASE o # k
      BY <1>1, <1>7, <1>8, <1>14, <2>1, <2>3, Zenon DEF IInv, Callbacks, SameClosing
  <2> QED
      BY <2>2, <2>3, Zenon
<1> QED
    BY <1>12, <1>13, <1>15, <1>16, <1>17, <1>18, <1>19, Zenon DEF IInv

-----------------------------------------------------------------------------
(* The peers and other threads; the end of the loops and of the server.     *)

\* A connection's callback, message or end of stream is set, on no loop.
LEMMA PeerKept ==
    ASSUME IInv, NEW k \in conns, conn' \in [Conns -> Connections],
           UNCHANGED <<file, interest, channels, chfd, aborted, listen, pool, early, conns,
                       doomed, thread, wild>>,
           at' = at \/ (at = "set" /\ at' = "serve"),
           \A o \in Conns : o # k => conn'[o] = conn[o],
           conn'[k].loop = conn[k].loop, conn'[k].sockfd = conn[k].sockfd,
           conn[k].readcb => conn'[k].readcb,
           conn[k].msg # "input" => conn'[k].msg # "input"
    PROVE  IInv'
<1>1. SameLoops /\ SameClosing /\ SameLives
    BY Zenon DEF SameLoops, SameClosing, SameLives
<1>2. \A o \in Conns : Waiting(o)' <=> Waiting(o)
    BY <1>1, Zenon DEF Waiting, SameLoops
<1>3. Types'
    BY Zenon DEF IInv, Types, Ats
<1>4. Starting'
    BY <1>1, StartingKept, Zenon DEF IInv, Served
<1>5. Accepted'
    BY <1>1, AcceptedKept, Zenon DEF IInv
<1>6. Queued'
  <2>1. \A l \in Loops : /\ Requests(l)' = Requests(l)
                         /\ thread'[l].stage # "functors" => thread'[l].batch = <<>>
      BY Zenon DEF Requests, IInv, Queued, Batches
  <2> QED
      BY <1>1, <2>1, QueuedKept, Zenon DEF IInv
<1>7. Mapped' /\ Active'
    BY <1>1, MappedKept, ActiveKept, Zenon DEF IInv
<1>8. Table'
    BY <1>1, TableKept, Zenon DEF IInv
<1>9. Callbacks'
    BY <1>1, <1>2, CallbacksKept, Zenon DEF IInv
<1> QED
    BY <1>3, <1>4, <1>5, <1>6, <1>7, <1>8, <1>9, Zenon DEF IInv

\* OnRead, after Attach was handed over.
LEMMA SetCallbacksIInv ==
    ASSUME IInv, NEW k \in Conns, SetCallbacks(k)
    PROVE  IInv'
<1> DEFINE c == [conn[k] EXCEPT !.readcb = TRUE]
<1>1. /\ at = "set" /\ at' = "serve" /\ k \in conns
      /\ UNCHANGED <<file, interest, channels, chfd, aborted, listen, pool, early, conns,
                     doomed, thread, wild>>
    BY DEF SetCallbacks, pollerVars
<1>2. k \in conns
    BY <1>1, Zenon
<1>3. conn \in [Conns -> Connections]
    BY DEF IInv, Types
<1>4. conn' = [conn EXCEPT ![k] = c]
    BY <1>3 DEF SetCallbacks
<1>5. /\ c \in Connections /\ c.loop = conn[k].loop /\ c.sockfd = conn[k].sockfd
      /\ c.readcb = TRUE /\ c.msg = conn[k].msg
    BY <1>3, Zenon DEF Connections
<1> HIDE DEF c
<1>6. /\ conn' \in [Conns -> Connections] /\ conn'[k] = c
      /\ \A o \in Conns : o # k => conn'[o] = conn[o]
    BY <1>3, <1>4, <1>5
<1> QED
    BY <1>1, <1>2, <1>5, <1>6, PeerKept, Zenon

\* A message is on its way.
LEMMA PeerSendsIInv ==
    ASSUME IInv, NEW k \in Conns, PeerSends(k)
    PROVE  IInv'
<1> DEFINE c == [conn[k] EXCEPT !.msg = "wire"]
<1>1. /\ k \in conns
      /\ UNCHANGED <<file, interest, channels, chfd, aborted, at, listen, pool, early, conns,
                     doomed, thread, wild>>
    BY DEF PeerSends, Serving, pollerVars, baseVars
<1>2. conn \in [Conns -> Connections]
    BY DEF IInv, Types
<1>3. conn' = [conn EXCEPT ![k] = c]
    BY <1>2 DEF PeerSends
<1>4. /\ c \in Connections /\ c.loop = conn[k].loop /\ c.sockfd = conn[k].sockfd
      /\ c.readcb = conn[k].readcb /\ c.msg = "wire"
    BY <1>2 DEF Connections
<1> HIDE DEF c
<1>5. /\ conn' \in [Conns -> Connections] /\ conn'[k] = c
      /\ \A o \in Conns : o # k => conn'[o] = conn[o]
    BY <1>2, <1>3, <1>4
<1> QED
    BY <1>1, <1>4, <1>5, PeerKept

\* The end of the stream is on its way.
LEMMA PeerClosesIInv ==
    ASSUME IInv, NEW k \in Conns, PeerCloses(k)
    PROVE  IInv'
<1> DEFINE c == [conn[k] EXCEPT !.eof = TRUE]
<1>1. /\ k \in conns
      /\ UNCHANGED <<file, interest, channels, chfd, aborted, at, listen, pool, early, conns,
                     doomed, thread, wild>>
    BY DEF PeerCloses, Serving, pollerVars, baseVars
<1>2. conn \in [Conns -> Connections]
    BY DEF IInv, Types
<1>3. conn' = [conn EXCEPT ![k] = c]
    BY <1>2 DEF PeerCloses
<1>4. /\ c \in Connections /\ c.loop = conn[k].loop /\ c.sockfd = conn[k].sockfd
      /\ c.readcb = conn[k].readcb /\ c.msg = conn[k].msg
    BY <1>2, Zenon DEF Connections
<1> HIDE DEF c
<1>5. /\ conn' \in [Conns -> Connections] /\ conn'[k] = c
      /\ \A o \in Conns : o # k => conn'[o] = conn[o]
    BY <1>2, <1>3, <1>4
<1> QED
    BY <1>1, <1>4, <1>5, PeerKept

\* A request to close an attached connection is queued on its loop.
LEMMA PostCloseKept ==
    ASSUME IInv, NEW k \in Conns, NEW l \in Loops, conn[k].loop = l, Post(l, "close", k),
           UNCHANGED <<file, interest, channels, chfd, aborted, at, listen, pool, early, conns,
                       conn>>,
           wild' \in BOOLEAN, doomed' \subseteq Conns, NoneLeft'
    PROVE  IInv'
<1> PICK r \in Functors : r = [op |-> "close", conn |-> k]
    BY Zenon DEF Functors
<1>1. thread' = [thread EXCEPT ![l].pending = Append(@, r)]
    BY DEF Post
<1>2. r.op = "close" /\ r.conn = k
    OBVIOUS
<1>3. Fit(l, r)'
    BY <1>2 DEF Fit
<1>4. /\ thread' \in [Loops -> Threads] /\ SameLives /\ SameClosing
      /\ \A i \in Loops : thread'[i].active = thread[i].active
    BY <1>1, <1>2, PostFacts, Zenon DEF IInv
<1>5. SameLoops /\ \A o \in Conns : Waiting(o)' <=> Waiting(o)
    BY DEF SameLoops, Waiting
<1>6. Types'
    BY <1>4, Zenon DEF IInv, Types
<1>7. Starting'
    BY <1>4, StartingKept, Zenon DEF IInv
<1>8. Accepted'
    BY <1>5, AcceptedKept, Zenon DEF IInv
<1>9. Queued'
  <2>1. \A o \in Conns : /\ Waiting(o) => Waiting(o)'
                         /\ conn[o].loop # None => conn'[o].loop = conn[o].loop
      BY <1>5, Zenon
  <2>2. r.op = "attach" => ~Waiting(r.conn)
      BY <1>2, Zenon
  <2>3. Fitting /\ AttachOnce /\ Batches /\ Types
      BY Zenon DEF IInv, Queued
  <2>4. Fitting' /\ AttachOnce' /\ Batches'
      BY ONLY <1>1, <1>2, <1>3, <2>1, <2>2, <2>3, QueuedPost, Zenon
  <2> QED
      BY <2>4, Zenon DEF Queued
<1>10. Mapped' /\ Active'
    BY <1>4, <1>5, MappedKept, ActiveKept DEF IInv
<1>11. Table'
    BY <1>4, <1>5, TableKept, Zenon DEF IInv
<1>12. Callbacks'
    BY <1>4, <1>5, CallbacksKept, Zenon DEF IInv
<1> QED
    BY <1>6, <1>7, <1>8, <1>9, <1>10, <1>11, <1>12 DEF IInv

\* Close() on another thread goes to the loop that the connection is attached to.
LEMMA ForeignCloseIInv ==
    ASSUME IInv, NEW k \in Conns, ForeignClose(k)
    PROVE  IInv'
<1>1. /\ at \in {"serve", "set"} /\ chfd[k] # None /\ Post(conn[k].loop, "close", k)
      /\ UNCHANGED <<file, interest, channels, chfd, aborted, at, listen, pool, early, conns,
                     doomed, conn, wild>>
    BY Zenon DEF ForeignClose, Serving, pollerVars
<1>2. conn[k] \in Connections /\ conn[k].loop # None
    BY <1>1, Zenon DEF IInv, Types, Accepted
<1>3. PICK l \in Loops : conn[k].loop = l
    BY <1>2, Zenon DEF Connections
<1>4. NoneLeft' /\ wild' \in BOOLEAN /\ doomed' \subseteq Conns
    BY <1>1, Zenon DEF NoneLeft, IInv, Types
<1> QED
    BY <1>1, <1>3, <1>4, PostCloseKept, Zenon

\* A loop returns only once the pool is destroyed.
LEMMA LoopReturnsIInv ==
    ASSUME IInv, NEW l \in Loops, LoopReturns(l)
    PROVE  IInv'
<1>1. /\ thread[l].stage = "loop" /\ thread[l].quit
      /\ UNCHANGED <<file, interest, channels, chfd, evcap, aborted, at, listen, pool, early,
                     conns, doomed, wild, trouble, conn>>
    BY DEF LoopReturns, Stage, pollerVars, baseVars
<1> DEFINE t == [thread[l] EXCEPT !.stage = "exit", !.ptr = FALSE]
<1>2. thread \in [Loops -> Threads]
    BY DEF IInv, Types
<1>3. thread' = [thread EXCEPT ![l] = t]
    BY <1>2, Zenon DEF LoopReturns
<1>4. /\ t \in Threads /\ t.stage = "exit" /\ t.wake = thread[l].wake
      /\ t.latch = thread[l].latch /\ t.quit = thread[l].quit /\ t.closing = thread[l].closing
      /\ t.active = thread[l].active /\ t.pending = thread[l].pending
      /\ t.batch = thread[l].batch
    BY <1>2, ZenonT(30) DEF Threads, Stages
<1> HIDE DEF t
<1>5. /\ thread' \in [Loops -> Threads] /\ thread'[l] = t
      /\ \A i \in Loops : i # l => thread'[i] = thread[i]
    BY <1>2, <1>3, <1>4, ThreadSet, Zenon
<1>6. Types'
    BY <1>1, <1>5, Zenon DEF IInv, Types
<1>7. Starting'
  <2>1. ASSUME NEW i \in Loops PROVE Life(i)'
    <3>1. CASE i = l
        BY <1>1, <1>4, <1>5, <3>1, Zenon DEF IInv, Starting, Life
    <3>2. CASE i # l
        BY <1>1, <1>5, <3>2 DEF IInv, Starting, Life
    <3> QED
        BY <3>1, <3>2
  <2>2. AssertionsHold'
      BY <1>1, <1>5, Zenon DEF IInv, Starting, AssertionsHold
  <2> QED
      BY <1>1, <2>1, <2>2, Zenon DEF IInv, Starting
<1>8. \A i \in Loops : thread'[i].stage # "functors" => thread[i].batch = <<>>
    BY <1>1, <1>4, <1>5, Zenon DEF IInv, Queued, Batches
<1>9. SameClosing /\ SameQueues
    BY <1>4, <1>5, Zenon DEF SameClosing, SameQueues
<1>10. Accepted' /\ Queued' /\ Mapped' /\ Active' /\ Table' /\ Callbacks'
    BY <1>1, <1>8, <1>9, OthersKept, Zenon
<1> QED
    BY <1>6, <1>7, <1>10 DEF IInv

\* The wakeup channel is removed, and removed again.
LEMMA DestroyLoopIInv ==
    ASSUME IInv, NEW l \in Loops, DestroyLoop(l)
    PROVE  IInv'
<1>1. /\ thread[l].stage \in {"exit", "destroy"} /\ aborted' = ~thread[l].wake
      /\ UNCHANGED <<file, interest, channels, chfd, evcap, at, listen, pool, early,
                     conns, doomed, wild, trouble, conn>>
    BY DEF DestroyLoop, baseVars
<1> DEFINE s == IF thread[l].stage = "exit" THEN "destroy" ELSE "gone"
           t == [thread[l] EXCEPT !.stage = s, !.wake = FALSE]
<1>2. thread \in [Loops -> Threads]
    BY DEF IInv, Types
<1>3. thread' = [thread EXCEPT ![l] = t]
    BY <1>2, Zenon DEF DestroyLoop
<1>4. /\ t \in Threads /\ t.stage = s /\ t.ptr = thread[l].ptr
      /\ t.latch = thread[l].latch /\ t.quit = thread[l].quit /\ t.closing = thread[l].closing
      /\ t.active = thread[l].active /\ t.pending = thread[l].pending
      /\ t.batch = thread[l].batch
    BY <1>2, ZenonT(30) DEF Threads, Stages
<1> HIDE DEF t
<1>5. /\ thread' \in [Loops -> Threads] /\ thread'[l] = t
      /\ \A i \in Loops : i # l => thread'[i] = thread[i]
    BY <1>2, <1>3, <1>4, ThreadSet, Zenon
<1>6. Types'
  <2>1. aborted' \in BOOLEAN
      BY <1>1, Zenon
  <2> QED
      BY <1>1, <1>5, <2>1, Zenon DEF IInv, Types
<1>7. Starting'
  <2>1. ASSUME NEW i \in Loops PROVE Life(i)'
    <3>1. CASE i = l
        BY <1>1, <1>4, <1>5, <3>1, Zenon DEF IInv, Starting, Life
    <3>2. CASE i # l
        BY <1>1, <1>5, <3>2, ZenonT(30) DEF IInv, Starting, Life
    <3> QED
        BY <3>1, <3>2
  <2>2. AssertionsHold'
    <3>1. CASE thread[l].stage = "exit"
      <4>1. thread[l].wake
          BY <3>1, SMTT(30) DEF IInv, Starting, Life
      <4> QED
          BY <1>1, <4>1, Zenon DEF AssertionsHold
    <3>2. CASE thread[l].stage = "destroy"
        BY <1>4, <1>5, <3>2 DEF AssertionsHold
    <3> QED
        BY <1>1, <3>1, <3>2, Zenon
  <2> QED
      BY <1>1, <2>1, <2>2, Zenon DEF IInv, Starting
<1>8. \A i \in Loops : thread'[i].stage # "functors" => thread[i].batch = <<>>
    BY <1>1, <1>4, <1>5, Zenon DEF IInv, Queued, Batches
<1>9. SameClosing /\ SameQueues
    BY <1>4, <1>5, Zenon DEF SameClosing, SameQueues
<1>10. Accepted' /\ Queued' /\ Mapped' /\ Active' /\ Table' /\ Callbacks'
    BY <1>1, <1>8, <1>9, OthersKept, Zenon
<1> QED
    BY <1>6, <1>7, <1>10 DEF IInv

\* A connection that is not attached has no loop to ask; then the step goes wild.
LEMMA PostCloseIInv ==
    ASSUME IInv, ~wild, NEW k \in Conns, PostClose(k)
    PROVE  IInv'
<1>1. /\ at = "close" /\ k \in doomed /\ doomed' = doomed \ {k}
      /\ wild' = (conn[k].loop = None) /\ wild' \in BOOLEAN /\ doomed' \subseteq Conns
      /\ UNCHANGED <<file, interest, channels, chfd, aborted, at, listen, pool, early, conns,
                     conn>>
    BY Zenon DEF PostClose, pollerVars, IInv, Types
<1>2. NoneLeft'
    BY <1>1, Zenon DEF IInv, Queued, NoneLeft
<1>3. CASE conn[k].loop = None
  <2>1. wild' /\ thread' = thread
      BY <1>3, Zenon DEF PostClose
  <2>2. SameLoops /\ SameClosing /\ SameLives /\ SameQueues
      BY <1>1, <2>1 DEF SameLoops, SameClosing, SameLives, SameQueues
  <2>3. \A o \in Conns : Waiting(o)' <=> Waiting(o)
      BY <1>1, Zenon DEF Waiting
  <2>4. Types'
      BY <1>1, <2>1, Zenon DEF IInv, Types
  <2>5. Starting'
      BY <1>1, <2>2, StartingKept, Zenon DEF IInv
  <2>6. Accepted'
      BY <1>1, <2>2, AcceptedKept, Zenon DEF IInv
  <2>7. Queued'
    <3>1. \A l \in Loops : Requests(l)' = Requests(l)
        BY <2>1, Zenon DEF Requests
    <3>2. Batches' /\ AttachOnce'
        BY <2>1, <3>1, SMTT(30) DEF IInv, Queued, Batches, AttachOnce
    <3>3. Fitting'
        BY <1>1, <3>1, Zenon DEF IInv, Queued, Fitting, Fit, Waiting
    <3> QED
        BY <1>2, <3>2, <3>3, Zenon DEF Queued
  <2>8. Mapped' /\ Active'
      BY <1>1, <2>1, <2>2, MappedKept, ActiveKept, Zenon DEF IInv
  <2>9. Table'
      BY <1>1, <2>2, TableKept, Zenon DEF IInv
  <2>10. Callbacks'
      BY <1>1, <2>2, <2>3, CallbacksKept, Zenon DEF IInv
  <2> QED
      BY <2>4, <2>5, <2>6, <2>7, <2>8, <2>9, <2>10 DEF IInv
<1>4. CASE conn[k].loop # None
  <2>1. PICK l \in Loops : conn[k].loop = l
      BY <1>4, Zenon DEF IInv, Types, Connections
  <2>2. Post(l, "close", k)
      BY <1>1, <1>4, <2>1, Zenon DEF PostClose
  <2> QED
      BY <1>1, <1>2, <2>1, <2>2, PostCloseKept, Zenon
<1> QED
    BY <1>3, <1>4, Zenon

\* The threads and connections stay, and no connection is left that was not.
LEMMA ServerEnds ==
    ASSUME IInv, UNCHANGED <<channels, chfd, early, conns>>,
           SameClosing, SameQueues, SameLoops, \A l \in Loops : thread'[l].stage = thread[l].stage,
           \A k \in Conns : /\ k \notin conns => conn'[k] = conn[k]
                            /\ Waiting(k) => conn'[k].sockfd = conn[k].sockfd
                            /\ conn'[k].readcb = conn[k].readcb
                            /\ conn'[k].msg = conn[k].msg,
           NoneLeft'
    PROVE  Accepted' /\ Queued' /\ Active' /\ Callbacks'
<1>1. \A o \in Conns : Waiting(o)' <=> Waiting(o)
    BY Zenon DEF Waiting, SameLoops
<1>2. Accepted'
    BY AcceptedKept, Zenon DEF IInv
<1>3. Queued'
  <2>1. \A l \in Loops : Requests(l)' = Requests(l)
      BY Zenon DEF Requests, SameQueues
  <2>2. AttachOnce'
      BY <2>1, SMTT(30) DEF IInv, Queued, AttachOnce
  <2>3. Batches'
      BY ZenonT(30) DEF IInv, Queued, Batches, SameQueues
  <2>4. Fitting'
    <3>1. \A l \in Loops : Requests(l) \in Seq(Functors)
        BY DEF Requests, IInv, Types, Threads
    <3>2. \A l \in Loops : \A i \in 1 .. Len(Requests(l)) : Requests(l)[i] \in Functors
        BY <3>1, SMTT(30)
    <3>3. \A l \in Loops : \A i \in 1 .. Len(Requests(l)) : Requests(l)[i].conn \in Conns
        BY <3>2, Zenon DEF Functors
    <3> QED
        BY <1>1, <2>1, <3>3, SMTT(30) DEF IInv, Queued, Fitting, Fit, SameLoops
  <2> QED
      BY <2>2, <2>3, <2>4, Zenon DEF Queued
<1>4. Active'
    BY ActiveKept, Zenon DEF IInv, SameQueues
<1>5. Callbacks'
    BY <1>1, CallbacksKept, Zenon DEF IInv
<1> QED
    BY <1>2, <1>3, <1>4, <1>5, Zenon

\* All the connections are to be closed.
LEMMA DestroyIInv ==
    ASSUME IInv, Destroy
    PROVE  IInv'
<1>1. /\ at = "serve" /\ at' = "close" /\ doomed' = conns
      /\ UNCHANGED <<file, interest, channels, chfd, aborted, listen, pool, early, conns,
                     thread, conn, wild>>
    BY Zenon DEF Destroy, pollerVars
<1>2. SameLives /\ SameClosing /\ SameQueues /\ SameLoops
    BY <1>1, Zenon DEF SameLives, SameClosing, SameQueues, SameLoops
<1>3. Types'
    BY <1>1, Zenon DEF IInv, Types, Ats
<1>4. NoneLeft'
    BY <1>1, Zenon DEF NoneLeft
<1>5. Starting'
    BY <1>1, <1>2, StartingKept, Zenon DEF IInv, Served
<1>6. Accepted' /\ Queued' /\ Active' /\ Callbacks'
    BY <1>1, <1>2, <1>4, ServerEnds, Zenon
<1>7. Mapped'
    BY <1>1, <1>2, MappedKept, Zenon DEF IInv
<1>8. Table'
    BY <1>1, <1>2, TableKept, Zenon DEF IInv
<1> QED
    BY <1>3, <1>5, <1>6, <1>7, <1>8, Zenon DEF IInv

\* close(f) changes nothing but f.
LEMMA CloseFdFacts ==
    ASSUME Types, NEW f \in Fds, CloseFd(f)
    PROVE  /\ file' \in [Fds -> Conns \cup {None, Leaked, Listener}]
           /\ interest' \in [Loops -> [Fds -> Conns \cup {None}]]
           /\ file'[f] = None /\ \A g \in Fds : g # f => file'[g] = file[g]
           /\ \A l \in Loops : interest'[l][f] = None
           /\ \A l \in Loops, g \in Fds : g # f => interest'[l][g] = interest[l][g]
BY Zenon DEF CloseFd, Types

\* A map of a loop holds the channels of the loop's connections.
LEMMA MapsAgree ==
    ASSUME Mapped
    PROVE  \A k \in Conns, f \in Fds, l \in Loops : Agree(k, f, l)
BY Zenon DEF Mapped

\* The kernel may forget descriptors, but the maps stay.
LEMMA MappedClosed ==
    ASSUME Mapped, Types, SameLoops, SameClosing, UNCHANGED <<channels, chfd>>,
           \A l \in Loops, f \in Fds :
              interest'[l][f] = interest[l][f] \/ interest'[l][f] = None
    PROVE  Mapped'
<1>1. \A l \in Loops : thread[l].closing.conn \in Conns \cup {None}
    BY Zenon DEF Types, Threads, Closings
<1>2. \A k \in Conns, f \in Fds, l \in Loops : Agree(k, f, l)'
  <2> SUFFICES ASSUME NEW k \in Conns, NEW f \in Fds, NEW l \in Loops
               PROVE  Agree(k, f, l)'
      BY Zenon
  <2>1. Agree(k, f, l)
      BY MapsAgree, Zenon
  <2> QED
      BY <2>1, Zenon DEF SameLoops, Agree
<1>3. \A f \in Fds, l \in Loops : Known(f, l)'
  <2> SUFFICES ASSUME NEW f \in Fds, NEW l \in Loops
               PROVE  Known(f, l)'
      BY Zenon
  <2>1. Known(f, l)
      BY Zenon DEF Mapped
  <2> QED
      BY <2>1, Zenon DEF Known
<1>4. ASSUME NEW l \in Loops
      PROVE  Closed(l)'
  <2>1. PICK o : o = thread[l].closing.conn
      BY Zenon
  <2>2. /\ thread'[l].closing = thread[l].closing /\ o \in Conns \cup {None}
        /\ o = None => thread[l].closing = Nothing
        /\ o # None => /\ conn[o].loop = l /\ chfd[o] \in Fds
                       /\ interest[l][chfd[o]] = None
      BY <1>1, <2>1, Zenon DEF Mapped, SameClosing, Closed
  <2>3. o # None => /\ conn'[o].loop = l /\ chfd'[o] \in Fds
                    /\ interest'[l][chfd'[o]] = None
      BY <2>2, Zenon DEF SameLoops
  <2> QED
      BY <2>1, <2>2, <2>3, Zenon DEF Closed
<1> QED
    BY <1>2, <1>3, <1>4, Zenon DEF Mapped

\* The listening socket has a number that no channel has.
LEMMA CloseListenerIInv ==
    ASSUME IInv, CloseListener
    PROVE  IInv'
<1>1. /\ at = "close" /\ doomed = {} /\ at' = "unlisten"
      /\ UNCHANGED <<channels, chfd, aborted, listen, pool, early, conns, doomed,
                     thread, conn, wild>>
    BY Zenon DEF CloseListener
<1>2. SameLives /\ SameClosing /\ SameQueues /\ SameLoops
    BY <1>1, Zenon DEF SameLives, SameClosing, SameQueues, SameLoops
<1>3. NoneLeft'
    BY <1>1, Zenon DEF IInv, Queued, NoneLeft
<1>4. Accepted' /\ Queued' /\ Active' /\ Callbacks'
    BY <1>1, <1>2, <1>3, ServerEnds, Zenon
<1>5. /\ file' \in [Fds -> Conns \cup {None, Leaked, Listener}]
      /\ interest' \in [Loops -> [Fds -> Conns \cup {None}]]
      /\ \A g \in Fds : file'[g] = file[g] \/ (file'[g] = None /\ file[g] = Listener)
      /\ \A l \in Loops, g \in Fds :
            \/ interest'[l][g] = interest[l][g]
            \/ interest'[l][g] = None /\ file[g] = Listener
  <2>1. CASE listen = None
      BY <2>1, Zenon DEF CloseListener, IInv, Types
  <2>2. CASE listen # None
    <3>1. listen \in Fds /\ CloseFd(listen) /\ Types
        BY <2>2, Zenon DEF CloseListener, IInv, Types
    <3>2. file[listen] = Listener
        BY <1>1, <2>2, Zenon DEF IInv, Table, Listening
    <3> QED
        BY <3>1, <3>2, CloseFdFacts, Zenon
  <2> QED
      BY <2>1, <2>2, Zenon
<1>6. Types'
    BY <1>1, <1>5, Zenon DEF IInv, Types, Ats
<1>7. Mapped'
  <2>1. \A l \in Loops, f \in Fds :
            interest'[l][f] = interest[l][f] \/ interest'[l][f] = None
      BY <1>5, Zenon
  <2> QED
      BY <1>1, <1>2, <2>1, MappedClosed, Zenon DEF IInv
<1>8. Starting'
    BY <1>1, <1>2, StartingKept, Zenon DEF IInv, Served
<1>9. Table'
  <2>1. \A k \in Conns : /\ (Waiting(k)' <=> Waiting(k)) /\ (Closing(k)' <=> Closing(k))
                         /\ k # None /\ k # Listener
      BY <1>1, PollerAssumption, ServerAssumption, Zenon DEF Waiting, Closing
  <2>2. \A k \in Conns, f \in Fds : Owner(k, f)'
    <3> SUFFICES ASSUME NEW k \in Conns, NEW f \in Fds
                 PROVE  Owner(k, f)'
        BY Zenon
    <3>1. Owner(k, f)
        BY <1>1, Zenon DEF IInv, Table
    <3>2. file'[f] = k <=> file[f] = k
        BY <1>5, <2>1, Zenon
    <3> QED
        BY <1>1, <2>1, <3>1, <3>2, Zenon DEF Owner
  <2>3. \A k \in Conns, f \in Fds, l \in Loops : Watched(k, f, l)'
    <3> SUFFICES ASSUME NEW k \in Conns, NEW f \in Fds, NEW l \in Loops,
                        channels[l][f] = k, ~Closing(k)
                 PROVE  interest'[l][f] = k
        BY <1>1, <2>1, Zenon DEF Watched
    <3>1. Watched(k, f, l) /\ Owner(k, f) /\ Agree(k, f, l)
        BY <1>1, Zenon DEF IInv, Table, Mapped
    <3>2. interest[l][f] = k /\ file[f] = k
        BY <3>1, Zenon DEF Watched, Owner, Agree
    <3> QED
        BY <1>5, <2>1, <3>2, Zenon
  <2> QED
      BY <1>1, <2>2, <2>3, Zenon DEF Table, Listening
<1> QED
    BY <1>4, <1>6, <1>7, <1>8, <1>9, Zenon DEF IInv

\* Sockets close their numbers again: nothing is opened, and of the connections only
\* those that go are touched.
LEMMA CloseAgainFacts ==
    ASSUME Types, NEW S, S \subseteq Conns, CloseAgain(S)
    PROVE  /\ file' \in [Fds -> Conns \cup {None, Leaked, Listener}]
           /\ interest' \in [Loops -> [Fds -> Conns \cup {None}]]
           /\ conn' \in [Conns -> Connections]
           /\ \A l \in Loops, f \in Fds :
                 interest'[l][f] = interest[l][f] \/ interest'[l][f] = None
           /\ \A k \in Conns : /\ k \notin S => conn'[k] = conn[k]
                               /\ conn'[k].loop = conn[k].loop
                               /\ conn'[k].readcb = conn[k].readcb
                               /\ conn'[k].msg = conn[k].msg
           /\ S = {} => UNCHANGED <<file, interest, conn>>
<1> DEFINE again == {conn[k].sockfd : k \in S}
           closed(k) == [conn[k] EXCEPT !.sockfd = None]
<1>1. /\ file' = [f \in Fds |-> IF f \in again THEN None ELSE file[f]]
      /\ interest' = [l \in Loops |-> [f \in Fds |->
                          IF f \in again THEN None ELSE interest[l][f]]]
      /\ conn' = [k \in Conns |-> IF k \in S THEN closed(k) ELSE conn[k]]
    BY Zenon DEF CloseAgain
<1>2. S = {} => again = {}
    OBVIOUS
<1>3. \A k \in Conns : /\ closed(k) \in Connections /\ closed(k).loop = conn[k].loop
                       /\ closed(k).readcb = conn[k].readcb /\ closed(k).msg = conn[k].msg
    BY ZenonT(30) DEF Types, Connections
<1> HIDE DEF again, closed
<1>4. conn \in [Conns -> Connections]
    BY DEF Types
<1>5. /\ conn' \in [Conns -> Connections]
      /\ \A k \in Conns : /\ k \notin S => conn'[k] = conn[k]
                          /\ conn'[k].loop = conn[k].loop
                          /\ conn'[k].readcb = conn[k].readcb
                          /\ conn'[k].msg = conn[k].msg
    BY <1>1, <1>3, <1>4
<1>6. S = {} => conn' = conn
    BY <1>1, <1>4, Zenon
<1>7. /\ file' \in [Fds -> Conns \cup {None, Leaked, Listener}]
      /\ interest' \in [Loops -> [Fds -> Conns \cup {None}]]
      /\ \A l \in Loops, f \in Fds :
            interest'[l][f] = interest[l][f] \/ interest'[l][f] = None
    BY <1>1, ZenonT(30) DEF Types
<1>8. S = {} => file' = file /\ interest' = interest
    BY <1>1, <1>2, Zenon DEF Types
<1> QED
    BY <1>5, <1>6, <1>7, <1>8, Zenon

\* No connection waits any more; the first loop is told to quit.
LEMMA DestroyPoolIInv ==
    ASSUME IInv, ~wild, DestroyPool
    PROVE  IInv'
<1>1. /\ at = "unlisten" /\ at' = "join" /\ CloseAgain(Unheld(thread))
      /\ UNCHANGED <<channels, chfd, aborted, listen, pool, early, conns, doomed, wild>>
    BY Zenon DEF DestroyPool
<1>2. Unheld(thread) \subseteq conns /\ Unheld(thread) \subseteq Conns
    BY Zenon DEF Unheld, IInv, Types
<1> DEFINE t == [thread[1] EXCEPT !.quit = @ \/ thread[1].ptr]
<1>3. thread \in [Loops -> Threads]
    BY DEF IInv, Types
<1>4. thread' = [thread EXCEPT ![1] = t]
    BY <1>3 DEF DestroyPool
<1>5. 1 \in Loops =>
         /\ t \in Threads /\ t.stage = thread[1].stage /\ t.ptr = thread[1].ptr
         /\ t.latch = thread[1].latch /\ t.wake = thread[1].wake
         /\ t.active = thread[1].active /\ t.pending = thread[1].pending
         /\ t.batch = thread[1].batch /\ t.closing = thread[1].closing
         /\ thread[1].quit => t.quit
    BY <1>3, ZenonT(30) DEF Threads
<1> HIDE DEF t
<1>6. /\ thread' \in [Loops -> Threads] /\ (1 \in Loops => thread'[1] = t)
      /\ \A i \in Loops : i # 1 => thread'[i] = thread[i]
    BY <1>3, <1>4, <1>5, Zenon
<1>7. SameClosing /\ SameQueues /\ \A l \in Loops : thread'[l].stage = thread[l].stage
    BY <1>5, <1>6, Zenon DEF SameClosing, SameQueues
<1>8. /\ file' \in [Fds -> Conns \cup {None, Leaked, Listener}]
      /\ interest' \in [Loops -> [Fds -> Conns \cup {None}]]
      /\ conn' \in [Conns -> Connections]
      /\ \A l \in Loops, f \in Fds :
            interest'[l][f] = interest[l][f] \/ interest'[l][f] = None
      /\ \A k \in Conns : /\ k \notin conns => conn'[k] = conn[k]
                          /\ conn'[k].loop = conn[k].loop
                          /\ conn'[k].readcb = conn[k].readcb
                          /\ conn'[k].msg = conn[k].msg
    BY <1>1, <1>2, CloseAgainFacts, Zenon DEF IInv
<1>9. SameLoops
    BY <1>8, Zenon DEF SameLoops
<1>10. \A k \in Conns : ~Waiting(k)
    BY <1>1, Zenon DEF IInv, Queued, NoneLeft, Waiting
<1>11. NoneLeft'
    BY <1>1, <1>9, <1>10, Zenon DEF NoneLeft, Waiting, SameLoops, IInv, Types
<1>12. Accepted' /\ Queued' /\ Active' /\ Callbacks'
    BY <1>1, <1>7, <1>8, <1>9, <1>10, <1>11, ServerEnds, Zenon
<1>13. Types'
    BY <1>1, <1>6, <1>8, Zenon DEF IInv, Types, Ats
<1>14. Starting'
  <2>1. ASSUME NEW i \in Loops PROVE Life(i)'
    <3>1. CASE i = 1
        BY <1>1, <1>5, <1>6, <3>1, ZenonT(30) DEF IInv, Starting, Life
    <3>2. CASE i # 1
        BY <1>1, <1>6, <3>2, Zenon DEF IInv, Starting, Life
    <3> QED
        BY <3>1, <3>2, Zenon
  <2>2. AssertionsHold'
      BY <1>1, <1>7, Zenon DEF IInv, Starting, AssertionsHold
  <2> QED
      BY <1>1, <2>1, <2>2, Zenon DEF IInv, Starting
<1>15. Mapped'
    BY <1>1, <1>7, <1>8, <1>9, MappedClosed, Zenon DEF IInv
<1>16. Table'
    BY <1>1, Zenon DEF Table, Owner, Watched, Listening
<1> QED
    BY <1>12, <1>13, <1>14, <1>15, <1>16, Zenon DEF IInv

-----------------------------------------------------------------------------
(* A loop's round.                                                          *)

\* The functors of a round go; connections that only they held are closed again.
LEMMA EndRoundIInv ==
    ASSUME IInv, NEW l \in Loops, EndRound(l)
    PROVE  IInv'
<1> DEFINE S == IF at = "join" THEN thread[l].held \cap Unheld(thread') ELSE {}
           t == [thread[l] EXCEPT !.stage = "loop", !.held = {}]
<1>1. /\ thread[l].stage = "functors" /\ thread[l].batch = <<>> /\ CloseAgain(S)
      /\ UNCHANGED <<channels, chfd, aborted, at, listen, pool, early, conns, doomed, wild>>
    BY Zenon DEF EndRound, Stage, baseVars
<1>2. S \subseteq Conns /\ (at # "join" => S = {}) /\ \A k \in S : k \in conns /\ ~Waiting(k)
    BY Zenon DEF Unheld, IInv, Types, Waiting
<1>3. thread \in [Loops -> Threads]
    BY DEF IInv, Types
<1>4. thread' = [thread EXCEPT ![l] = t]
    BY <1>3, Zenon DEF EndRound
<1>5. /\ t \in Threads /\ t.stage = "loop" /\ t.ptr = thread[l].ptr /\ t.quit = thread[l].quit
      /\ t.latch = thread[l].latch /\ t.wake = thread[l].wake
      /\ t.active = thread[l].active /\ t.pending = thread[l].pending
      /\ t.batch = thread[l].batch /\ t.closing = thread[l].closing
    BY <1>3, ZenonT(30) DEF Threads, Stages
<1> HIDE DEF t, S
<1>6. /\ thread' \in [Loops -> Threads] /\ thread'[l] = t
      /\ \A i \in Loops : i # l => thread'[i] = thread[i]
    BY <1>3, <1>4, <1>5, ThreadSet, Zenon
<1>7. SameClosing /\ SameQueues /\ SameLives
    BY <1>1, <1>5, <1>6, Zenon DEF SameClosing, SameQueues, SameLives, Running
<1>8. /\ file' \in [Fds -> Conns \cup {None, Leaked, Listener}]
      /\ interest' \in [Loops -> [Fds -> Conns \cup {None}]]
      /\ conn' \in [Conns -> Connections]
      /\ \A i \in Loops, f \in Fds :
            interest'[i][f] = interest[i][f] \/ interest'[i][f] = None
      /\ \A k \in Conns : /\ k \notin S => conn'[k] = conn[k]
                          /\ conn'[k].loop = conn[k].loop
                          /\ conn'[k].readcb = conn[k].readcb
                          /\ conn'[k].msg = conn[k].msg
      /\ S = {} => UNCHANGED <<file, interest, conn>>
    BY <1>1, <1>2, CloseAgainFacts, Zenon DEF IInv
<1>9. SameLoops /\ \A k \in Conns : Waiting(k)' <=> Waiting(k)
    BY <1>1, <1>8, Zenon DEF SameLoops, Waiting
<1>10. Types'
    BY <1>1, <1>6, <1>8, Zenon DEF IInv, Types
<1>11. Starting'
    BY <1>1, <1>7, StartingKept, Zenon DEF IInv
<1>12. Accepted'
  <2>1. \A k \in Conns : /\ k \notin conns => conn'[k] = conn[k]
                         /\ Waiting(k) => conn'[k].sockfd = conn[k].sockfd
      BY <1>2, <1>8, Zenon
  <2> QED
      BY <1>1, <1>9, <2>1, AcceptedKept, Zenon DEF IInv
<1>13. Queued'
  <2>1. \A i \in Loops : /\ Requests(i)' = Requests(i)
                         /\ thread'[i].stage # "functors" => thread'[i].batch = <<>>
      BY <1>1, <1>5, <1>6, <1>7, Zenon DEF Requests, SameQueues, IInv, Queued, Batches
  <2> QED
      BY <1>1, <1>9, <2>1, QueuedKept, Zenon DEF IInv
<1>14. Mapped'
    BY <1>1, <1>7, <1>8, <1>9, MappedClosed, Zenon DEF IInv
<1>15. Active'
    BY <1>1, <1>7, <1>9, ActiveKept, Zenon DEF IInv, SameQueues
<1>16. Table'
  <2>1. CASE at = "join"
      BY <1>1, <2>1, Zenon DEF Table, Owner, Watched, Listening
  <2>2. CASE at # "join"
      BY <1>1, <1>2, <1>7, <1>8, <1>9, <2>2, TableKept, Zenon DEF IInv
  <2> QED
      BY <2>1, <2>2, Zenon
<1>17. Callbacks'
    BY <1>1, <1>7, <1>8, <1>9, CallbacksKept, Zenon DEF IInv
<1> QED
    BY <1>10, <1>11, <1>12, <1>13, <1>14, <1>15, <1>16, <1>17, Zenon DEF IInv

\* The requests move from pendingFunctors_ to the batch, in order.
LEMMA TakeFunctorsIInv ==
    ASSUME IInv, NEW l \in Loops, TakeFunctors(l)
    PROVE  IInv'
<1> DEFINE p == thread[l].pending
           h == {r.conn : r \in Range(p)}
           t == [thread[l] EXCEPT !.stage = "functors", !.pending = <<>>, !.batch = p,
                                  !.held = h]
<1>1. /\ thread[l].stage = "events"
      /\ UNCHANGED <<file, interest, channels, chfd, aborted, at, listen, pool, early, conns,
                     doomed, wild, conn>>
    BY Zenon DEF TakeFunctors, Stage, pollerVars, baseVars
<1>2. thread \in [Loops -> Threads] /\ thread[l] \in Threads /\ p \in Seq(Functors)
    BY Zenon DEF IInv, Types, Threads
<1>3. h \subseteq Conns
  <2>1. Range(p) \subseteq Functors
      BY <1>2 DEF Range
  <2> QED
      BY <2>1, Zenon DEF Functors
<1>4. thread' = [thread EXCEPT ![l] = t]
    BY <1>2, Zenon DEF TakeFunctors
<1> HIDE DEF h
<1>5. <<>> \in Seq(Functors)
    OBVIOUS
<1>6. /\ t \in Threads /\ t.stage = "functors" /\ t.ptr = thread[l].ptr
      /\ t.quit = thread[l].quit /\ t.latch = thread[l].latch /\ t.wake = thread[l].wake
      /\ t.active = thread[l].active /\ t.pending = <<>> /\ t.batch = p
      /\ t.closing = thread[l].closing
    BY <1>2, <1>3, <1>5, Zenon DEF Threads, Stages
<1> HIDE DEF t
<1>7. /\ thread' \in [Loops -> Threads] /\ thread'[l] = t
      /\ \A i \in Loops : i # l => thread'[i] = thread[i]
    BY <1>2, <1>4, <1>6, ThreadSet, Zenon
<1>8. SameClosing /\ SameLives /\ \A i \in Loops : thread'[i].active = thread[i].active
    BY <1>1, <1>6, <1>7, Zenon DEF SameClosing, SameLives, Running
<1>9. SameLoops /\ \A k \in Conns : Waiting(k)' <=> Waiting(k)
    BY <1>1, Zenon DEF SameLoops, Waiting
<1>10. Types'
    BY <1>1, <1>7, Zenon DEF IInv, Types
<1>11. Starting'
    BY <1>1, <1>8, StartingKept, Zenon DEF IInv
<1>12. Accepted'
    BY <1>1, <1>9, AcceptedKept, Zenon DEF IInv
<1>13. Queued'
  <2>1. Requests(l)' = Requests(l)
    <3>1. thread[l].batch = <<>>
        BY <1>1 DEF IInv, Queued, Batches
    <3>2. <<>> \o p = p /\ p \o <<>> = p
        BY <1>2, ConcatEmpty
    <3> QED
        BY <1>6, <1>7, <3>1, <3>2, Zenon DEF Requests
  <2>2. \A i \in Loops : /\ Requests(i)' = Requests(i)
                         /\ thread'[i].stage # "functors" => thread'[i].batch = <<>>
      BY <1>6, <1>7, <2>1, Zenon DEF Requests, IInv, Queued, Batches
  <2> QED
      BY <1>1, <1>9, <2>2, QueuedKept, Zenon DEF IInv
<1>14. Mapped' /\ Active'
    BY <1>1, <1>8, <1>9, MappedKept, ActiveKept, Zenon DEF IInv
<1>15. Table'
    BY <1>1, <1>8, <1>9, TableKept, Zenon DEF IInv
<1>16. Callbacks'
    BY <1>1, <1>8, <1>9, CallbacksKept, Zenon DEF IInv
<1> QED
    BY <1>10, <1>11, <1>12, <1>13, <1>14, <1>15, <1>16 DEF IInv

\* What epoll_wait returns: channels that are ready, none twice.
LEMMA PolledFacts ==
    ASSUME NEW l \in Loops, NEW ready, ready \subseteq Conns,
           NEW list \in PollReady(l, ready)
    PROVE  /\ list \in Seq(Conns)
           /\ \A i \in 1 .. Len(list) : list[i] \in ready
           /\ \A i, j \in 1 .. Len(list) : list[i] = list[j] => i = j
<1>1. PICK n \in 0 .. evcap[l] :
          list \in [1 .. n -> ready] /\ IsInjective(list)
    BY Zenon DEF PollReady
<1>2. n \in Nat
    OBVIOUS
<1>3. \A i, j \in 1 .. n : list[i] = list[j] => i = j
    BY <1>1, Zenon DEF IsInjective
<1>4. list \in Seq(Conns) /\ Len(list) = n
    BY <1>1, <1>2, SMTT(30)
<1> QED
    BY <1>1, <1>3, <1>4, Zenon

\* What epoll knows is live and of this loop, so the active channels are.
LEMMA PollIInv ==
    ASSUME IInv, NEW l \in Loops, Poll(l)
    PROVE  IInv'
<1>1. /\ thread[l].stage = "loop" /\ thread[l].closing = Nothing
      /\ UNCHANGED <<file, interest, channels, chfd, aborted, at, listen, pool, early, conns,
                     doomed, wild, conn>>
    BY DEF Poll, Stage, baseVars
<1>2. PICK list \in PollReady(l, Ready(l)) :
          thread' = [thread EXCEPT ![l].stage = "events", ![l].active = list]
    BY Zenon DEF Poll
<1>3. /\ list \in Seq(Conns)
      /\ \A i \in 1 .. Len(list) : list[i] \in Ready(l)
      /\ \A i, j \in 1 .. Len(list) : list[i] = list[j] => i = j
  <2>1. Ready(l) \subseteq Conns
      BY DEF Ready
  <2> QED
      BY <2>1, PolledFacts
<1> DEFINE t == [thread[l] EXCEPT !.stage = "events", !.active = list]
<1>4. thread \in [Loops -> Threads]
    BY DEF IInv, Types
<1>5. thread' = [thread EXCEPT ![l] = t]
    BY <1>2, <1>4, Zenon
<1>6. /\ t \in Threads /\ t.stage = "events" /\ t.ptr = thread[l].ptr
      /\ t.quit = thread[l].quit /\ t.latch = thread[l].latch /\ t.wake = thread[l].wake
      /\ t.active = list /\ t.pending = thread[l].pending /\ t.batch = thread[l].batch
      /\ t.closing = Nothing
    BY <1>1, <1>3, <1>4, ZenonT(30) DEF Threads, Stages
<1> HIDE DEF t
<1>7. /\ thread' \in [Loops -> Threads] /\ thread'[l] = t
      /\ \A i \in Loops : i # l => thread'[i] = thread[i]
    BY <1>4, <1>5, <1>6, ThreadSet, Zenon
<1>8. SameClosing /\ SameLives
    BY <1>1, <1>6, <1>7, Zenon DEF SameClosing, SameLives, Running
<1>9. SameLoops /\ \A k \in Conns : Waiting(k)' <=> Waiting(k)
    BY <1>1, Zenon DEF SameLoops, Waiting
<1>10. Types'
    BY <1>1, <1>7, Zenon DEF IInv, Types
<1>11. Starting'
    BY <1>1, <1>8, StartingKept, Zenon DEF IInv
<1>12. Accepted'
    BY <1>1, <1>9, AcceptedKept, Zenon DEF IInv
<1>13. Queued'
  <2>1. \A i \in Loops : /\ Requests(i)' = Requests(i)
                         /\ thread'[i].stage # "functors" => thread'[i].batch = <<>>
      BY <1>1, <1>6, <1>7, Zenon DEF Requests, IInv, Queued, Batches
  <2> QED
      BY <1>1, <1>9, <2>1, QueuedKept, Zenon DEF IInv
<1>14. Mapped'
    BY <1>1, <1>8, <1>9, MappedKept, Zenon DEF IInv
<1>15. Active'
  <2>1. ASSUME NEW k \in Ready(l)
        PROVE  /\ chfd[k] # None /\ conn[k].loop = l
               /\ Nothing # [conn |-> k, delete |-> TRUE]
    <3>1. PICK f \in Fds : k \in Conns /\ interest[l][f] = k
        BY Zenon DEF Ready
    <3>2. k # None /\ f # None
        BY <3>1, Distinct, Zenon
    <3>3. chfd[k] = f /\ conn[k].loop = l
        BY <3>1, <3>2, SMTT(30) DEF IInv, Mapped, Agree, Known, Closed
    <3>4. Nothing.delete = FALSE /\ [conn |-> k, delete |-> TRUE].delete = TRUE
        BY Zenon DEF Nothing
    <3> QED
        BY <3>2, <3>3, <3>4, Zenon
  <2>2. ASSUME NEW i \in Loops
        PROVE  /\ \A n \in 1 .. Len(thread'[i].active) :
                     LET k == thread'[i].active[n]
                     IN  /\ chfd'[k] # None /\ conn'[k].loop = i
                         /\ thread'[i].closing # [conn |-> k, delete |-> TRUE]
               /\ \A n, m \in 1 .. Len(thread'[i].active) :
                     thread'[i].active[n] = thread'[i].active[m] => n = m
    <3>1. CASE i = l
        BY <1>1, <1>3, <1>6, <1>7, <2>1, <3>1, SMTT(30)
    <3>2. CASE i # l
        BY <1>1, <1>7, <3>2, SMTT(30) DEF IInv, Active
    <3> QED
        BY <3>1, <3>2, ZenonT(30)
  <2> QED
      BY <2>2, Zenon DEF Active
<1>16. Table'
    BY <1>1, <1>8, <1>9, TableKept, Zenon DEF IInv
<1>17. Callbacks'
    BY <1>1, <1>8, <1>9, CallbacksKept, Zenon DEF IInv
<1> QED
    BY <1>10, <1>11, <1>12, <1>13, <1>14, <1>15, <1>16, <1>17, Zenon DEF IInv

-----------------------------------------------------------------------------
(* Closing a channel.                                                       *)

\* A step of loop l within a stage: what is left of activeChannels_ and the functors.
Went(l, active, batch) ==
    /\ thread' \in [Loops -> Threads]
    /\ \A i \in Loops : i # l => thread'[i] = thread[i]
    /\ thread'[l].stage = thread[l].stage /\ thread'[l].ptr = thread[l].ptr
    /\ thread'[l].quit = thread[l].quit /\ thread'[l].latch = thread[l].latch
    /\ thread'[l].wake = thread[l].wake /\ thread'[l].pending = thread[l].pending
    /\ thread'[l].active = active /\ thread'[l].batch = batch

\* Channel::Close of connection k has begun, or found it closed before.
Begun(l, k, delete) ==
    \/ /\ chfd[k] \in Fds /\ chfd' = chfd /\ CloseFd(chfd[k])
       /\ thread'[l].closing = [conn |-> k, delete |-> delete]
    \/ /\ chfd[k] \notin Fds /\ UNCHANGED <<file, interest>>
       /\ thread'[l].closing = Nothing
       /\ chfd' = [chfd EXCEPT ![k] = IF delete THEN None ELSE @]

\* Nothing is closed.
Idle(l) == UNCHANGED <<file, interest, chfd>> /\ thread'[l].closing = Nothing

\* th is the thread of loop l, but for the channels and functors it has done.
Does(l, th) ==
    /\ th \in Threads /\ th.closing = Nothing
    /\ th.stage = thread[l].stage /\ th.ptr = thread[l].ptr
    /\ th.quit = thread[l].quit /\ th.latch = thread[l].latch
    /\ th.wake = thread[l].wake /\ th.pending = thread[l].pending

\* Loop l closes nothing, or begins to close its connection k.
Closes(l, k, delete) ==
    /\ thread[l].closing = Nothing
    /\ Idle(l) \/ (conn[k].loop = l /\ chfd[k] # None /\ Begun(l, k, delete))

\* The base thread's state, the maps, and the connections' loops and descriptors stay.
Still ==
    /\ UNCHANGED <<channels, aborted, at, listen, pool, early, conns, doomed, wild>>
    /\ conn' \in [Conns -> Connections] /\ SameLoops
    /\ \A o \in Conns : /\ conn'[o].sockfd = conn[o].sockfd
                        /\ o \notin conns => conn'[o] = conn[o]

\* No channel is made, and none but k deleted.
DeletedAtMost(k, delete) ==
    /\ \A o \in Conns : chfd'[o] # None => chfd[o] # None
    /\ \A o \in Conns : chfd'[o] = None => chfd[o] = None \/ (delete /\ o = k)

\* The thread's record after a step that closes nothing.
LEMMA IdleWent ==
    ASSUME Types, NEW l \in Loops, NEW th \in Threads, Does(l, th),
           thread' = [thread EXCEPT ![l] = th]
    PROVE  Went(l, th.active, th.batch) /\ thread'[l].closing = Nothing
BY Zenon DEF Types, Went, Does

\* BeginClose, in terms of the above.
LEMMA CloseWent ==
    ASSUME Types, NEW l \in Loops, NEW k \in Conns, NEW delete \in BOOLEAN,
           NEW th \in Threads, Does(l, th), BeginClose(l, k, delete, th)
    PROVE  Went(l, th.active, th.batch) /\ Begun(l, k, delete)
<1>1. CASE chfd[k] \in Fds
  <2> DEFINE c == [conn |-> k, delete |-> delete]
             t == [th EXCEPT !.closing = c]
  <2>1. thread' = [thread EXCEPT ![l] = t] /\ CloseFd(chfd[k]) /\ chfd' = chfd
      BY <1>1, Zenon DEF BeginClose
  <2>2. c \in Closings
      BY DEF Closings
  <2> HIDE DEF c
  <2>3. /\ t \in Threads /\ t.closing = c /\ t.stage = th.stage /\ t.ptr = th.ptr
        /\ t.quit = th.quit /\ t.latch = th.latch /\ t.wake = th.wake
        /\ t.pending = th.pending /\ t.active = th.active /\ t.batch = th.batch
      BY <2>2, Zenon DEF Threads
  <2> HIDE DEF t
  <2>4. /\ thread' \in [Loops -> Threads] /\ thread'[l] = t
        /\ \A i \in Loops : i # l => thread'[i] = thread[i]
      BY <2>1, <2>3, ThreadSet DEF Types
  <2>5. Went(l, th.active, th.batch)
      BY <2>3, <2>4, Zenon DEF Went, Does
  <2>6. thread'[l].closing = [conn |-> k, delete |-> delete]
      BY <2>3, <2>4, Zenon DEF c
  <2> QED
      BY <1>1, <2>1, <2>5, <2>6, Zenon DEF Begun
<1>2. CASE chfd[k] \notin Fds
  <2>1. /\ thread' = [thread EXCEPT ![l] = th] /\ UNCHANGED <<file, interest>>
        /\ chfd' = [chfd EXCEPT ![k] = IF delete THEN None ELSE @]
      BY <1>2, Zenon DEF BeginClose
  <2>2. Went(l, th.active, th.batch) /\ thread'[l].closing = Nothing
      BY <2>1, IdleWent, Zenon
  <2> QED
      BY <1>2, <2>1, <2>2, Zenon DEF Begun
<1> QED
    BY <1>1, <1>2, Zenon

\* A channel that its loop is not closing, no loop is.
LEMMA NotClosing ==
    ASSUME IInv, NEW l \in Loops, NEW k \in Conns, conn[k].loop = l,
           thread[l].closing = Nothing
    PROVE  ~Closing(k)
<1> SUFFICES ASSUME NEW i \in Loops, thread[i].closing.conn = k PROVE FALSE
    BY DEF Closing
<1>1. k # None
    BY PollerAssumption, Zenon
<1>2. i = l
    BY <1>1, Zenon DEF IInv, Mapped, Agree, Known, Closed
<1> QED
    BY <1>1, <1>2 DEF Nothing

\* The maps and the kernel's list when a channel begins to close.
LEMMA MappedBegun ==
    ASSUME IInv, NEW l \in Loops, NEW k \in Conns, NEW delete \in BOOLEAN,
           thread[l].closing = Nothing, conn[k].loop = l, Begun(l, k, delete),
           SameLoops, channels' = channels,
           \A i \in Loops : i # l => thread'[i] = thread[i]
    PROVE  Mapped'
<1>1. k # None /\ \A f \in Fds : f # None /\ f # -1
    BY Distinct, Zenon
<1>2. /\ \A i \in Loops : thread[i].closing.conn \in Conns \cup {None}
      /\ chfd \in [Conns -> Fds \cup {-1, None}]
    BY Zenon DEF IInv, Types, Threads, Closings
<1>3. CASE /\ chfd[k] \in Fds /\ chfd' = chfd /\ CloseFd(chfd[k])
           /\ thread'[l].closing = [conn |-> k, delete |-> delete]
  <2>1. /\ \A i \in Loops : interest'[i][chfd[k]] = None
        /\ \A i \in Loops, g \in Fds : g # chfd[k] => interest'[i][g] = interest[i][g]
      BY <1>3, CloseFdFacts, Zenon DEF IInv
  <2>2. \A o \in Conns, f \in Fds, i \in Loops : Agree(o, f, i)'
    <3> SUFFICES ASSUME NEW o \in Conns, NEW f \in Fds, NEW i \in Loops
                 PROVE  Agree(o, f, i)'
        BY Zenon
    <3>1. Agree(o, f, i)
        BY MapsAgree, Zenon DEF IInv
    <3> QED
        BY <1>3, <3>1, Zenon DEF SameLoops, Agree
  <2>3. \A f \in Fds, i \in Loops : Known(f, i)'
    <3> SUFFICES ASSUME NEW f \in Fds, NEW i \in Loops
                 PROVE  Known(f, i)'
        BY Zenon
    <3>1. Known(f, i)
        BY Zenon DEF IInv, Mapped
    <3> QED
        BY <2>1, <3>1, Zenon DEF Known
  <2>4. ASSUME NEW i \in Loops
        PROVE  Closed(i)'
    <3>1. CASE i = l
      <4>1. thread'[l].closing.conn = k
          BY <1>3
      <4>2. conn'[k].loop = l /\ chfd'[k] \in Fds /\ interest'[l][chfd'[k]] = None
          BY <1>3, <2>1, Zenon DEF SameLoops
      <4> QED
          BY <1>1, <3>1, <4>1, <4>2, Zenon DEF Closed
    <3>2. CASE i # l
      <4>1. PICK o : o = thread[i].closing.conn
          BY Zenon
      <4>2. /\ thread'[i].closing = thread[i].closing /\ o \in Conns \cup {None}
            /\ o = None => thread[i].closing = Nothing
            /\ o # None => /\ conn[o].loop = i /\ chfd[o] \in Fds
                           /\ interest[i][chfd[o]] = None
          BY <1>2, <3>2, <4>1, Zenon DEF IInv, Mapped, Closed
      <4>3. o # None => /\ conn'[o].loop = i /\ chfd'[o] \in Fds
                        /\ interest'[i][chfd'[o]] = None
          BY <1>3, <2>1, <4>2, Zenon DEF SameLoops
      <4> QED
          BY <4>1, <4>2, <4>3, Zenon DEF Closed
    <3> QED
        BY <3>1, <3>2, Zenon
  <2> QED
      BY <2>2, <2>3, <2>4, Zenon DEF Mapped
<1>4. CASE /\ chfd[k] \notin Fds /\ UNCHANGED <<file, interest>>
           /\ thread'[l].closing = Nothing
           /\ chfd' = [chfd EXCEPT ![k] = IF delete THEN None ELSE @]
  <2>1. /\ \A o \in Conns : o # k => chfd'[o] = chfd[o]
        /\ chfd'[k] \notin Fds
      BY <1>1, <1>2, <1>4, Zenon
  <2>2. \A o \in Conns, f \in Fds, i \in Loops : Agree(o, f, i)'
    <3> SUFFICES ASSUME NEW o \in Conns, NEW f \in Fds, NEW i \in Loops
                 PROVE  Agree(o, f, i)'
        BY Zenon
    <3>1. Agree(o, f, i)
        BY MapsAgree, Zenon DEF IInv
    <3>2. chfd'[o] = f <=> chfd[o] = f
        BY <1>4, <2>1, Zenon
    <3> QED
        BY <3>1, <3>2, Zenon DEF SameLoops, Agree
  <2>3. \A f \in Fds, i \in Loops : Known(f, i)'
    <3> SUFFICES ASSUME NEW f \in Fds, NEW i \in Loops
                 PROVE  Known(f, i)'
        BY Zenon
    <3>1. Known(f, i)
        BY Zenon DEF IInv, Mapped
    <3> QED
        BY <1>4, <3>1, Zenon DEF Known
  <2>4. ASSUME NEW i \in Loops
        PROVE  Closed(i)'
    <3>1. CASE i = l
      <4>1. Nothing.conn = None
          BY Zenon DEF Nothing
      <4> QED
          BY <1>4, <3>1, <4>1, Zenon DEF Closed
    <3>2. CASE i # l
      <4>1. thread'[i] = thread[i] /\ interest' = interest
          BY <1>4, <3>2, Zenon
      <4>2. ASSUME thread[i].closing.conn # None PROVE thread[i].closing.conn \in Conns \ {k}
          BY <1>2, <1>4, <4>2, Zenon DEF IInv, Mapped, Closed
      <4> QED
        <5>1. PICK o : o = thread[i].closing.conn
            BY Zenon
        <5>2. /\ o = None => thread[i].closing = Nothing
              /\ o # None => /\ conn[o].loop = i /\ chfd[o] \in Fds
                             /\ interest[i][chfd[o]] = None
            BY <5>1, Zenon DEF IInv, Mapped, Closed
        <5>3. o # None => /\ conn'[o].loop = i /\ chfd'[o] \in Fds
                          /\ interest'[i][chfd'[o]] = None
            BY <2>1, <4>1, <4>2, <5>1, <5>2, Zenon DEF SameLoops
        <5> QED
            BY <4>1, <5>1, <5>2, <5>3, Zenon DEF Closed
    <3> QED
        BY <3>1, <3>2, Zenon
  <2> QED
      BY <2>2, <2>3, <2>4, Zenon DEF Mapped
<1> QED
    BY <1>3, <1>4, Zenon DEF Begun

\* The table of descriptors when a channel begins to close: the number was the channel's
\* alone, so no other connection loses it.
LEMMA TableBegun ==
    ASSUME IInv, NEW l \in Loops, NEW k \in Conns, NEW delete \in BOOLEAN,
           thread[l].closing = Nothing, conn[k].loop = l, Begun(l, k, delete),
           SameLoops, UNCHANGED <<channels, at, listen, conns>>,
           \A o \in Conns : conn'[o].sockfd = conn[o].sockfd,
           \A i \in Loops : i # l => thread'[i] = thread[i]
    PROVE  Table'
<1> SUFFICES ASSUME at # "join" PROVE Table'
    BY Zenon DEF Table
<1>1. /\ k # None /\ l # None /\ \A f \in Fds : f # None /\ f # -1
      /\ \A o \in Conns : o # None /\ o # Listener
    BY Distinct, Zenon
<1>2. chfd \in [Conns -> Fds \cup {-1, None}] /\ listen \in Fds \cup {None} /\ Nothing.conn = None
    BY Zenon DEF IInv, Types, Nothing
<1>3. ~Waiting(k) /\ ~Closing(k) /\ \A o \in Conns : Waiting(o)' <=> Waiting(o)
    BY <1>1, NotClosing, Zenon DEF Waiting, SameLoops
<1>4. /\ \A o \in Conns, f \in Fds : Owner(o, f)
      /\ \A o \in Conns, f \in Fds, i \in Loops : Watched(o, f, i)
      /\ Listening
    BY Zenon DEF IInv, Table
<1>5. CASE /\ chfd[k] \in Fds /\ chfd' = chfd /\ CloseFd(chfd[k])
           /\ thread'[l].closing = [conn |-> k, delete |-> delete]
  <2>1. PICK g \in Fds : g = chfd[k]
      BY <1>5, Zenon
  <2>2. /\ file'[g] = None /\ \A f \in Fds : f # g => file'[f] = file[f]
        /\ \A i \in Loops, f \in Fds : f # g => interest'[i][f] = interest[i][f]
      BY <1>5, <2>1, CloseFdFacts, Zenon DEF IInv
  <2>3. file[g] = k
    <3>1. Owner(k, g)
        BY <1>4, Zenon
    <3> QED
        BY <1>3, <2>1, <3>1, Zenon DEF Owner
  <2>4. Closing(k)' /\ \A o \in Conns : o # k => (Closing(o)' <=> Closing(o))
    <3>1. thread'[l].closing.conn = k /\ thread[l].closing.conn = None
      <4>1. [conn |-> k, delete |-> delete].conn = k
          BY Zenon
      <4> QED
          BY <1>2, <1>5, <4>1, Zenon
    <3> QED
        BY <1>1, <3>1, Zenon DEF Closing
  <2>5. \A o \in Conns, f \in Fds : Owner(o, f)'
    <3> SUFFICES ASSUME NEW o \in Conns, NEW f \in Fds
                 PROVE  Owner(o, f)'
        BY Zenon
    <3>1. Owner(o, f)
        BY <1>4, Zenon
    <3>2. CASE o = k
      <4>1. ~Waiting(o)' /\ Closing(o)'
          BY <1>3, <2>4, <3>2, Zenon
      <4>2. ASSUME file'[f] = k PROVE FALSE
        <5>1. f # g
            BY <1>1, <2>2, <4>2, Zenon
        <5>2. file[f] = k
            BY <2>2, <4>2, <5>1, Zenon
        <5> QED
            BY <1>3, <2>1, <3>1, <3>2, <5>1, <5>2, Zenon DEF Owner
      <4> QED
          BY <3>2, <4>1, <4>2, Zenon DEF Owner
    <3>3. CASE o # k
      <4>1. /\ Waiting(o)' <=> Waiting(o)
            /\ Closing(o)' <=> Closing(o)
            /\ conn'[o].sockfd = conn[o].sockfd /\ chfd'[o] = chfd[o]
          BY <1>3, <1>5, <2>4, <3>3, Zenon
      <4>2. file'[f] = o <=> file[f] = o
          BY <1>1, <2>2, <2>3, <3>3, Zenon
      <4> QED
          BY <3>1, <4>1, <4>2, Zenon DEF Owner
    <3> QED
        BY <3>2, <3>3, Zenon
  <2>6. \A o \in Conns, f \in Fds, i \in Loops : Watched(o, f, i)'
    <3> SUFFICES ASSUME NEW o \in Conns, NEW f \in Fds, NEW i \in Loops,
                        channels'[i][f] = o, ~Closing(o)'
                 PROVE  interest'[i][f] = o
        BY Zenon DEF Watched
    <3>1. o # k /\ ~Closing(o) /\ channels[i][f] = o
        BY <2>4, Zenon
    <3>2. interest[i][f] = o /\ chfd[o] = f
      <4>1. Watched(o, f, i)
          BY <1>4, Zenon
      <4>2. \A c \in Conns, h \in Fds, j \in Loops : Agree(c, h, j)
          BY MapsAgree, Zenon DEF IInv
      <4>3. Agree(o, f, i)
          BY <4>2, Zenon
      <4> QED
          BY <3>1, <4>1, <4>3, Zenon DEF Agree, Watched
    <3>3. file[f] = o
      <4>1. Owner(o, f)
          BY <1>4, Zenon
      <4> QED
          BY <3>1, <3>2, <4>1, Zenon DEF Owner
    <3> QED
        BY <2>2, <2>3, <3>1, <3>2, <3>3, Zenon
  <2>7. Listening'
      BY <1>1, <1>2, <1>4, <2>2, <2>3, Zenon DEF Listening
  <2> QED
      BY <2>5, <2>6, <2>7, TableIs, Zenon
<1>6. CASE /\ chfd[k] \notin Fds /\ UNCHANGED <<file, interest>>
           /\ thread'[l].closing = Nothing
           /\ chfd' = [chfd EXCEPT ![k] = IF delete THEN None ELSE @]
  <2>1. \A o \in Conns, f \in Fds : chfd'[o] = f <=> chfd[o] = f
      BY <1>1, <1>2, <1>6, Zenon
  <2>2. \A o \in Conns : Closing(o)' <=> Closing(o)
      BY <1>6, Zenon DEF Closing
  <2>3. \A o \in Conns, f \in Fds : Owner(o, f)'
    <3> SUFFICES ASSUME NEW o \in Conns, NEW f \in Fds
                 PROVE  Owner(o, f)'
        BY Zenon
    <3>1. Owner(o, f)
        BY <1>4, Zenon
    <3>2. /\ Waiting(o)' <=> Waiting(o)
          /\ Closing(o)' <=> Closing(o)
          /\ chfd'[o] = f <=> chfd[o] = f
        BY <1>3, <2>1, <2>2, Zenon
    <3> QED
        BY <1>6, <3>1, <3>2, Zenon DEF Owner
  <2>4. \A o \in Conns, f \in Fds, i \in Loops : Watched(o, f, i)'
    <3> SUFFICES ASSUME NEW o \in Conns, NEW f \in Fds, NEW i \in Loops,
                        channels'[i][f] = o, ~Closing(o)'
                 PROVE  interest'[i][f] = o
        BY Zenon DEF Watched
    <3>1. \A c \in Conns, h \in Fds, j \in Loops : Watched(c, h, j)
        BY <1>4, Zenon
    <3>2. Watched(o, f, i)
        BY <3>1, Zenon
    <3> QED
        BY <1>6, <2>2, <3>2, Zenon DEF Watched
  <2>5. Listening'
      BY <1>4, <1>6, Zenon DEF Listening
  <2> QED
      BY <2>3, <2>4, <2>5, TableIs, Zenon
<1> QED
    BY <1>5, <1>6, Zenon DEF Begun

\* A step within a loop's stage that may close a channel k of the loop: what does not
\* depend on the functors, the active channels and the callbacks.
LEMMA WentKept ==
    ASSUME IInv, NEW l \in Loops, NEW k \in Conns, NEW delete \in BOOLEAN,
           NEW active, NEW batch, Went(l, active, batch), Closes(l, k, delete), Still
    PROVE  /\ Types' /\ Starting' /\ Accepted' /\ Mapped' /\ Table'
           /\ DeletedAtMost(k, delete)
<1> USE DEF Closes, Still
<1>1. /\ \A f \in Fds : f # None /\ f # -1
      /\ chfd \in [Conns -> Fds \cup {-1, None}]
    BY Distinct, Zenon DEF IInv, Types
<1>2. /\ file' \in [Fds -> Conns \cup {None, Leaked, Listener}]
      /\ interest' \in [Loops -> [Fds -> Conns \cup {None}]]
      /\ chfd' \in [Conns -> Fds \cup {-1, None}]
      /\ \A o \in Conns : chfd'[o] # None => chfd[o] # None
      /\ \A o \in Conns : chfd'[o] = None => chfd[o] = None \/ (delete /\ o = k)
  <2>1. CASE Idle(l)
      BY <2>1, Zenon DEF Idle, IInv, Types
  <2>2. CASE chfd[k] \in Fds /\ chfd' = chfd /\ CloseFd(chfd[k])
      BY <1>1, <2>2, CloseFdFacts, Zenon DEF IInv
  <2>3. CASE /\ UNCHANGED <<file, interest>> /\ chfd[k] # None
             /\ chfd' = [chfd EXCEPT ![k] = IF delete THEN None ELSE @]
      BY <1>1, <2>3, Zenon DEF IInv, Types
  <2> QED
      BY <2>1, <2>2, <2>3, Zenon DEF Begun
<1>3. Types'
    BY <1>2, Zenon DEF IInv, Types, Went
<1>4. Starting'
  <2>1. SameLives
      BY Zenon DEF SameLives, Went
  <2> QED
      BY <2>1, StartingKept, Zenon DEF IInv
<1>5. Accepted'
    BY <1>2, AcceptedKept, Zenon DEF IInv
<1>6. ASSUME Idle(l) PROVE SameClosing
    BY <1>6, Zenon DEF Idle, SameClosing, Went
<1>7. \A i \in Loops : i # l => thread'[i] = thread[i]
    BY Zenon DEF Went
<1>8. Mapped'
  <2>1. CASE Idle(l)
      BY <1>6, <2>1, MappedKept, Zenon DEF IInv, Idle
  <2>2. CASE conn[k].loop = l /\ Begun(l, k, delete)
      BY <1>7, <2>2, MappedBegun, Zenon
  <2> QED
      BY <2>1, <2>2, Zenon
<1>9. Table'
  <2>1. CASE Idle(l)
      BY <1>6, <2>1, TableKept, Zenon DEF IInv, Idle
  <2>2. CASE conn[k].loop = l /\ Begun(l, k, delete)
      BY <1>7, <2>2, TableBegun, Zenon
  <2> QED
      BY <2>1, <2>2, Zenon
<1> QED
    BY <1>2, <1>3, <1>4, <1>5, <1>8, <1>9, Zenon DEF DeletedAtMost

\* The rest of the active channels are live, whatever is closed: only the channel that
\* is being handled may be deleted.
LEMMA ActiveAfter ==
    ASSUME IInv, NEW l \in Loops, NEW k \in Conns, NEW delete \in BOOLEAN,
           NEW active, NEW batch, Went(l, active, batch), thread[l].closing = Nothing,
           \/ Idle(l)
           \/ /\ conn[k].loop = l /\ Begun(l, k, delete)
              /\ delete => (thread[l].active # <<>> /\ active = Tail(thread[l].active)
                              /\ k = Head(thread[l].active)),
           \/ active = thread[l].active
           \/ thread[l].active # <<>> /\ active = Tail(thread[l].active),
           SameLoops,
           \A o \in Conns : chfd'[o] = None => chfd[o] = None \/ (delete /\ o = k /\ ~Idle(l))
    PROVE  Active'
<1> DEFINE old == thread[l].active
<1>1. /\ thread[l].active \in Seq(Conns)
      /\ \A i \in Loops : \A n \in 1 .. Len(thread[i].active) : thread[i].active[n] \in Conns
  <2>1. \A i \in Loops : thread[i].active \in Seq(Conns)
      BY Zenon DEF IInv, Types, Threads
  <2> QED
      BY <2>1, SMTT(30)
<1>2. /\ \A n \in 1 .. Len(active) : \E m \in 1 .. Len(old) :
            active[n] = old[m] /\ (active # old => m # 1)
      /\ \A n, m \in 1 .. Len(active) : active[n] = active[m] => n = m
  <2>1. \A n, m \in 1 .. Len(old) : old[n] = old[m] => n = m
      BY Zenon DEF IInv, Active
  <2>2. CASE active = old
      BY <2>1, <2>2, Zenon
  <2>3. CASE old # <<>> /\ active = Tail(old)
    <3>1. /\ Len(old) \in Nat \ {0} /\ Len(active) = Len(old) - 1
          /\ \A n \in 1 .. Len(old) - 1 : active[n] = old[n + 1]
        BY <1>1, <2>3, TailFacts, Zenon
    <3>2. \A n \in 1 .. Len(active) : n + 1 \in 1 .. Len(old) /\ n + 1 # 1
        BY <3>1, SMTT(30)
    <3>3. \A n \in 1 .. Len(active) : active[n] = old[n + 1]
        BY <3>1, Zenon
    <3>4. \A n \in 1 .. Len(active) : \E m \in 1 .. Len(old) : active[n] = old[m] /\ m # 1
        BY <3>2, <3>3, Zenon
    <3>5. ASSUME NEW n \in 1 .. Len(active), NEW m \in 1 .. Len(active), active[n] = active[m]
          PROVE  n = m
      <4>1. n + 1 = m + 1
          BY <2>1, <3>2, <3>3, <3>5, ZenonT(30)
      <4> QED
          BY <3>1, <4>1, SMTT(30)
    <3> QED
        BY <3>4, <3>5, Zenon
  <2> QED
      BY <2>2, <2>3, Zenon
<1>3. ASSUME NEW n \in 1 .. Len(active)
      PROVE  /\ chfd'[active[n]] # None /\ conn'[active[n]].loop = l
             /\ thread'[l].closing # [conn |-> active[n], delete |-> TRUE]
  <2>1. PICK m \in 1 .. Len(old) : active[n] = old[m] /\ (active # old => m # 1)
      BY <1>2, <1>3, Zenon
  <2>2. /\ old[m] \in Conns /\ chfd[old[m]] # None /\ conn[old[m]].loop = l
        /\ \A i, j \in 1 .. Len(old) : old[i] = old[j] => i = j
      BY <1>1, Zenon DEF IInv, Active
  <2>3. ASSUME ~Idle(l), delete PROVE old[m] # k
    <3>1. old # <<>> /\ active = Tail(old) /\ k = Head(old)
        BY <2>3, Zenon
    <3>2. /\ Len(old) \in Nat \ {0} /\ Len(active) = Len(old) - 1 /\ k = old[1]
        BY <1>1, <3>1, TailFacts, Zenon
    <3>3. active # old /\ 1 \in 1 .. Len(old)
        BY <3>2, SMTT(30)
    <3> QED
        BY <2>1, <2>2, <3>2, <3>3, Zenon
  <2>4. chfd'[old[m]] # None /\ conn'[old[m]].loop = l
      BY <2>2, <2>3, Zenon DEF SameLoops
  <2>5. thread'[l].closing # [conn |-> old[m], delete |-> TRUE]
    <3>1. Nothing.delete = FALSE /\ \A o, d : /\ [conn |-> o, delete |-> d].delete = d
                                             /\ [conn |-> o, delete |-> d].conn = o
        BY Zenon DEF Nothing
    <3>2. CASE thread'[l].closing = Nothing
      <4>1. thread'[l].closing.delete # [conn |-> old[m], delete |-> TRUE].delete
          BY <3>1, <3>2, Zenon
      <4> QED
          BY <4>1, Zenon
    <3>3. CASE thread'[l].closing = [conn |-> k, delete |-> delete] /\ ~Idle(l)
      <4>1. delete => old[m] # k
          BY <2>3, <3>3, Zenon
      <4>2. ASSUME thread'[l].closing = [conn |-> old[m], delete |-> TRUE] PROVE FALSE
        <5>1. [conn |-> k, delete |-> delete] = [conn |-> old[m], delete |-> TRUE]
            BY <3>3, <4>2, Zenon
        <5>2. k = old[m] /\ delete = TRUE
            BY <3>1, <5>1, Zenon
        <5> QED
            BY <4>1, <5>2, Zenon
      <4> QED
          BY <4>2, Zenon
    <3> QED
        BY <3>2, <3>3, Zenon DEF Begun, Idle
  <2> QED
      BY <2>1, <2>4, <2>5, Zenon
<1>4. ASSUME NEW i \in Loops
      PROVE  /\ \A n \in 1 .. Len(thread'[i].active) :
                   LET o == thread'[i].active[n]
                   IN  /\ chfd'[o] # None /\ conn'[o].loop = i
                       /\ thread'[i].closing # [conn |-> o, delete |-> TRUE]
             /\ \A n, m \in 1 .. Len(thread'[i].active) :
                   thread'[i].active[n] = thread'[i].active[m] => n = m
  <2>1. CASE i = l
    <3>1. thread'[l].active = active
        BY Zenon DEF Went
    <3> QED
        BY <1>2, <1>3, <2>1, <3>1, ZenonT(30)
  <2>2. CASE i # l
    <3>1. thread'[i] = thread[i]
        BY <2>2, Zenon DEF Went
    <3>2. ASSUME NEW n \in 1 .. Len(thread[i].active)
          PROVE  LET o == thread[i].active[n]
                 IN  /\ chfd'[o] # None /\ conn'[o].loop = i
                     /\ thread[i].closing # [conn |-> o, delete |-> TRUE]
      <4>1. PICK o \in Conns : o = thread[i].active[n]
          BY <1>1, <3>2, Zenon
      <4>2. chfd[o] # None /\ conn[o].loop = i /\ thread[i].closing # [conn |-> o, delete |-> TRUE]
          BY <4>1, Zenon DEF IInv, Active
      <4>3. ~Idle(l) => conn[k].loop = l
          BY Zenon
      <4>4. chfd'[o] # None
          BY <2>2, <4>2, <4>3, Zenon
      <4> QED
          BY <4>1, <4>2, <4>4, Zenon DEF SameLoops
    <3>3. \A n, m \in 1 .. Len(thread[i].active) :
              thread[i].active[n] = thread[i].active[m] => n = m
        BY Zenon DEF IInv, Active
    <3> QED
        BY <3>1, <3>2, <3>3, Zenon
  <2> QED
      BY <2>1, <2>2, Zenon
<1> QED
    BY <1>4, Zenon DEF Active

\* The callbacks: one may be dropped with a channel that is being deleted, and whatever
\* is read of a channel is read with its callback.
LEMMA CallbacksAfter ==
    ASSUME IInv, NEW l \in Loops, thread[l].closing = Nothing,
           \A i \in Loops : i # l => thread'[i] = thread[i],
           UNCHANGED <<early, conns>>, SameLoops,
           \A o \in Conns :
              /\ chfd'[o] # None => chfd[o] # None
              /\ conn[o].msg # "input" /\ conn[o].readcb => conn'[o].msg # "input"
              /\ conn'[o].msg = conn[o].msg \/ (conn[o].loop = l /\ chfd[o] # None)
              /\ \/ conn'[o].readcb = conn[o].readcb
                 \/ /\ conn[o].loop # None
                    /\ chfd'[o] = None \/ thread'[l].closing = [conn |-> o, delete |-> TRUE]
    PROVE  Callbacks'
<1> SUFFICES ASSUME early, NEW o \in Conns
             PROVE  /\ Waiting(o)' => conn'[o].readcb
                    /\ chfd'[o] # None /\ ~(\E i \in Loops : thread'[i].closing = [conn |-> o, delete |-> TRUE])
                          => conn'[o].readcb
                    /\ conn'[o].msg # "input"
    BY DEF Callbacks
<1>1. /\ Waiting(o) => conn[o].readcb
      /\ chfd[o] # None /\ ~(\E i \in Loops : thread[i].closing = [conn |-> o, delete |-> TRUE])
            => conn[o].readcb
      /\ conn[o].msg # "input"
    BY Zenon DEF IInv, Callbacks
<1>2. Waiting(o)' <=> Waiting(o)
    BY Zenon DEF Waiting, SameLoops
<1>3. \A d : [conn |-> o, delete |-> d] # Nothing
  <2>1. \A d : [conn |-> o, delete |-> d].conn = o
      BY Zenon
  <2>2. Nothing.conn = None /\ o # None
      BY PollerAssumption, Zenon DEF Nothing
  <2> QED
      BY <2>1, <2>2, ZenonT(30)
<1>4. \A i \in Loops : thread[i].closing = [conn |-> o, delete |-> TRUE] =>
          thread'[i].closing = [conn |-> o, delete |-> TRUE]
    BY <1>3, Zenon
<1>5. Waiting(o)' => conn'[o].readcb
    BY <1>1, <1>2, Zenon DEF Waiting
<1>6. chfd'[o] # None /\ ~(\E i \in Loops : thread'[i].closing = [conn |-> o, delete |-> TRUE])
          => conn'[o].readcb
    BY <1>1, <1>4, Zenon
<1>7. conn'[o].msg # "input"
  <2>1. CASE conn'[o].msg = conn[o].msg
      BY <1>1, <2>1, Zenon
  <2>2. CASE conn[o].loop = l /\ chfd[o] # None
    <3>1. ~Closing(o)
        BY <2>2, NotClosing, ZenonT(30)
    <3>2. ~(\E i \in Loops : thread[i].closing = [conn |-> o, delete |-> TRUE])
        BY <3>1, SMTT(30) DEF Closing
    <3> QED
        BY <1>1, <2>2, <3>2, Zenon
  <2> QED
      BY <2>1, <2>2, Zenon
<1> QED
    BY <1>5, <1>6, <1>7, Zenon

\* What handling an event does to the connections: a message is read on loop l, and the
\* callback of k is dropped when it is deleted.
Reads(l, k) ==
    \A o \in Conns :
        /\ conn'[o].sockfd = conn[o].sockfd
        /\ o \notin conns => conn'[o] = conn[o]
        /\ conn[o].msg # "input" /\ conn[o].readcb => conn'[o].msg # "input"
        /\ conn'[o].msg = conn[o].msg \/ (conn[o].loop = l /\ chfd[o] # None)
        /\ \/ conn'[o].readcb = conn[o].readcb
           \/ conn[o].loop # None /\ o = k /\ Begun(l, o, TRUE)

\* The first active channel is handled: it or another of the loop may be closed, and
\* only itself deleted.
LEMMA EventKept ==
    ASSUME IInv, NEW l \in Loops, NEW k \in Conns, NEW delete \in BOOLEAN,
           thread[l].closing = Nothing, thread[l].active # <<>>,
           Went(l, Tail(thread[l].active), thread[l].batch),
           Idle(l) \/ (conn[k].loop = l /\ chfd[k] # None /\ Begun(l, k, delete)),
           delete => k = Head(thread[l].active),
           UNCHANGED <<channels, aborted, at, listen, pool, early, conns, doomed, wild>>,
           conn' \in [Conns -> Connections], SameLoops, Reads(l, k)
    PROVE  IInv'
<1> DEFINE active == Tail(thread[l].active)
           batch == thread[l].batch
<1>1. /\ Types' /\ Starting' /\ Accepted' /\ Mapped' /\ Table'
      /\ \A o \in Conns : chfd'[o] # None => chfd[o] # None
      /\ \A o \in Conns : chfd'[o] = None => chfd[o] = None \/ (delete /\ o = k)
  <2>1. \A o \in Conns : /\ conn'[o].sockfd = conn[o].sockfd
                         /\ o \notin conns => conn'[o] = conn[o]
      BY ZenonT(30) DEF Reads
  <2>2. Went(l, active, batch)
      BY Zenon
  <2> HIDE DEF active, batch
  <2> QED
    <3>1. Closes(l, k, delete) /\ Still
        BY <2>1, Zenon DEF Closes, Still
    <3>2. /\ Types' /\ Starting' /\ Accepted' /\ Mapped' /\ Table'
          /\ DeletedAtMost(k, delete)
        BY <2>2, <3>1, WentKept, Zenon
    <3> QED
        BY <3>2, Zenon DEF DeletedAtMost
<1>2. Queued'
  <2>1. \A i \in Loops : /\ Requests(i)' = Requests(i)
                         /\ thread'[i].stage # "functors" => thread'[i].batch = <<>>
    <3>1. ASSUME NEW i \in Loops
          PROVE  /\ thread'[i].batch = thread[i].batch /\ thread'[i].pending = thread[i].pending
                 /\ thread'[i].stage = thread[i].stage
        BY Zenon DEF Went
    <3> QED
        BY <3>1, Zenon DEF Requests, IInv, Queued, Batches
  <2> QED
      BY <2>1, QueuedKept, Zenon DEF IInv
<1>3. Active'
  <2>1. Idle(l) => chfd' = chfd
      BY Zenon DEF Idle
  <2>2. \A o \in Conns : chfd'[o] = None => chfd[o] = None \/ (delete /\ o = k /\ ~Idle(l))
      BY <1>1, <2>1, Zenon
  <2>3. \/ Idle(l)
        \/ /\ conn[k].loop = l /\ Begun(l, k, delete)
           /\ delete => (thread[l].active # <<>> /\ active = Tail(thread[l].active)
                              /\ k = Head(thread[l].active))
      BY Zenon
  <2>4. Went(l, active, batch)
      BY Zenon
  <2> HIDE DEF batch
  <2> QED
      BY <2>2, <2>3, <2>4, ActiveAfter, ZenonT(30)
<1>4. Callbacks'
  <2>1. \A o \in Conns : Begun(l, o, TRUE) =>
            chfd'[o] = None \/ thread'[l].closing = [conn |-> o, delete |-> TRUE]
      BY Zenon DEF Begun, IInv, Types
  <2>2. \A i \in Loops : i # l => thread'[i] = thread[i]
      BY Zenon DEF Went
  <2>3. \A o \in Conns :
            /\ chfd'[o] # None => chfd[o] # None
            /\ conn[o].msg # "input" /\ conn[o].readcb => conn'[o].msg # "input"
            /\ conn'[o].msg = conn[o].msg \/ (conn[o].loop = l /\ chfd[o] # None)
            /\ \/ conn'[o].readcb = conn[o].readcb
               \/ /\ conn[o].loop # None
                  /\ chfd'[o] = None \/ thread'[l].closing = [conn |-> o, delete |-> TRUE]
      BY <1>1, <2>1, Zenon DEF Reads
  <2> QED
      BY <2>2, <2>3, CallbacksAfter, Zenon
<1> QED
    BY <1>1, <1>2, <1>3, <1>4, Zenon DEF IInv

\* A read, which may close channels of the loop, or a CleanUp.
LEMMA HandleEventIInv ==
    ASSUME IInv, NEW l \in Loops, NEW c \in Conns \cup {None}, HandleEvent(l, c)
    PROVE  IInv'
<1> DEFINE r == [thread[l] EXCEPT !.active = Tail(@)]
           active == Tail(thread[l].active)
           batch == thread[l].batch
<1>1. /\ thread[l].closing = Nothing /\ thread[l].active # <<>>
      /\ UNCHANGED <<channels, aborted, at, listen, pool, early, conns, doomed, wild>>
    BY Zenon DEF HandleEvent, Stage, baseVars
<1>2. /\ thread \in [Loops -> Threads] /\ conn \in [Conns -> Connections]
      /\ thread[l] \in Threads /\ thread[l].active \in Seq(Conns)
    BY Zenon DEF IInv, Types, Threads
<1>3. /\ active \in Seq(Conns) /\ Head(thread[l].active) = thread[l].active[1]
      /\ Head(thread[l].active) \in Conns /\ 1 \in 1 .. Len(thread[l].active)
  <2>1. Len(thread[l].active) \in Nat \ {0}
      BY <1>1, <1>2, TailFacts, Zenon
  <2> QED
      BY <1>1, <1>2, <2>1, TailFacts, SMTT(30)
<1>4. PICK k \in Conns : k = Head(thread[l].active)
    BY <1>3, Zenon
<1>5. chfd[k] # None /\ conn[k].loop = l /\ l # None
  <2>1. \A i \in 1 .. Len(thread[l].active) :
            chfd[thread[l].active[i]] # None /\ conn[thread[l].active[i]].loop = l
      BY Zenon DEF IInv, Active
  <2>2. l # None
      BY PollerAssumption, Zenon
  <2> QED
      BY <1>3, <1>4, <2>1, <2>2, Zenon
<1>6. k \in conns
    BY <1>5 DEF IInv, Accepted, Conn
<1>7. r \in Threads /\ r.active = active /\ r.batch = batch /\ Does(l, r)
    BY <1>1, <1>2, <1>3, Zenon DEF Threads, Does
<1>8. PICK th \in Threads : th = r
    BY <1>7
<1>9. th.active = active /\ th.batch = batch /\ Does(l, th)
    BY <1>7, <1>8
<1> HIDE DEF r
<1>10. CASE ReadOn(l, k, c, th)
  <2> DEFINE calls == conn[k].msg = "wire" /\ conn[k].readcb
             m == IF conn[k].msg # "wire" THEN conn[k].msg
                  ELSE IF calls THEN "offered" ELSE "input"
             d == [conn[k] EXCEPT !.msg = m]
  <2>1. conn' = [conn EXCEPT ![k] = d]
      BY <1>2, <1>10 DEF ReadOn
  <2>2. /\ m \in {"none", "wire", "input", "offered"}
        /\ conn[k].msg # "input" /\ conn[k].readcb => m # "input"
      BY <1>2, Zenon DEF Connections
  <2> HIDE DEF m
  <2>3. /\ d \in Connections /\ d.loop = conn[k].loop /\ d.sockfd = conn[k].sockfd
        /\ d.readcb = conn[k].readcb /\ d.msg = m
      BY <1>2, <2>2, Zenon DEF Connections
  <2> HIDE DEF d
  <2>4. /\ conn' \in [Conns -> Connections] /\ conn'[k] = d
        /\ \A o \in Conns : o # k => conn'[o] = conn[o]
      BY <1>2, <2>1, <2>3, Zenon
  <2>5. SameLoops
      BY <2>3, <2>4, Zenon DEF SameLoops
  <2>6. \A o \in Conns : Reads(l, o)
      BY <1>5, <1>6, <2>2, <2>3, <2>4, Zenon DEF Reads
  <2>7. CASE c = None /\ thread' = [thread EXCEPT ![l] = th] /\ UNCHANGED <<file, interest, chfd>>
    <3>1. Went(l, active, batch) /\ Idle(l)
        BY <1>9, <2>7, IdleWent, Zenon DEF Idle, IInv
    <3> QED
        BY <1>1, <2>4, <2>5, <2>6, <3>1, EventKept, Zenon
  <2>8. CASE c # None /\ conn[c].loop = l /\ chfd[c] # None /\ CloseChannel(l, c, th)
    <3>1. c \in Conns
        BY <2>8, Zenon
    <3>2. Went(l, active, batch) /\ Begun(l, c, FALSE)
        BY <1>9, <2>8, <3>1, CloseWent, Zenon DEF CloseChannel, IInv
    <3>3. PICK delete \in BOOLEAN : delete = FALSE
        BY Zenon
    <3>4. /\ Went(l, Tail(thread[l].active), thread[l].batch)
          /\ conn[c].loop = l /\ chfd[c] # None /\ Begun(l, c, delete)
          /\ delete => c = Head(thread[l].active)
        BY <2>8, <3>2, <3>3, Zenon
    <3> QED
        BY <1>1, <2>4, <2>5, <2>6, <3>1, <3>4, EventKept, Zenon
  <2> QED
      BY <1>10, <2>7, <2>8 DEF ReadOn
<1>11. ASSUME NEW m \in {"none", "wire", "input", "offered"},
              conn[k].msg # "input" => m # "input" \/ conn[k].msg = "wire",
              CleanUp(l, k, m, th)
       PROVE  IInv'
  <2> DEFINE n == IF m = "input" /\ conn[k].readcb THEN "offered" ELSE m
             d == [conn[k] EXCEPT !.readcb = FALSE, !.msg = n]
  <2>1. conn' = [conn EXCEPT ![k] = d]
      BY <1>2, <1>11, Zenon DEF CleanUp
  <2>2. /\ n \in {"none", "wire", "input", "offered"}
        /\ conn[k].readcb => n # "input"
      OBVIOUS
  <2> HIDE DEF n
  <2>3. /\ d \in Connections /\ d.loop = conn[k].loop /\ d.sockfd = conn[k].sockfd
        /\ d.msg = n
      BY <1>2, <2>2, Zenon DEF Connections
  <2> HIDE DEF d
  <2>4. /\ conn' \in [Conns -> Connections] /\ conn'[k] = d
        /\ \A o \in Conns : o # k => conn'[o] = conn[o]
      BY <1>2, <2>1, <2>3, Zenon
  <2>5. SameLoops
      BY <2>3, <2>4, Zenon DEF SameLoops
  <2>6. Went(l, active, batch) /\ Begun(l, k, TRUE)
      BY <1>9, <1>11, CloseWent, Zenon DEF CleanUp, IInv
  <2>7. Reads(l, k)
      BY <1>5, <1>6, <2>2, <2>3, <2>4, <2>6, Zenon DEF Reads
  <2> QED
      BY <1>1, <1>4, <1>5, <2>4, <2>5, <2>6, <2>7, EventKept, Zenon
<1> QED
  <2>1. conn[k].msg \in {"none", "wire", "input", "offered"}
      BY <1>2, Zenon DEF Connections
  <2>2. \/ ReadOn(l, k, c, th)
        \/ \E m \in {conn[k].msg, "input"} :
              /\ m = "input" => conn[k].msg \in {"wire", "input"}
              /\ CleanUp(l, k, m, th)
      BY <1>4, <1>8, Zenon DEF HandleEvent, r
  <2> QED
      BY <1>10, <1>11, <2>1, <2>2, Zenon

-----------------------------------------------------------------------------
(* The functors of a round.                                                 *)

\* The next functor r is run: the others still fit.
LEMMA FunctorRun ==
    ASSUME IInv, NEW l \in Loops, NEW r \in Functors, NEW active, thread[l].batch # <<>>,
           Head(thread[l].batch) = r, thread[l].stage = "functors",
           Went(l, active, Tail(thread[l].batch)),
           UNCHANGED <<conns, doomed, wild, at>>,
           \A o \in Conns : /\ conn[o].loop # None => conn'[o].loop = conn[o].loop
                            /\ conn'[o].loop = conn[o].loop \/ (r.op = "attach" /\ o = r.conn)
    PROVE  Queued'
<1>1. /\ \A i \in Loops : Requests(i) \in Seq(Functors)
      /\ thread[l].batch \in Seq(Functors) /\ thread[l].pending \in Seq(Functors)
    BY SMTT(30) DEF IInv, Types, Threads, Requests
<1>2. /\ Len(Requests(l)) \in Nat \ {0} /\ Requests(l)[1] = r
      /\ Len(Requests(l)') = Len(Requests(l)) - 1
      /\ \A i \in 1 .. Len(Requests(l)) - 1 : Requests(l)'[i] = Requests(l)[i + 1]
  <2>1. /\ Requests(l) = thread[l].batch \o thread[l].pending
        /\ Requests(l)' = Tail(thread[l].batch) \o thread[l].pending
      BY Zenon DEF Requests, Went
  <2> DEFINE b == thread[l].batch
             p == thread[l].pending
  <2>2. b \in Seq(Functors) /\ p \in Seq(Functors) /\ b # <<>>
      BY <1>1, Zenon
  <2>3. /\ Len(b \o p) \in Nat \ {0}
        /\ Head(b) = (b \o p)[1] /\ Len(Tail(b) \o p) = Len(b \o p) - 1
        /\ \A i \in 1 .. Len(b \o p) - 1 : (Tail(b) \o p)[i] = (b \o p)[i + 1]
    <3> HIDE DEF b, p
    <3> QED
        BY ONLY <2>2, ConcatTail, Zenon
  <2>4. Head(b) = r
      BY Zenon
  <2> QED
      BY ONLY <2>1, <2>3, <2>4, Zenon
<1>3. \A m \in Loops : m # l => Requests(m)' = Requests(m)
    BY Zenon DEF Requests, Went
<1>4. \A m \in Loops : \A i \in 1 .. Len(Requests(m)') : \E j \in 1 .. Len(Requests(m)) :
          /\ Requests(m)'[i] = Requests(m)[j]
          /\ j = IF m = l THEN i + 1 ELSE i
    BY <1>2, <1>3
<1>5. \A m \in Loops : \A j \in 1 .. Len(Requests(m)) :
          Requests(m)[j] \in Functors /\ Requests(m)[j].conn \in Conns
  <2>1. \A m \in Loops : \A j \in 1 .. Len(Requests(m)) : Requests(m)[j] \in Functors
      BY <1>1, SMTT(30)
  <2> QED
      BY <2>1, Zenon DEF Functors
<1>6. Fitting'
  <2>1. ASSUME NEW m \in Loops, NEW i \in 1 .. Len(Requests(m)')
        PROVE  Fit(m, Requests(m)[i])'
    <3>1. PICK j \in 1 .. Len(Requests(m)) :
              Requests(m)'[i] = Requests(m)[j] /\ j = IF m = l THEN i + 1 ELSE i
        BY <1>4, Zenon
    <3>2. PICK q \in Functors : q = Requests(m)[j] /\ q.conn \in Conns
        BY <1>5, Zenon
    <3>3. Fit(m, q)
        BY <3>2, Zenon DEF IInv, Queued, Fitting
    <3>4. ASSUME q.op = "attach", r.op = "attach", q.conn = r.conn PROVE FALSE
      <4>1. 1 \in 1 .. Len(Requests(l))
          BY <1>2, SMTT(30)
      <4>2. m = l /\ j = 1
        <5>1. /\ Requests(l)[1].op = "attach" /\ Requests(m)[j].op = "attach"
              /\ Requests(l)[1].conn = Requests(m)[j].conn
            BY <1>2, <3>2, <3>4, Zenon
        <5>2. AttachOnce
            BY Zenon DEF IInv, Queued
        <5>3. l = m /\ 1 = j
            BY <4>1, <5>1, <5>2, ZenonT(30) DEF AttachOnce
        <5> QED
            BY <5>3, Zenon
      <4>3. i \in Nat \ {0} /\ j = i + 1
          BY <1>2, <3>1, <4>2, SMTT(30)
      <4> QED
          BY <4>2, <4>3, SMTT(30)
    <3>5. m # None
        BY PollerAssumption, Zenon
    <3>6. q.op = "attach" => Waiting(q.conn)'
        BY <3>2, <3>3, <3>4, Zenon DEF Fit, Waiting
    <3>7. q.op = "close" => conn'[q.conn].loop = m
        BY <3>2, <3>3, <3>5, Zenon DEF Fit
    <3>8. Fit(m, q)'
        BY <3>6, <3>7, ZenonT(30) DEF Fit
    <3> QED
        BY <3>1, <3>2, <3>8, Zenon
  <2> QED
      BY <2>1, Zenon DEF Fitting
<1>7. AttachOnce'
  <2>1. ASSUME NEW m \in Loops, NEW n \in Loops, NEW i \in 1 .. Len(Requests(m)'),
               NEW j \in 1 .. Len(Requests(n)'),
               Requests(m)'[i].op = "attach", Requests(n)'[j].op = "attach",
               Requests(m)'[i].conn = Requests(n)'[j].conn
        PROVE  m = n /\ i = j
    <3>1. PICK x \in 1 .. Len(Requests(m)) :
              Requests(m)'[i] = Requests(m)[x] /\ x = IF m = l THEN i + 1 ELSE i
        BY <1>4, Zenon
    <3>2. PICK y \in 1 .. Len(Requests(n)) :
              Requests(n)'[j] = Requests(n)[y] /\ y = IF n = l THEN j + 1 ELSE j
        BY <1>4, ZenonT(30)
    <3>3. m = n /\ x = y
        BY <2>1, <3>1, <3>2, SMTT(30) DEF IInv, Queued, AttachOnce
    <3> QED
        BY <3>1, <3>2, <3>3, SMTT(30)
  <2> QED
      BY <2>1, SMTT(30) DEF AttachOnce
<1>8. NoneLeft'
    BY Zenon DEF IInv, Queued, NoneLeft, Types
<1>9. Batches'
    BY Zenon DEF IInv, Queued, Batches, Went
<1> QED
    BY <1>6, <1>7, <1>8, <1>9, ZenonT(30) DEF Queued

\* What a functor finds: its request fits, and th is the thread without it.
Runs(l, op, k, th) ==
    /\ thread[l].stage = "functors" /\ thread[l].closing = Nothing
    /\ thread[l].batch # <<>> /\ Head(thread[l].batch) = [op |-> op, conn |-> k]
    /\ [op |-> op, conn |-> k] \in Functors
    /\ Does(l, th) /\ th.active = thread[l].active /\ th.batch = Tail(thread[l].batch)
    /\ op = "attach" => Waiting(k)
    /\ op = "close" => conn[k].loop = l

\* Every functor finds that.
LEMMA FunctorFacts ==
    ASSUME IInv, NEW l \in Loops, NEW k \in Conns, NEW op \in {"attach", "close"},
           NEW th, Functor(l, op, k, th)
    PROVE  Runs(l, op, k, th)
<1>1. /\ thread[l].stage = "functors" /\ thread[l].closing = Nothing
      /\ thread[l].batch # <<>> /\ Head(thread[l].batch) = [op |-> op, conn |-> k]
      /\ th = [thread[l] EXCEPT !.batch = Tail(@)]
    BY Zenon DEF Functor, Stage
<1>2. /\ thread[l] \in Threads /\ thread[l].batch \in Seq(Functors)
      /\ thread[l].pending \in Seq(Functors)
    BY Zenon DEF IInv, Types, Threads
<1>3. /\ Tail(thread[l].batch) \in Seq(Functors) /\ Len(Requests(l)) \in Nat \ {0}
      /\ Head(thread[l].batch) = Requests(l)[1]
    BY <1>1, <1>2, ConcatTail, Zenon DEF Requests
<1>4. Does(l, th) /\ th.active = thread[l].active /\ th.batch = Tail(thread[l].batch)
    BY <1>1, <1>2, <1>3, Zenon DEF Threads, Does
<1>5. PICK r \in Functors : r = [op |-> op, conn |-> k]
    BY Zenon DEF Functors
<1>6. 1 \in 1 .. Len(Requests(l))
    BY <1>3
<1>7. Fit(l, r)
    BY <1>1, <1>3, <1>5, <1>6, Zenon DEF IInv, Queued, Fitting
<1>8. r.op = op /\ r.conn = k
    BY <1>5, Zenon
<1> QED
    BY <1>1, <1>4, <1>5, <1>7, <1>8, Zenon DEF Fit, Runs

\* A request to close runs on the loop of its connection.
LEMMA RunCloseIInv ==
    ASSUME IInv, NEW l \in Loops, NEW k \in Conns, NEW th, RunClose(l, k, th)
    PROVE  IInv'
<1>1. /\ Functor(l, "close", k, th)
      /\ UNCHANGED <<channels, aborted, at, listen, pool, early, conns, doomed, wild, conn>>
    BY Zenon DEF RunClose, baseVars
<1>2. /\ thread[l].stage = "functors" /\ thread[l].closing = Nothing
      /\ thread[l].batch # <<>> /\ Head(thread[l].batch) = [op |-> "close", conn |-> k]
      /\ [op |-> "close", conn |-> k] \in Functors
      /\ Does(l, th) /\ th.active = thread[l].active /\ th.batch = Tail(thread[l].batch)
      /\ conn[k].loop = l
  <2>1. Runs(l, "close", k, th)
      BY <1>1, FunctorFacts, Zenon
  <2> QED
      BY <2>1, Zenon DEF Runs
<1>3. th \in Threads
    BY <1>2, Zenon DEF Does
<1>4. PICK delete \in BOOLEAN : delete = FALSE
    BY Zenon
<1>5. /\ Went(l, thread[l].active, Tail(thread[l].batch))
      /\ Idle(l) \/ (conn[k].loop = l /\ chfd[k] # None /\ Begun(l, k, delete))
  <2>1. CASE chfd[k] # None
    <3>1. BeginClose(l, k, FALSE, th)
        BY <2>1, Zenon DEF RunClose, CloseChannel
    <3>2. Went(l, th.active, th.batch) /\ Begun(l, k, FALSE)
        BY <1>2, <1>3, <3>1, CloseWent, Zenon DEF IInv
    <3> QED
        BY <1>2, <1>4, <2>1, <3>2, Zenon
  <2>2. CASE chfd[k] = None
    <3>1. thread' = [thread EXCEPT ![l] = th] /\ UNCHANGED <<file, interest, chfd>>
        BY <2>2, Zenon DEF RunClose
    <3>2. Went(l, th.active, th.batch) /\ Idle(l)
        BY <1>2, <1>3, <3>1, IdleWent, Zenon DEF Idle, IInv
    <3> QED
        BY <1>2, <3>2, Zenon
  <2> QED
      BY <2>1, <2>2, Zenon
<1>6. SameLoops /\ conn' \in [Conns -> Connections]
    BY <1>1, Zenon DEF SameLoops, IInv, Types
<1>7. PICK active, batch : active = thread[l].active /\ batch = Tail(thread[l].batch)
    BY Zenon
<1>8. Went(l, active, batch)
    BY <1>5, <1>7, Zenon
<1>9. /\ Types' /\ Starting' /\ Accepted' /\ Mapped' /\ Table'
      /\ \A o \in Conns : chfd'[o] # None => chfd[o] # None
      /\ \A o \in Conns : chfd'[o] = None => chfd[o] = None \/ (delete /\ o = k)
  <2>1. Closes(l, k, delete) /\ Still
      BY <1>1, <1>2, <1>5, <1>6, Zenon DEF Closes, Still
  <2>2. /\ Types' /\ Starting' /\ Accepted' /\ Mapped' /\ Table'
        /\ DeletedAtMost(k, delete)
      BY <1>8, <2>1, WentKept, Zenon
  <2> QED
      BY <2>2, Zenon DEF DeletedAtMost
<1>10. Queued'
  <2>1. PICK r \in Functors : r = [op |-> "close", conn |-> k]
      BY <1>2, Zenon
  <2>2. Head(thread[l].batch) = r /\ Went(l, active, Tail(thread[l].batch))
      BY <1>2, <1>7, <1>8, <2>1, Zenon
  <2> QED
      BY <1>1, <1>2, <2>2, FunctorRun, Zenon
<1>11. Active'
    BY <1>2, <1>4, <1>5, <1>6, <1>7, <1>8, <1>9, ActiveAfter, Zenon
<1>12. Callbacks'
  <2>1. \A i \in Loops : i # l => thread'[i] = thread[i]
      BY <1>8, Zenon DEF Went
  <2> QED
      BY <1>1, <1>2, <1>6, <1>9, <2>1, CallbacksAfter, Zenon
<1> QED
    BY <1>9, <1>10, <1>11, <1>12, Zenon DEF IInv

\* The number that a new channel is given is free in its poller's map: the descriptor is
\* open for its connection, and the loop is closing no other.
LEMMA AttachIInv ==
    ASSUME IInv, ~wild, NEW l \in Loops, NEW k \in Conns, NEW th, Attach(l, k, th)
    PROVE  IInv'
<1> DEFINE c == [conn[k] EXCEPT !.loop = l]
<1>1. /\ Functor(l, "attach", k, th) /\ thread' = [thread EXCEPT ![l] = th]
      /\ NewChannel(k, conn[k].sockfd) /\ AddChannel(l, k, conn[k].sockfd)
      /\ UNCHANGED <<file, aborted, at, listen, pool, early, conns, doomed, wild>>
    BY Zenon DEF Attach, baseVars
<1>2. /\ thread[l].stage = "functors" /\ thread[l].closing = Nothing
      /\ thread[l].batch # <<>> /\ Head(thread[l].batch) = [op |-> "attach", conn |-> k]
      /\ [op |-> "attach", conn |-> k] \in Functors
      /\ Does(l, th) /\ th.active = thread[l].active /\ th.batch = Tail(thread[l].batch)
      /\ Waiting(k)
  <2>1. Runs(l, "attach", k, th)
      BY <1>1, FunctorFacts, Zenon
  <2> QED
      BY <2>1, Zenon DEF Runs
<1>3. /\ k # None /\ l # None /\ \A g \in Fds : g # None /\ g # -1
      /\ \A o \in Conns : o # None
    BY Distinct, Zenon
<1>4. /\ conn \in [Conns -> Connections] /\ chfd \in [Conns -> Fds \cup {-1, None}]
      /\ interest \in [Loops -> [Fds -> Conns \cup {None}]]
      /\ channels \in [Loops -> [Fds -> Conns \cup {None}]]
      /\ \A i \in Loops : thread[i].closing.conn \in Conns \cup {None}
      /\ Nothing.conn = None
    BY Zenon DEF IInv, Types, Threads, Closings, Nothing
<1>5. conn[k].loop = None /\ k \in conns /\ chfd[k] = None /\ at # "join"
    BY <1>2, <1>4, Zenon DEF Waiting, IInv, Accepted, Queued, NoneLeft
<1>6. PICK f \in Fds : conn[k].sockfd = f
    BY <1>2, Zenon DEF IInv, Accepted
<1>7. th \in Threads
    BY <1>2, Zenon DEF Does
<1>8. Went(l, thread[l].active, Tail(thread[l].batch)) /\ thread'[l].closing = Nothing
    BY <1>1, <1>2, <1>7, IdleWent, Zenon DEF IInv
<1>9. SameClosing /\ SameLives /\ \A i \in Loops : thread'[i].active = thread[i].active
    BY <1>2, <1>8, Zenon DEF SameClosing, SameLives, Went
<1>10. conn' = [conn EXCEPT ![k] = c]
    BY <1>4, Zenon DEF Attach
<1>11. /\ c \in Connections /\ c.loop = l /\ c.sockfd = f
       /\ c.readcb = conn[k].readcb /\ c.msg = conn[k].msg
    BY <1>4, <1>6, ZenonT(30) DEF Connections
<1> HIDE DEF c
<1>12. /\ conn' \in [Conns -> Connections] /\ conn'[k] = c
       /\ \A o \in Conns : o # k => conn'[o] = conn[o]
    BY <1>4, <1>10, <1>11, Zenon
<1>13. /\ chfd' \in [Conns -> Fds \cup {-1, None}] /\ chfd'[k] = f
       /\ \A o \in Conns : o # k => chfd'[o] = chfd[o]
    BY <1>1, <1>4, <1>6, Zenon DEF NewChannel
<1>14. /\ interest' \in [Loops -> [Fds -> Conns \cup {None}]] /\ interest'[l][f] = k
       /\ \A i \in Loops, g \in Fds : i # l \/ g # f => interest'[i][g] = interest[i][g]
    BY <1>1, <1>4, <1>6, Zenon DEF AddChannel, Update
<1>15. /\ channels' \in [Loops -> [Fds -> Conns \cup {None}]] /\ channels'[l][f] = k
       /\ \A i \in Loops, g \in Fds : i # l \/ g # f => channels'[i][g] = channels[i][g]
    BY <1>1, <1>4, <1>6, Zenon DEF AddChannel
<1>16. /\ ~Waiting(k)' /\ ~Closing(k)
       /\ \A o \in Conns : /\ o # k => (Waiting(o)' <=> Waiting(o))
                           /\ Closing(o)' <=> Closing(o)
  <2>1. ~Closing(k)
      BY <1>3, <1>5, Zenon DEF Closing, IInv, Mapped, Closed
  <2> QED
      BY <1>1, <1>3, <1>9, <1>11, <1>12, <2>1, Zenon DEF Waiting, Closing, SameClosing
<1>17. /\ \A o \in Conns, g \in Fds : Owner(o, g)
       /\ \A o \in Conns, g \in Fds, i \in Loops : Watched(o, g, i)
       /\ Listening
    BY <1>5, Zenon DEF IInv, Table
<1>18. \A o \in Conns, g \in Fds, i \in Loops : Agree(o, g, i)
    BY Zenon DEF IInv, Mapped
<1>19. ASSUME NEW o \in Conns, o # k, chfd[o] = f, conn[o].loop = l PROVE FALSE
  <2>1. Owner(k, f) /\ Owner(o, f)
      BY <1>17, Zenon
  <2>2. ~Closing(o)
      BY <1>2, <1>19, NotClosing, Zenon
  <2>3. file[f] = k
      BY <1>2, <1>6, <2>1, Zenon DEF Owner
  <2>4. file[f] = o
      BY <1>19, <2>1, <2>2, Zenon DEF Owner
  <2> QED
      BY <1>19, <2>3, <2>4, Zenon
<1>20. Types'
    BY <1>1, <1>8, <1>12, <1>13, <1>14, <1>15, ZenonT(30) DEF IInv, Types, Went
<1>21. Starting'
    BY <1>1, <1>9, StartingKept, Zenon DEF IInv
<1>22. Accepted'
    BY <1>1, <1>3, <1>5, <1>11, <1>12, <1>13, <1>16, ZenonT(30) DEF IInv, Accepted, Waiting
<1>23. Queued'
  <2>1. PICK r \in Functors : r = [op |-> "attach", conn |-> k]
      BY <1>2, Zenon
  <2>2. r.op = "attach" /\ r.conn = k
      BY <2>1, Zenon
  <2>3. \A o \in Conns : /\ conn[o].loop # None => conn'[o].loop = conn[o].loop
                         /\ conn'[o].loop = conn[o].loop \/ (r.op = "attach" /\ o = r.conn)
      BY <1>5, <1>12, <2>2, Zenon
  <2>4. PICK active : active = thread[l].active
      BY Zenon
  <2>5. Head(thread[l].batch) = r /\ Went(l, active, Tail(thread[l].batch))
      BY <1>2, <1>8, <2>1, <2>4, Zenon
  <2> QED
      BY <1>1, <1>2, <2>3, <2>5, FunctorRun, Zenon
<1>24. Mapped'
  <2>1. ASSUME NEW o \in Conns, NEW g \in Fds, NEW i \in Loops
        PROVE  Agree(o, g, i)'
    <3>1. Agree(o, g, i)
        BY <1>18, Zenon
    <3>2. CASE o = k
      <4>1. channels[i][g] # k
          BY <1>3, <1>5, <3>1, <3>2, Zenon DEF Agree
      <4>2. CASE i = l /\ g = f
          BY <1>11, <1>12, <1>13, <1>15, <3>2, <4>2, Zenon DEF Agree
      <4>3. CASE i # l \/ g # f
        <5>1. channels'[i][g] # k
            BY <1>15, <4>1, <4>3, Zenon
        <5> QED
            BY <1>11, <1>12, <1>13, <3>2, <4>3, <5>1, Zenon DEF Agree
      <4> QED
          BY <4>2, <4>3, Zenon
    <3>3. CASE o # k
      <4>1. chfd'[o] = chfd[o] /\ conn'[o] = conn[o]
          BY <1>12, <1>13, <3>3, Zenon
      <4>2. CASE i = l /\ g = f
          BY <1>15, <1>19, <3>3, <4>1, <4>2, Zenon DEF Agree
      <4>3. CASE i # l \/ g # f
        <5>1. channels'[i][g] = channels[i][g]
            BY <1>15, <4>3, Zenon
        <5> QED
            BY <3>1, <4>1, <5>1, Zenon DEF Agree
      <4> QED
          BY <4>2, <4>3, Zenon
    <3> QED
        BY <3>2, <3>3, Zenon
  <2>2. ASSUME NEW g \in Fds, NEW i \in Loops
        PROVE  Known(g, i)'
    <3>1. Known(g, i)
        BY Zenon DEF IInv, Mapped
    <3>2. CASE i = l /\ g = f
        BY <1>14, <1>15, <3>2, Zenon DEF Known
    <3>3. CASE i # l \/ g # f
      <4>1. channels'[i][g] = channels[i][g] /\ interest'[i][g] = interest[i][g]
          BY <1>14, <1>15, <3>3, Zenon
      <4> QED
          BY <3>1, <4>1, Zenon DEF Known
    <3> QED
        BY <3>2, <3>3, Zenon
  <2>3. ASSUME NEW i \in Loops
        PROVE  Closed(i)'
    <3>1. CASE i = l
        BY <1>4, <1>8, <3>1, Zenon DEF Closed
    <3>2. CASE i # l
      <4>1. PICK o : o = thread[i].closing.conn
          BY Zenon
      <4>2. /\ thread'[i].closing = thread[i].closing /\ o \in Conns \cup {None}
            /\ o = None => thread[i].closing = Nothing
            /\ o # None => /\ conn[o].loop = i /\ chfd[o] \in Fds
                           /\ interest[i][chfd[o]] = None
          BY <1>4, <1>9, <4>1, Zenon DEF IInv, Mapped, SameClosing, Closed
      <4>3. o # k
          BY <1>3, <1>5, <4>2, Zenon
      <4>4. o # None => /\ conn'[o].loop = i /\ chfd'[o] \in Fds
                        /\ interest'[i][chfd'[o]] = None
        <5> SUFFICES ASSUME o # None
                     PROVE  /\ conn'[o].loop = i /\ chfd'[o] \in Fds
                            /\ interest'[i][chfd'[o]] = None
            BY Zenon
        <5>1. conn'[o] = conn[o] /\ chfd'[o] = chfd[o]
            BY <1>12, <1>13, <4>2, <4>3, Zenon
        <5>2. interest'[i][chfd[o]] = interest[i][chfd[o]]
            BY <1>14, <3>2, <4>2, Zenon
        <5> QED
            BY <4>2, <5>1, <5>2, Zenon
      <4> QED
          BY <4>1, <4>2, <4>4, Zenon DEF Closed
    <3> QED
        BY <3>1, <3>2, Zenon
  <2> QED
      BY <2>1, <2>2, <2>3, Zenon DEF Mapped
<1>25. Active'
  <2>1. \A i \in Loops : thread[i].active \in Seq(Conns)
      BY Zenon DEF IInv, Types, Threads
  <2>2. ASSUME NEW i \in Loops, NEW n \in 1 .. Len(thread[i].active)
        PROVE  LET o == thread[i].active[n]
               IN  /\ chfd'[o] # None /\ conn'[o].loop = i
                   /\ thread'[i].closing # [conn |-> o, delete |-> TRUE]
    <3>1. PICK o \in Conns : o = thread[i].active[n]
        BY <2>1, <2>2, SMTT(30)
    <3>2. chfd[o] # None /\ conn[o].loop = i /\ thread[i].closing # [conn |-> o, delete |-> TRUE]
        BY <3>1, Zenon DEF IInv, Active
    <3>3. o # k
        BY <1>5, <3>2, Zenon
    <3> QED
        BY <1>9, <1>12, <1>13, <3>1, <3>2, <3>3, ZenonT(30) DEF SameClosing
  <2>3. \A i \in Loops : \A n, m \in 1 .. Len(thread[i].active) :
            thread[i].active[n] = thread[i].active[m] => n = m
      BY Zenon DEF IInv, Active
  <2> QED
      BY <1>9, <2>2, <2>3, ActiveIs, Zenon
<1>26. Table'
  <2>1. ASSUME NEW o \in Conns, NEW g \in Fds
        PROVE  Owner(o, g)'
    <3>1. CASE o = k
      <4>1. file[g] = k <=> g = f
        <5>1. Owner(k, g)
            BY <1>17, Zenon
        <5>2. chfd[k] # g
            BY <1>3, <1>5, Zenon
        <5> QED
            BY <1>2, <1>6, <5>1, <5>2, Zenon DEF Owner
      <4>2. file'[g] = k <=> g = f
          BY <1>1, <4>1, Zenon
      <4> QED
          BY <1>13, <1>16, <3>1, <4>2, Zenon DEF Owner
    <3>2. CASE o # k
      <4>1. Owner(o, g)
          BY <1>17, Zenon
      <4>2. /\ file'[g] = file[g] /\ chfd'[o] = chfd[o] /\ conn'[o] = conn[o]
            /\ Waiting(o)' <=> Waiting(o)
            /\ Closing(o)' <=> Closing(o)
          BY <1>1, <1>12, <1>13, <1>16, <3>2, ZenonT(30)
      <4> QED
          BY <4>1, <4>2, Zenon DEF Owner
    <3> QED
        BY <3>1, <3>2, Zenon
  <2>2. ASSUME NEW o \in Conns, NEW g \in Fds, NEW i \in Loops
        PROVE  Watched(o, g, i)'
    <3>1. \A p \in Conns, h \in Fds, j \in Loops : Watched(p, h, j)
        BY <1>17, Zenon
    <3>2. Watched(o, g, i)
        BY <3>1, Zenon
    <3>3. CASE i = l /\ g = f
        BY <1>14, <1>15, <3>3, Zenon DEF Watched
    <3>4. CASE i # l \/ g # f
      <4>1. channels'[i][g] = channels[i][g] /\ interest'[i][g] = interest[i][g]
          BY <1>14, <1>15, <3>4, Zenon
      <4> QED
          BY <1>16, <3>2, <4>1, Zenon DEF Watched
    <3> QED
        BY <3>3, <3>4, Zenon
  <2> QED
      BY <1>1, <1>17, <2>1, <2>2, Zenon DEF Table, Listening
<1>27. Callbacks'
  <2> SUFFICES ASSUME early, NEW o \in Conns
               PROVE  /\ Waiting(o)' => conn'[o].readcb
                      /\ \/ chfd'[o] = None \/ conn'[o].readcb
                         \/ \E i \in Loops : thread'[i].closing = [conn |-> o, delete |-> TRUE]
                      /\ conn'[o].msg # "input"
      BY <1>1, Zenon DEF Callbacks
  <2>1. /\ Waiting(o) => conn[o].readcb
        /\ \/ chfd[o] = None \/ conn[o].readcb
           \/ \E i \in Loops : thread[i].closing = [conn |-> o, delete |-> TRUE]
        /\ conn[o].msg # "input"
      BY Zenon DEF IInv, Callbacks
  <2>2. conn'[o].readcb = conn[o].readcb /\ conn'[o].msg = conn[o].msg
      BY <1>11, <1>12, Zenon
  <2>3. CASE o = k
      BY <1>2, <2>1, <2>2, <2>3, Zenon
  <2>4. CASE o # k
      BY <1>9, <1>13, <1>16, <2>1, <2>2, <2>4, Zenon DEF SameClosing
  <2> QED
      BY <2>3, <2>4, Zenon
<1> QED
    BY <1>20, <1>21, <1>22, <1>23, <1>24, <1>25, <1>26, <1>27, ZenonT(30) DEF IInv

\* The channel that leaves the map is the one the map has, so the assertion holds.
LEMMA EndCloseIInv ==
    ASSUME IInv, NEW l \in Loops, EndClose(l)
    PROVE  IInv'
<1> DEFINE t == [thread[l] EXCEPT !.closing = Nothing]
<1>1. /\ thread[l].closing.conn # None /\ RemoveChannel(l, thread[l].closing.conn)
      /\ UNCHANGED <<file, interest, at, listen, pool, early, conns, doomed, wild, conn>>
    BY Zenon DEF EndClose, baseVars
<1>2. /\ thread \in [Loops -> Threads] /\ chfd \in [Conns -> Fds \cup {-1, None}]
      /\ channels \in [Loops -> [Fds -> Conns \cup {None}]]
      /\ \A i \in Loops : thread[i].closing \in Closings
      /\ \A i \in Loops : thread[i].closing.conn \in Conns \cup {None}
      /\ thread[l].closing.delete \in BOOLEAN
      /\ Nothing \in Closings /\ Nothing.conn = None
    BY Zenon DEF IInv, Types, Threads, Closings, Nothing
<1>3. PICK k \in Conns : k = thread[l].closing.conn
    BY <1>1, <1>2, Zenon
<1>4. PICK delete \in BOOLEAN : delete = thread[l].closing.delete
    BY <1>2, Zenon
<1>5. /\ k # None /\ l # None /\ -1 # None /\ \A g \in Fds : g # None /\ g # -1
      /\ \A o \in Conns : o # None
    BY Distinct, Zenon
<1>6. PICK f \in Fds : chfd[k] = f /\ conn[k].loop = l /\ interest[l][f] = None
  <2>1. conn[k].loop = l /\ chfd[k] \in Fds /\ interest[l][chfd[k]] = None
      BY <1>3, <1>5, Zenon DEF IInv, Mapped, Closed
  <2> QED
      BY <2>1, Zenon
<1>7. \A o \in Conns, g \in Fds, i \in Loops : Agree(o, g, i)
    BY Zenon DEF IInv, Mapped
<1>8. channels[l][f] = k
  <2>1. Agree(k, f, l)
      BY <1>7, Zenon
  <2> QED
      BY <1>6, <2>1, Zenon DEF Agree
<1>9. /\ channels' = [channels EXCEPT ![l][f] = None] /\ aborted' = aborted
    BY <1>1, <1>3, <1>6, <1>8, Zenon DEF RemoveChannel
<1>10. /\ channels' \in [Loops -> [Fds -> Conns \cup {None}]] /\ channels'[l][f] = None
       /\ \A i \in Loops, g \in Fds : i # l \/ g # f => channels'[i][g] = channels[i][g]
    BY <1>2, <1>9, Zenon
<1>11. /\ chfd' \in [Conns -> Fds \cup {-1, None}]
       /\ chfd'[k] = (IF delete THEN None ELSE -1) /\ chfd'[k] \notin Fds
       /\ \A o \in Conns : o # k => chfd'[o] = chfd[o]
  <2>1. chfd' = [chfd EXCEPT ![k] = IF delete THEN None ELSE -1]
      BY <1>3, <1>4, Zenon DEF EndClose
  <2> QED
      BY <1>2, <1>5, <2>1, Zenon
<1>12. thread' = [thread EXCEPT ![l] = t]
    BY <1>2, Zenon DEF EndClose
<1>13. /\ t \in Threads /\ t.closing = Nothing /\ t.stage = thread[l].stage
       /\ t.ptr = thread[l].ptr /\ t.quit = thread[l].quit /\ t.latch = thread[l].latch
       /\ t.wake = thread[l].wake /\ t.pending = thread[l].pending
       /\ t.active = thread[l].active /\ t.batch = thread[l].batch
    BY <1>2, ZenonT(30) DEF Threads
<1> HIDE DEF t
<1>14. /\ thread' \in [Loops -> Threads] /\ thread'[l] = t
       /\ \A i \in Loops : i # l => thread'[i] = thread[i]
    BY <1>2, <1>12, <1>13, ThreadSet, Zenon
<1>15. SameLives /\ SameQueues /\ SameLoops
    BY <1>1, <1>13, <1>14, Zenon DEF SameLives, SameQueues, SameLoops
<1>16. \A i \in Loops : i # l => thread[i].closing.conn # k
    BY <1>5, <1>6, Zenon DEF IInv, Mapped, Closed
<1>17. /\ \A o \in Conns : Waiting(o)' <=> Waiting(o)
       /\ \A o \in Conns : o # k => (Closing(o)' <=> Closing(o))
       /\ ~Waiting(k) /\ Closing(k) /\ ~Closing(k)'
  <2>1. /\ thread[l].closing.conn = k /\ thread'[l].closing.conn = None
        /\ \A i \in Loops : i # l => thread'[i].closing.conn = thread[i].closing.conn
      BY <1>2, <1>3, <1>13, <1>14, Zenon
  <2>2. /\ \A o \in Conns : o # k => (Closing(o)' <=> Closing(o))
        /\ Closing(k) /\ ~Closing(k)'
      BY <1>5, <1>16, <2>1, Zenon DEF Closing
  <2>3. (\A o \in Conns : Waiting(o)' <=> Waiting(o)) /\ ~Waiting(k)
      BY <1>1, <1>5, <1>6, Zenon DEF Waiting
  <2> QED
      BY <2>2, <2>3, Zenon
<1>18. Types'
    BY <1>1, <1>9, <1>10, <1>11, <1>14, ZenonT(30) DEF IInv, Types
<1>19. Starting'
    BY <1>1, <1>9, <1>15, StartingKept, Zenon DEF IInv
<1>20. Accepted'
  <2>1. \A o \in Conns : chfd'[o] # None => chfd[o] # None
      BY <1>5, <1>6, <1>11, Zenon
  <2> QED
      BY <1>1, <1>15, <2>1, AcceptedKept, Zenon DEF IInv
<1>21. Queued'
  <2>1. \A i \in Loops : /\ Requests(i)' = Requests(i)
                         /\ thread'[i].stage # "functors" => thread'[i].batch = <<>>
      BY <1>13, <1>14, <1>15, ZenonT(30) DEF Requests, SameQueues, IInv, Queued, Batches
  <2> QED
      BY <1>1, <1>15, <2>1, QueuedKept, Zenon DEF IInv
<1>22. Mapped'
  <2>1. ASSUME NEW o \in Conns, NEW g \in Fds, NEW i \in Loops
        PROVE  Agree(o, g, i)'
    <3>1. Agree(o, g, i)
        BY <1>7, Zenon
    <3>2. CASE o = k
      <4>1. channels'[i][g] # k
        <5>1. CASE i = l /\ g = f
            BY <1>5, <1>10, <5>1, Zenon
        <5>2. CASE i # l \/ g # f
            BY <1>6, <1>10, <3>1, <3>2, <5>2, Zenon DEF Agree
        <5> QED
            BY <5>1, <5>2, Zenon
      <4> QED
          BY <1>11, <3>2, <4>1, Zenon DEF Agree
    <3>3. CASE o # k
      <4>1. chfd'[o] = chfd[o] /\ conn'[o] = conn[o]
          BY <1>1, <1>11, <3>3, Zenon
      <4>2. CASE i = l /\ g = f
        <5>1. channels'[i][g] # o /\ channels[i][g] # o
            BY <1>5, <1>8, <1>10, <3>3, <4>2, Zenon
        <5> QED
            BY <3>1, <4>1, <5>1, Zenon DEF Agree
      <4>3. CASE i # l \/ g # f
        <5>1. channels'[i][g] = channels[i][g]
            BY <1>10, <4>3, Zenon
        <5> QED
            BY <3>1, <4>1, <5>1, Zenon DEF Agree
      <4> QED
          BY <4>2, <4>3, Zenon
    <3> QED
        BY <3>2, <3>3, Zenon
  <2>2. ASSUME NEW g \in Fds, NEW i \in Loops
        PROVE  Known(g, i)'
    <3>1. Known(g, i)
        BY Zenon DEF IInv, Mapped
    <3>2. CASE i = l /\ g = f
        BY <1>1, <1>6, <3>2, Zenon DEF Known
    <3>3. CASE i # l \/ g # f
        BY <1>1, <1>10, <3>1, <3>3, Zenon DEF Known
    <3> QED
        BY <3>2, <3>3, Zenon
  <2>3. ASSUME NEW i \in Loops
        PROVE  Closed(i)'
    <3>1. CASE i = l
        BY <1>2, <1>13, <1>14, <3>1, Zenon DEF Closed
    <3>2. CASE i # l
      <4>1. PICK o : o = thread[i].closing.conn
          BY Zenon
      <4>2. /\ thread'[i].closing = thread[i].closing /\ o \in Conns \cup {None} /\ o # k
            /\ o = None => thread[i].closing = Nothing
            /\ o # None => /\ conn[o].loop = i /\ chfd[o] \in Fds
                           /\ interest[i][chfd[o]] = None
          BY <1>2, <1>14, <1>16, <3>2, <4>1, ZenonT(30) DEF IInv, Mapped, Closed
      <4>3. o # None => /\ conn'[o].loop = i /\ chfd'[o] \in Fds
                        /\ interest'[i][chfd'[o]] = None
          BY <1>1, <1>11, <4>2, Zenon
      <4> QED
          BY <4>1, <4>2, <4>3, Zenon DEF Closed
    <3> QED
        BY <3>1, <3>2, Zenon
  <2> QED
      BY <2>1, <2>2, <2>3, Zenon DEF Mapped
<1>23. Active'
  <2>1. \A i \in Loops : thread[i].active \in Seq(Conns)
      BY Zenon DEF IInv, Types, Threads
  <2>2. ASSUME NEW i \in Loops, NEW n \in 1 .. Len(thread[i].active)
        PROVE  LET o == thread[i].active[n]
               IN  /\ chfd'[o] # None /\ conn'[o].loop = i
                   /\ thread'[i].closing # [conn |-> o, delete |-> TRUE]
    <3>1. PICK o \in Conns : o = thread[i].active[n]
        BY <2>1, <2>2, SMTT(30)
    <3>2. chfd[o] # None /\ conn[o].loop = i /\ thread[i].closing # [conn |-> o, delete |-> TRUE]
        BY <3>1, Zenon DEF IInv, Active
    <3>3. ASSUME o = k PROVE delete = FALSE
      <4>1. i = l
          BY <1>6, <3>2, <3>3
      <4>2. thread[l].closing = [conn |-> k, delete |-> delete]
          BY <1>2, <1>3, <1>4, Zenon DEF Closings
      <4> QED
          BY <3>2, <3>3, <4>1, <4>2, Zenon
    <3>4. chfd'[o] # None
        BY <1>5, <1>11, <3>2, <3>3, Zenon
    <3>5. thread'[i].closing # [conn |-> o, delete |-> TRUE]
      <4>1. Nothing.conn # [conn |-> o, delete |-> TRUE].conn
          BY <1>2, <1>5, Zenon
      <4> QED
          BY <1>13, <1>14, <3>2, <4>1, Zenon
    <3> QED
        BY <1>1, <3>1, <3>2, <3>4, <3>5, Zenon
  <2>3. \A i \in Loops : \A n, m \in 1 .. Len(thread[i].active) :
            thread[i].active[n] = thread[i].active[m] => n = m
      BY Zenon DEF IInv, Active
  <2>4. \A i \in Loops : thread'[i].active = thread[i].active
      BY <1>15, Zenon DEF SameQueues
  <2> QED
      BY <2>2, <2>3, <2>4, ActiveIs, Zenon
<1>24. Table'
  <2> SUFFICES ASSUME at # "join" PROVE Table'
      BY <1>1, Zenon DEF Table
  <2>1. /\ \A o \in Conns, g \in Fds : Owner(o, g)
        /\ \A o \in Conns, g \in Fds, i \in Loops : Watched(o, g, i)
        /\ Listening
      BY Zenon DEF IInv, Table
  <2>2. \A o \in Conns, g \in Fds : Owner(o, g)'
    <3> SUFFICES ASSUME NEW o \in Conns, NEW g \in Fds
                 PROVE  file[g] = o <=> \/ Waiting(o) /\ conn[o].sockfd = g
                                        \/ chfd'[o] = g /\ ~Closing(o)'
        BY <1>1, <1>17, Zenon DEF Owner
    <3>1. Owner(o, g)
        BY <2>1, Zenon
    <3>2. CASE o = k
        BY <1>11, <1>17, <3>1, <3>2, Zenon DEF Owner
    <3>3. CASE o # k
        BY <1>11, <1>17, <3>1, <3>3, Zenon DEF Owner
    <3> QED
        BY <3>2, <3>3, Zenon
  <2>3. \A o \in Conns, g \in Fds, i \in Loops : Watched(o, g, i)'
    <3> SUFFICES ASSUME NEW o \in Conns, NEW g \in Fds, NEW i \in Loops,
                        channels'[i][g] = o, ~Closing(o)'
                 PROVE  interest'[i][g] = o
        BY Zenon DEF Watched
    <3>1. channels[i][g] = o /\ o # k
      <4>1. i # l \/ g # f
          BY <1>5, <1>10, Zenon
      <4>2. channels[i][g] = o
          BY <1>10, <4>1, Zenon
      <4>3. Agree(o, g, i)
          BY <1>7, Zenon
      <4> QED
          BY <1>6, <4>1, <4>2, <4>3, Zenon DEF Agree
    <3>2. ~Closing(o)
        BY <1>17, <3>1, Zenon
    <3>3. Watched(o, g, i)
        BY <2>1, Zenon
    <3> QED
        BY <1>1, <3>1, <3>2, <3>3, Zenon DEF Watched
  <2> QED
      BY <1>1, <2>1, <2>2, <2>3, Zenon DEF Table, Listening
<1>25. Callbacks'
  <2> SUFFICES ASSUME early, NEW o \in Conns
               PROVE  /\ Waiting(o)' => conn'[o].readcb
                      /\ chfd'[o] # None /\ ~(\E i \in Loops : thread'[i].closing = [conn |-> o, delete |-> TRUE])
                            => conn'[o].readcb
                      /\ conn'[o].msg # "input"
      BY <1>1, Zenon DEF Callbacks
  <2>1. /\ Waiting(o) => conn[o].readcb
        /\ chfd[o] # None /\ ~(\E i \in Loops : thread[i].closing = [conn |-> o, delete |-> TRUE])
              => conn[o].readcb
        /\ conn[o].msg # "input"
      BY Zenon DEF IInv, Callbacks
  <2>2. ASSUME chfd'[o] # None, NEW i \in Loops, thread[i].closing = [conn |-> o, delete |-> TRUE]
        PROVE  thread'[i].closing = [conn |-> o, delete |-> TRUE]
    <3>1. CASE i = l
      <4>1. o = k /\ delete = TRUE
        <5>1. thread[l].closing.conn = o /\ thread[l].closing.delete = TRUE
          <6>1. [conn |-> o, delete |-> TRUE].conn = o /\ [conn |-> o, delete |-> TRUE].delete = TRUE
              BY Zenon
          <6> QED
              BY <2>2, <3>1, <6>1, Zenon
        <5> QED
            BY <1>3, <1>4, <5>1, Zenon
      <4> QED
          BY <1>11, <2>2, <4>1, Zenon
    <3>2. CASE i # l
        BY <1>14, <2>2, <3>2, Zenon
    <3> QED
        BY <3>1, <3>2, Zenon
  <2>3. chfd'[o] # None => chfd[o] # None
      BY <1>5, <1>6, <1>11, Zenon
  <2> QED
      BY <1>1, <1>17, <2>1, <2>2, <2>3, Zenon
<1> QED
    BY <1>18, <1>19, <1>20, <1>21, <1>22, <1>23, <1>24, <1>25, ZenonT(30) DEF IInv

-----------------------------------------------------------------------------
(* The theorems.                                                            *)

\* No thread is started, no connection accepted, and no descriptor open.
LEMMA InitIInv == Init => IInv
<1> SUFFICES ASSUME Init PROVE IInv
    BY Zenon
<1>1. /\ file = Unused /\ interest = [l \in Loops |-> Unused]
      /\ channels = [l \in Loops |-> Unused] /\ chfd = [k \in Conns |-> None]
      /\ aborted = FALSE /\ at = "bind" /\ listen = None /\ early \in BOOLEAN
      /\ conns = {} /\ doomed = {} /\ pool = EmptyPool /\ wild = FALSE
      /\ thread = [l \in Loops |-> Thread] /\ conn = [k \in Conns |-> Conn]
    BY Zenon DEF Init, PollerInit
<1>2. /\ Thread \in Threads /\ Thread.stage = "none" /\ Thread.latch = 1 /\ ~Thread.quit
      /\ Thread.batch = <<>> /\ Thread.pending = <<>> /\ Thread.active = <<>>
      /\ Thread.closing = Nothing
  <2>1. Nothing \in Closings
      BY Zenon DEF Nothing, Closings
  <2> QED
      BY <2>1, Empties, Zenon DEF Thread, Threads, Stages
<1>3. Conn \in Connections /\ Conn.loop = None /\ Conn.msg = "none"
    BY Zenon DEF Conn, Connections
<1>4. pool \in [numThreads : Nat, loops : Seq(Loops), next : Nat]
    BY <1>1, Empties, Zenon DEF EmptyPool
<1>5. pool.loops = <<>> /\ pool.numThreads = 0 /\ pool.next = 0
    BY <1>1, Zenon DEF EmptyPool
<1>6. Nothing.conn = None /\ \A f \in Fds : f # None
    BY PollerAssumption DEF Nothing
<1>7. \A k \in Conns : k # None
    BY PollerAssumption, Zenon
<1>8. Types
    BY <1>1, <1>2, <1>3, <1>4, ZenonT(30) DEF Types, Ats, Unused
<1>9. Starting
  <2>1. Len(pool.loops) = 0 /\ 1 .. pool.numThreads = {}
      BY <1>5, SMTT(30)
  <2>2. ASSUME NEW l \in Loops PROVE Life(l)
    <3>1. l \in Nat \ {0}
        BY <2>1, ServerAssumption, Zenon
    <3> QED
        BY <1>1, <1>2, <2>1, <3>1, SMTT(30) DEF Life
  <2> QED
      BY <1>1, <1>5, <2>1, <2>2 DEF Starting, AssertionsHold
<1>10. Accepted
    BY <1>1, Zenon DEF Accepted, Waiting
<1>11. Queued
  <2>1. \A l \in Loops : Requests(l) = <<>>
    <3>1. <<>> \o <<>> = <<>>
        BY ConcatEmpty
    <3> QED
        BY <1>1, <1>2, <3>1, Zenon DEF Requests
  <2>2. \A l \in Loops : 1 .. Len(Requests(l)) = {}
      BY <2>1, SMTT(30)
  <2> QED
      BY <1>1, <1>2, <2>2, Zenon DEF Queued, Batches, Fitting, AttachOnce, NoneLeft
<1>12. Mapped
    BY <1>1, <1>2, <1>6, <1>7, Zenon DEF Mapped, Agree, Known, Closed, Unused
<1>13. Active
  <2>1. \A l \in Loops : 1 .. Len(thread[l].active) = {}
      BY <1>1, <1>2, SMTT(30)
  <2> QED
      BY <2>1, Zenon DEF Active
<1>14. Table
    BY <1>1, <1>6, <1>7, Zenon DEF Table, Owner, Watched, Listening, Unused, Waiting
<1>15. Callbacks
    BY <1>1, <1>3, Zenon DEF Callbacks, Waiting
<1> QED
    BY <1>8, <1>9, <1>10, <1>11, <1>12, <1>13, <1>14, <1>15, Zenon DEF IInv

\* Every step of a loop keeps the invariant.
LEMMA LoopStepIInv ==
    ASSUME IInv, ~wild, NEW l \in Loops, LoopStep(l)
    PROVE  IInv'
<1>1. ASSUME NEW k \in Conns,
             LET th == [thread[l] EXCEPT !.batch = Tail(@)]
             IN  Attach(l, k, th) \/ RunClose(l, k, th)
      PROVE  IInv'
  <2>1. PICK th : Attach(l, k, th) \/ RunClose(l, k, th)
      BY <1>1
  <2> QED
      BY <2>1, AttachIInv, RunCloseIInv
<1>2. ASSUME NEW c \in Conns \cup {None}, HandleEvent(l, c) PROVE IInv'
    BY <1>2, HandleEventIInv
<1>3. CASE \/ Construct(l) \/ Count(l) \/ Poll(l) \/ TakeFunctors(l)
           \/ EndClose(l) \/ EndRound(l) \/ LoopReturns(l) \/ DestroyLoop(l)
    BY <1>3, ConstructIInv, CountIInv, PollIInv, TakeFunctorsIInv, EndCloseIInv,
       EndRoundIInv, LoopReturnsIInv, DestroyLoopIInv, Zenon
<1> QED
    BY <1>1, <1>2, <1>3, Zenon DEF LoopStep

\* The invariant is inductive.
LEMMA NextIInv == IInv /\ [Next]_vars => IInv'
<1> SUFFICES ASSUME IInv, [Next]_vars PROVE IInv'
    BY Zenon
<1>1. ASSUME ~wild,
             Bind \/ StartLoop \/ LoopStarted \/ Destroy \/ CloseListener \/ DestroyPool
      PROVE  IInv'
    BY <1>1, BindIInv, StartLoopIInv, LoopStartedIInv, DestroyIInv, CloseListenerIInv,
       DestroyPoolIInv, Zenon
<1>2. ASSUME NEW n \in Loops, StartThread(n) PROVE IInv'
    BY <1>2, StartThreadIInv, Zenon
<1>3. ASSUME ~wild, NEW l \in Loops, LoopStep(l) PROVE IInv'
    BY <1>3, LoopStepIInv, Zenon
<1>4. ASSUME NEW k \in Conns, NEW f \in Fds, NEW l \in Loops, Accept(k, f, l) PROVE IInv'
    BY <1>4, AcceptIInv, Zenon
<1>5. ASSUME NEW f \in Fds, AcceptFails(f) PROVE IInv'
    BY <1>5, AcceptFailsIInv
<1>6. ASSUME ~wild, NEW k \in Conns,
             \/ SetCallbacks(k) \/ PostClose(k)
             \/ PeerSends(k) \/ PeerCloses(k) \/ ForeignClose(k)
      PROVE  IInv'
    BY <1>6, SetCallbacksIInv, PostCloseIInv, PeerSendsIInv, PeerClosesIInv, ForeignCloseIInv, Zenon
<1>7. CASE UNCHANGED vars
  <2>1. UNCHANGED <<file, interest, channels, chfd, aborted, at, listen, pool, early, conns,
                    doomed, thread, conn, wild>>
      BY <1>7, Zenon DEF vars, pollerVars, baseVars
  <2>2. SameClosing /\ SameQueues /\ SameLives
      BY <2>1, Zenon DEF SameClosing, SameQueues, SameLives
  <2>3. \A l \in Loops : thread'[l].stage # "functors" => thread[l].batch = <<>>
      BY <2>1, Zenon DEF IInv, Queued, Batches
  <2>4. Accepted' /\ Queued' /\ Mapped' /\ Active' /\ Table' /\ Callbacks'
      BY <2>1, <2>2, <2>3, OthersKept, Zenon
  <2>5. Starting'
      BY <2>1, <2>2, StartingKept, Zenon DEF IInv
  <2>6. Types'
      BY <2>1, Zenon DEF IInv, Types
  <2> QED
      BY <2>4, <2>5, <2>6, Zenon DEF IInv
<1> QED
    BY <1>1, <1>2, <1>3, <1>4, <1>5, <1>6, <1>7, Zenon DEF Next

\* The invariant holds in every state.
THEOREM TcpServerInvariance == Spec => []IInv
BY InitIInv, NextIInv, PTL DEF Spec

\* next_ stays an index into the pool's loops, and the tables keep their types.
THEOREM ServerTypes == Spec => []TypeOK
<1>1. IInv => TypeOK
    BY Zenon DEF IInv, Types, Ats, Threads, Starting, TypeOK
<1> QED
    BY <1>1, TcpServerInvariance, PTL

\* Until the pool is destroyed the map of a poller, epoll's list and the kernel's table
\* agree about every descriptor, though numbers are reused across loops between close(2)
\* and RemoveChannel.
THEOREM TablesAgree == Spec => []PollersAgree
<1>1. IInv => PollersAgree
  <2> SUFFICES ASSUME IInv, at # "join", NEW k \in Conns, NEW f \in Fds, NEW l \in Loops
               PROVE  /\ channels[l][f] = k <=> (chfd[k] = f /\ conn[k].loop = l)
                      /\ \/ interest[l][f] = channels[l][f]
                         \/ interest[l][f] = None /\ thread[l].closing.conn = channels[l][f]
                      /\ (file[f] = k) <=> \/ Waiting(k) /\ conn[k].sockfd = f
                                           \/ chfd[k] = f /\ \A i \in Loops : thread[i].closing.conn # k
      BY SMTT(30) DEF PollersAgree
  <2>1. Agree(k, f, l) /\ Known(f, l) /\ Owner(k, f)
      BY Zenon DEF IInv, Mapped, Table
  <2>2. channels[l][f] = k <=> (chfd[k] = f /\ conn[k].loop = l)
      BY <2>1, Zenon DEF Agree
  <2>3. (file[f] = k) <=> \/ Waiting(k) /\ conn[k].sockfd = f
                          \/ chfd[k] = f /\ \A i \in Loops : thread[i].closing.conn # k
      BY <2>1, Zenon DEF Owner, Closing
  <2>4. ASSUME interest[l][f] # channels[l][f]
        PROVE  interest[l][f] = None /\ thread[l].closing.conn = channels[l][f]
    <3>1. interest[l][f] = None
        BY <2>4, <2>1, Zenon DEF Known
    <3>2. PICK o \in Conns : channels[l][f] = o /\ o # None
      <4>1. channels \in [Loops -> [Fds -> Conns \cup {None}]]
          BY Zenon DEF IInv, Types
      <4>2. channels[l][f] \in Conns \cup {None}
          BY <4>1
      <4> QED
          BY <2>4, <3>1, <4>2, Zenon
    <3>3. Watched(o, f, l) /\ Agree(o, f, l)
        BY Zenon DEF IInv, Mapped, Table
    <3>4. Closing(o)
        BY <3>1, <3>2, <3>3, Zenon DEF Watched
    <3>5. PICK i \in Loops : thread[i].closing.conn = o
        BY <3>4, ZenonT(30) DEF Closing
    <3>6. conn[o].loop = l
        BY <3>2, <3>3, Zenon DEF Agree
    <3>7. conn[o].loop = i
        BY <3>2, <3>5, Zenon DEF IInv, Mapped, Agree, Known, Closed
    <3> QED
        BY <3>1, <3>2, <3>5, <3>6, <3>7, Zenon
  <2> QED
      BY <2>2, <2>3, <2>4, ZenonT(30)
<1> QED
    BY <1>1, TcpServerInvariance, PTL

\* HandleEvent is called on live channels only, whatever callbacks of the round close.
THEOREM ActiveChannelsLive == Spec => []ActiveAlive
<1>1. IInv => ActiveAlive
  <2> SUFFICES ASSUME IInv, NEW l \in Loops, NEW k \in Range(thread[l].active)
               PROVE  chfd[k] # None /\ thread[l].closing # [conn |-> k, delete |-> TRUE]
      BY Zenon DEF ActiveAlive
  <2>1. thread[l].active \in Seq(Conns)
      BY ZenonT(30) DEF IInv, Types, Threads
  <2>2. PICK i \in 1 .. Len(thread[l].active) : k = thread[l].active[i]
      BY <2>1, SMTT(30) DEF Range
  <2> QED
      BY <2>2, Zenon DEF IInv, Active
<1> QED
    BY <1>1, TcpServerInvariance, PTL

\* RemoveChannel's assertion never fails for a connection's channel.
THEOREM RemoveAsserts == Spec => []AssertionsHold
<1>1. IInv => AssertionsHold
    BY Zenon DEF IInv, Starting
<1> QED
    BY <1>1, TcpServerInvariance, PTL

\* A loop that the pool has is constructed, and its loop_ valid until the pool goes.
THEOREM PoolLoopsReady == Spec => []LoopReady
<1>1. IInv => LoopReady
  <2> SUFFICES ASSUME IInv, NEW l \in Range(pool.loops)
               PROVE  thread[l].stage \notin {"none", "new"} /\ (at # "join" => thread[l].ptr)
      BY Zenon DEF LoopReady
  <2>1. pool.loops \in Seq(Loops)
      BY Zenon DEF IInv, Types
  <2>2. PICK i \in 1 .. Len(pool.loops) : l = pool.loops[i]
      BY <2>1, SMTT(30) DEF Range
  <2>3. l \in Loops /\ l = i
      BY <2>1, <2>2, SMTT(30) DEF IInv, Starting
  <2>4. l <= Len(pool.loops)
      BY <2>1, <2>2, <2>3, SMTT(30)
  <2>5. thread[l].stage \in Stages
      BY <2>3, Zenon DEF IInv, Types, Threads
  <2> QED
      BY <2>3, <2>4, <2>5, Zenon DEF IInv, Starting, Life, Stages
<1> QED
    BY <1>1, TcpServerInvariance, PTL

\* With the callback set in createcb_, nothing that is read waits in input_.
THEOREM CreateCbSeesAll == Spec => []ReadOffered
<1>1. IInv => ReadOffered
    BY Zenon DEF IInv, Callbacks, ReadOffered
<1> QED
    BY <1>1, TcpServerInvariance, PTL
=============================================================================
