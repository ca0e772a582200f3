------------------------------ MODULE TcpServer ------------------------------
(***************************************************************************)
(* jnet::TcpServer (net/tcpserver.cc) with its EventLoopPool of            *)
(* EventLoopThreads, over the pollers of module Poller: the base thread    *)
(* starts the threads, accepts connections and hands each to a loop; the   *)
(* loops attach them, read from them and clean them up; and the server is  *)
(* destroyed.  Requests reach a loop through RunInLoop (SerialExecutor: in *)
(* order, after the round's events).                                       *)
(*                                                                         *)
(* Of a connection (module TcpConn has the rest) there is one message of   *)
(* its peer's, the end of its stream, and the read callback.  Channels     *)
(* have read events only.                                                  *)
(***************************************************************************)
EXTENDS Poller

CONSTANTS Leaked,     \* the owner of a descriptor that nobody will close
          Listener,   \* the owner of the listening socket
          MaxTrouble  \* bound: accepts that fail, and Close() of other threads

\* The loops are numbered in the order the pool starts them, the connections in the
\* order they are accepted.
ASSUME ServerAssumption ==
    /\ \A l \in Loops : l \in Nat \ {0} /\ 1 .. l \subseteq Loops
    /\ \A k \in Conns : k \in Nat \ {0} /\ 1 .. k \subseteq Conns
    /\ Leaked \notin Conns \cup {None} /\ Listener \notin Conns \cup {None, Leaked}

VARIABLES
    at,        \* the base thread: "bind", "bound", "start"; "wait": in CountDownLatch::Wait;
               \* "serve"; "set": between Attach and OnRead; "close", "unlisten",
               \* "join": in ~TcpServer
    listen,    \* listen_channel_'s descriptor, None for a null pointer
    pool,      \* the EventLoopPool: numThreads_, loops_ and next_
    early,     \* the server sets read callbacks in createcb_, not with OnConnRead
    conns,     \* conns_: the connections accepted so far
    doomed,    \* those of conns_ that ~TcpServer has not come to
    thread,    \* the EventLoopThreads and their loops, see Thread
    conn,      \* the TcpConns, see Conn
    wild,      \* a pointer that was never set has been used
    trouble    \* accepts that failed, and Close() calls of other threads

baseVars == <<at, listen, pool, early, conns, doomed, wild, trouble>>
vars == <<pollerVars, baseVars, thread, conn>>

Nothing == [conn |-> None, delete |-> FALSE]
Functors == [op : {"attach", "close"}, conn : Conns]

\* stage: "none", "new"; "built": the loop is constructed; "loop": the test of quit_;
\* "events", "functors"; "exit", "destroy", "gone".  ptr: loop_ is not null.  wake:
\* the wakeup channel is in channels_.  active: of activeChannels_ those not handled.
\* batch: the functors DoPendingFunctors has yet to run; held: the connections that
\* functors of this round refer to, run or not.  closing: a Channel::Close
\* between close(fd_) and RemoveFromLoop().
Thread == [stage |-> "none", ptr |-> FALSE, latch |-> 1, quit |-> FALSE, wake |-> FALSE,
           active |-> <<>>, pending |-> <<>>, batch |-> <<>>, held |-> {},
           closing |-> Nothing]

\* loop: loop_, None until Attach.  sockfd: the descriptor accepted, which the Socket
\* keeps.  msg: the peer's message, "none", "wire", "input" (in input_) or "offered".
Conn == [loop |-> None, sockfd |-> None, readcb |-> FALSE, msg |-> "none", eof |-> FALSE]

EmptyPool == [numThreads |-> 0, loops |-> <<>>, next |-> 0]

Init ==
    /\ PollerInit
    /\ at = "bind" /\ listen = None /\ early \in BOOLEAN /\ conns = {} /\ doomed = {}
    /\ pool = EmptyPool
    /\ thread = [l \in Loops |-> Thread]
    /\ conn = [k \in Conns |-> Conn]
    /\ wild = FALSE /\ trouble = 0

-----------------------------------------------------------------------------
(* Starting.                                                                *)

\* Bind opens the listening socket, or bind(2) fails and it is closed again; Start and
\* StartServer go on in either case.  (The base loop's own poller is not modelled.)
Bind ==
    /\ at = "bind"
    /\ at' = "bound"
    /\ \/ \E f \in Fds : Open(Listener, f) /\ listen' = f
       \/ UNCHANGED <<file, listen>>
    /\ UNCHANGED <<interest, channels, chfd, evcap, aborted, pool, early, conns, doomed,
                   thread, conn, wild, trouble>>

\* StartThread: SetThreadNum, here to one thread or more, and the pool's Start begins.
StartThread(n) ==
    /\ at = "bound"
    /\ at' = "start" /\ pool' = [pool EXCEPT !.numThreads = n]
    /\ UNCHANGED <<pollerVars, listen, early, conns, doomed, thread, conn, wild, trouble>>

\* EventLoopPool::Start, StartLoop: the next thread is created.
StartLoop ==
    /\ at = "start"
    /\ at' = "wait"
    /\ thread' = [thread EXCEPT ![Len(pool.loops) + 1].stage = "new"]
    /\ UNCHANGED <<pollerVars, listen, pool, early, conns, doomed, conn, wild, trouble>>

\* Mutant: StartLoop does not wait for the latch.
DontWait(l) == TRUE

\* CountDownLatch::Wait returns.
Wait(l) == thread[l].latch <= 0

\* StartLoop returns the new thread's loop_, and the pool keeps it.
LoopStarted ==
    LET l == Len(pool.loops) + 1
    IN  /\ at = "wait" /\ Wait(l)
        /\ pool' = [pool EXCEPT !.loops = Append(@, l)]
        /\ at' = IF l = pool.numThreads THEN "serve" ELSE "start"
        /\ UNCHANGED <<pollerVars, listen, early, conns, doomed, thread, conn, wild, trouble>>

\* RunInThread: the loop is constructed, its wakeup channel added, loop_ set.
Construct(l) ==
    /\ thread[l].stage = "new"
    /\ thread' = [thread EXCEPT ![l].stage = "built", ![l].wake = TRUE, ![l].ptr = TRUE]
    /\ UNCHANGED <<pollerVars, baseVars, conn>>

\* RunInThread: Count(), and Loop() begins.
Count(l) ==
    /\ thread[l].stage = "built"
    /\ thread' = [thread EXCEPT ![l].stage = "loop", ![l].latch = @ - 1]
    /\ UNCHANGED <<pollerVars, baseVars, conn>>

-----------------------------------------------------------------------------
(* Accepting.                                                               *)

Post(l, op, k) ==
    thread' = [thread EXCEPT ![l].pending = Append(@, [op |-> op, conn |-> k])]

\* Mutant: the comparison is off by one.
GetNextLoopPast(l) ==
    /\ l = pool.loops[pool.next + 1]
    /\ pool' = [pool EXCEPT !.next = IF @ + 1 > Len(pool.loops) THEN 0 ELSE @ + 1]

\* GetNextLoop: the loops in turn.
GetNextLoop(l) ==
    /\ l = pool.loops[pool.next + 1]
    /\ pool' = [pool EXCEPT !.next = IF @ + 1 >= Len(pool.loops) THEN 0 ELSE @ + 1]

\* Mutant: createcb_ is called when the connection is already on its way.
CreateLater(k, f) == conn' = [conn EXCEPT ![k].sockfd = f]

\* The new TcpConn, and createcb_, which may set its read callback.
Create(k, f) == conn' = [conn EXCEPT ![k].sockfd = f, ![k].readcb = early]

\* HandleAccept, up to the RunInLoop of Attach.
Accept(k, f, l) ==
    /\ at = "serve" /\ listen # None
    /\ k \notin conns /\ 1 .. k - 1 \subseteq conns
    /\ Open(k, f)
    /\ GetNextLoop(l)
    /\ Create(k, f)
    /\ conns' = conns \cup {k}
    /\ Post(l, "attach", k)
    /\ at' = "set"
    /\ UNCHANGED <<interest, channels, chfd, evcap, aborted, listen, early, doomed, wild,
                   trouble>>

\* HandleAccept's continue: the peer is gone already, getpeername or getsockname
\* fails, and the descriptor is left open.
AcceptFails(f) ==
    /\ at = "serve" /\ listen # None
    /\ Open(Leaked, f)
    /\ trouble < MaxTrouble /\ trouble' = trouble + 1
    /\ UNCHANGED <<interest, channels, chfd, evcap, aborted, at, listen, pool, early,
                   conns, doomed, thread, conn, wild>>

\* OnRead(readcb_), after the connection was handed over.
SetCallbacks(k) ==
    /\ at = "set" /\ k \in conns /\ conns \subseteq 1 .. k
    /\ conn' = [conn EXCEPT ![k].readcb = TRUE]
    /\ at' = "serve"
    /\ UNCHANGED <<pollerVars, listen, pool, early, conns, doomed, thread, wild, trouble>>

-----------------------------------------------------------------------------
(* A loop's round.                                                          *)

\* The loop is at this stage, and not in the middle of a Channel::Close.
Stage(l, s) == thread[l].stage = s /\ thread[l].closing = Nothing

Ready(l) == {k \in Conns : \E f \in Fds :
                interest[l][f] = k /\ file[f] = k /\ (conn[k].msg = "wire" \/ conn[k].eof)}

\* Poll, which returns for an event or a wake-up.
Poll(l) ==
    /\ Stage(l, "loop") /\ ~thread[l].quit
    /\ Ready(l) # {} \/ thread[l].pending # <<>>
    /\ \E list \in PollReady(l, Ready(l)) :
          /\ thread' = [thread EXCEPT ![l].stage = "events", ![l].active = list]
          /\ GrowEvents(l, Len(list))
    /\ UNCHANGED <<file, interest, channels, chfd, aborted, baseVars, conn>>

\* Channel::Close, of a live channel, begins with close(fd_); th is the loop's thread
\* without what it has just done.
BeginClose(l, k, delete, th) ==
    IF chfd[k] \in Fds
    THEN /\ CloseFd(chfd[k]) /\ UNCHANGED chfd
         /\ thread' = [thread EXCEPT ![l] =
                         [th EXCEPT !.closing = [conn |-> k, delete |-> delete]]]
    ELSE /\ chfd' = [chfd EXCEPT ![k] = IF delete THEN None ELSE @]
         /\ thread' = [thread EXCEPT ![l] = th]
         /\ UNCHANGED <<file, interest>>

\* Mutant: the request deletes the channel, wherever it stands in activeChannels_.
CloseDeletes(l, k, th) == BeginClose(l, k, TRUE, th)

\* Channel::Close as TcpConn::Close asks for it on the loop's thread.
CloseChannel(l, k, th) == BeginClose(l, k, FALSE, th)

\* CleanUp: the read callback has the rest of input_, the callbacks are dropped and
\* the channel is deleted, which closes it.
CleanUp(l, k, m, th) ==
    /\ conn' = [conn EXCEPT ![k].readcb = FALSE,
                            ![k].msg = IF m = "input" /\ conn[k].readcb THEN "offered" ELSE m]
    /\ BeginClose(l, k, TRUE, th)

\* HandleRead of an open connection whose peer has not closed; the read callback may
\* close a connection c of this loop, its own or another (None for none).
ReadOn(l, k, c, th) ==
    LET calls == conn[k].msg = "wire" /\ conn[k].readcb
    IN  /\ conn' = [conn EXCEPT ![k].msg = IF @ # "wire" THEN @
                                           ELSE IF calls THEN "offered" ELSE "input"]
        /\ \/ c = None /\ thread' = [thread EXCEPT ![l] = th]
              /\ UNCHANGED <<file, interest, chfd>>
           \/ calls /\ c # None /\ conn[c].loop = l /\ chfd[c] # None /\ CloseChannel(l, c, th)

\* HandleEvent of the first active channel.
HandleEvent(l, c) ==
    LET th == thread[l]
        k == Head(th.active)
        rest == [th EXCEPT !.active = Tail(@)]
        stream == chfd[k] \in Fds /\ file[chfd[k]] = k
    IN  /\ Stage(l, "events") /\ th.active # <<>>
        /\ \/ stream /\ ~conn[k].eof /\ ReadOn(l, k, c, rest)
           \/ /\ c = None /\ (stream => conn[k].eof)
              /\ CleanUp(l, k, IF stream /\ conn[k].msg = "wire" THEN "input"
                               ELSE conn[k].msg, rest)
        /\ UNCHANGED <<channels, evcap, aborted, baseVars>>

\* DoPendingFunctors takes what is queued.
TakeFunctors(l) ==
    /\ Stage(l, "events") /\ thread[l].active = <<>>
    /\ thread' = [thread EXCEPT ![l].stage = "functors", ![l].pending = <<>>,
                                ![l].batch = thread[l].pending,
                                ![l].held = {r.conn : r \in Range(thread[l].pending)}]
    /\ UNCHANGED <<pollerVars, baseVars, conn>>

\* The next functor is op on connection k, and th the thread without it.
Functor(l, op, k, th) ==
    /\ Stage(l, "functors") /\ thread[l].batch # <<>>
    /\ Head(thread[l].batch) = [op |-> op, conn |-> k]
    /\ th = [thread[l] EXCEPT !.batch = Tail(@)]

\* The functor of HandleAccept: TcpConn::Attach.
Attach(l, k, th) ==
    /\ Functor(l, "attach", k, th)
    /\ thread' = [thread EXCEPT ![l] = th]
    /\ conn' = [conn EXCEPT ![k].loop = l]
    /\ NewChannel(k, conn[k].sockfd)
    /\ AddChannel(l, k, conn[k].sockfd)
    /\ UNCHANGED <<file, evcap, aborted, baseVars>>

\* The functor of TcpConn::Close.
RunClose(l, k, th) ==
    /\ Functor(l, "close", k, th)
    /\ IF chfd[k] # None THEN CloseChannel(l, k, th)
       ELSE thread' = [thread EXCEPT ![l] = th] /\ UNCHANGED <<file, interest, chfd>>
    /\ UNCHANGED <<channels, evcap, aborted, baseVars, conn>>

\* Channel::Close ends: RemoveFromLoop(), and fd_ is -1; the object may be deleted.
EndClose(l) ==
    LET k == thread[l].closing.conn
    IN  /\ k # None
        /\ RemoveChannel(l, k)
        /\ chfd' = [chfd EXCEPT ![k] = IF thread[l].closing.delete THEN None ELSE -1]
        /\ thread' = [thread EXCEPT ![l].closing = Nothing]
        /\ UNCHANGED <<file, interest, evcap, baseVars, conn>>

\* The last reference to each connection of S goes, and its Socket closes the number
\* of its descriptor, which was closed with the channel.
CloseAgain(S) ==
    LET again == {conn[k].sockfd : k \in S}
    IN  /\ file' = [f \in Fds |-> IF f \in again THEN None ELSE file[f]]
        /\ interest' = [l \in Loops |-> [f \in Fds |->
                          IF f \in again THEN None ELSE interest[l][f]]]
        /\ conn' = [k \in Conns |-> IF k \in S THEN [conn[k] EXCEPT !.sockfd = None]
                                    ELSE conn[k]]

\* Attached connections without a channel, whose callbacks would hold them, that are
\* in no functor of their loop's.
Unheld(ths) ==
    {k \in conns : /\ chfd[k] = None /\ conn[k].loop # None
                   /\ LET th == ths[conn[k].loop]
                      IN  k \notin th.held \cup {r.conn : r \in Range(th.pending)}}

\* The functors of this round are destroyed; conns_ holds the connections until
\* ~TcpServer has destroyed it.
EndRound(l) ==
    /\ Stage(l, "functors") /\ thread[l].batch = <<>>
    /\ thread' = [thread EXCEPT ![l].stage = "loop", ![l].held = {}]
    /\ CloseAgain(IF at = "join" THEN thread[l].held \cap Unheld(thread') ELSE {})
    /\ UNCHANGED <<channels, chfd, evcap, aborted, baseVars>>

-----------------------------------------------------------------------------
(* The peers, and other threads; they are quiet once ~TcpServer has begun.  *)

Serving(k) == at \in {"serve", "set"} /\ k \in conns

PeerSends(k) ==
    /\ Serving(k) /\ conn[k].msg = "none" /\ ~conn[k].eof
    /\ conn' = [conn EXCEPT ![k].msg = "wire"]
    /\ UNCHANGED <<pollerVars, baseVars, thread>>

PeerCloses(k) ==
    /\ Serving(k) /\ ~conn[k].eof
    /\ conn' = [conn EXCEPT ![k].eof = TRUE]
    /\ UNCHANGED <<pollerVars, baseVars, thread>>

\* TcpConn::Close() by user code of another thread; before Attach, and after CleanUp,
\* it does nothing.
ForeignClose(k) ==
    /\ Serving(k) /\ chfd[k] # None
    /\ trouble < MaxTrouble /\ trouble' = trouble + 1
    /\ Post(conn[k].loop, "close", k)
    /\ UNCHANGED <<pollerVars, at, listen, pool, early, conns, doomed, conn, wild>>

-----------------------------------------------------------------------------
(* ~TcpServer, on the base thread.                                          *)

Destroy ==
    /\ at = "serve"
    /\ at' = "close" /\ doomed' = conns
    /\ UNCHANGED <<pollerVars, listen, pool, early, conns, thread, conn, wild, trouble>>

\* One connection of conns_: GetLoop()->RunInLoop(Close).  The loop_ of a connection
\* not attached yet was never set.
PostClose(k) ==
    /\ at = "close" /\ k \in doomed
    /\ doomed' = doomed \ {k}
    /\ wild' = (conn[k].loop = None)
    /\ IF wild' THEN UNCHANGED thread ELSE Post(conn[k].loop, "close", k)
    /\ UNCHANGED <<pollerVars, at, listen, pool, early, conns, conn, trouble>>

\* delete listen_channel_
CloseListener ==
    /\ at = "close" /\ doomed = {}
    /\ at' = "unlisten"
    /\ IF listen # None THEN CloseFd(listen) ELSE UNCHANGED <<file, interest>>
    /\ UNCHANGED <<channels, chfd, evcap, aborted, listen, pool, early, conns, doomed,
                   thread, conn, wild, trouble>>

\* The members are destroyed: conns_, then the pool, whose first thread is told to
\* quit and joined.
DestroyPool ==
    /\ at = "unlisten"
    /\ at' = "join"
    /\ CloseAgain(Unheld(thread))
    /\ thread' = [thread EXCEPT ![1].quit = @ \/ thread[1].ptr]
    /\ UNCHANGED <<channels, chfd, evcap, aborted, listen, pool, early, conns, doomed, wild,
                   trouble>>

\* Loop() returns, and loop_ is null.
LoopReturns(l) ==
    /\ Stage(l, "loop") /\ thread[l].quit
    /\ thread' = [thread EXCEPT ![l].stage = "exit", ![l].ptr = FALSE]
    /\ UNCHANGED <<pollerVars, baseVars, conn>>

\* ~EventLoop removes the wakeup channel; then, as a member, ~Channel does, for its
\* fd_ is still set, and RemoveChannel's assertion fails.
DestroyLoop(l) ==
    /\ thread[l].stage \in {"exit", "destroy"}
    /\ thread' = [thread EXCEPT ![l].stage = IF @ = "exit" THEN "destroy" ELSE "gone",
                                ![l].wake = FALSE]
    /\ aborted' = ~thread[l].wake
    /\ UNCHANGED <<file, interest, channels, chfd, evcap, baseVars, conn>>

-----------------------------------------------------------------------------
LoopStep(l) ==
    \/ Construct(l) \/ Count(l) \/ Poll(l) \/ TakeFunctors(l)
    \/ EndClose(l) \/ EndRound(l) \/ LoopReturns(l) \/ DestroyLoop(l)
    \/ \E c \in Conns \cup {None} : HandleEvent(l, c)
    \/ \E k \in Conns : LET th == [thread[l] EXCEPT !.batch = Tail(@)]
                        IN  Attach(l, k, th) \/ RunClose(l, k, th)

Next ==
    /\ ~aborted /\ ~wild
    /\ \/ Bind \/ StartLoop \/ LoopStarted \/ Destroy \/ CloseListener \/ DestroyPool
       \/ \E n \in Loops : StartThread(n)
       \/ \E l \in Loops : LoopStep(l)
       \/ \E k \in Conns, f \in Fds, l \in Loops : Accept(k, f, l)
       \/ \E f \in Fds : AcceptFails(f)
       \/ \E k \in Conns : \/ SetCallbacks(k) \/ PostClose(k)
                           \/ PeerSends(k) \/ PeerCloses(k) \/ ForeignClose(k)

Spec == Init /\ [][Next]_vars

-----------------------------------------------------------------------------
\* The state's types.  next_ is an index into the pool's loops (GetNextLoop).
TypeOK ==
    /\ at \in {"bind", "bound", "start", "wait", "serve", "set", "close",
              "unlisten", "join"}
    /\ pool.loops \in Seq(Loops) /\ (pool.next = 0 \/ pool.next < pool.numThreads)
    /\ conns \subseteq Conns
    /\ chfd \in [Conns -> Fds \cup {-1, None}]
    /\ channels \in [Loops -> [Fds -> Conns \cup {None}]]
    /\ file \in [Fds -> Conns \cup {None, Leaked, Listener}]
    /\ \A l \in Loops : thread[l].pending \in Seq(Functors) /\ thread[l].batch \in Seq(Functors)

\* k's Attach is still to be run.
Waiting(k) == k \in conns /\ conn[k].loop = None

\* Until the server is destroyed the three records of a descriptor agree: it is open
\* for k exactly as long as k waits for Attach or k's channel has it; the poller of
\* k's loop, no other, and the kernel know that channel and no channel that is closed,
\* however the number was used before.  (Channel::Close closes the descriptor before
\* the poller forgets it, and the base thread may be given the number in between.)
PollersAgree ==
    at # "join" =>
        \A k \in Conns, f \in Fds, l \in Loops :
            /\ thread[l].closing.conn # k =>
                 /\ channels[l][f] = k <=> (chfd[k] = f /\ conn[k].loop = l)
                 /\ \/ interest[l][f] = channels[l][f]
                    \/ interest[l][f] = None /\ thread[l].closing.conn = channels[l][f]
            /\ (file[f] = k) <=> \/ Waiting(k) /\ conn[k].sockfd = f
                                 \/ chfd[k] = f /\ \A i \in Loops : thread[i].closing.conn # k

\* A channel stays in activeChannels_ while other channels' callbacks run, which may
\* close it, and none of those deletes it: HandleEvent is only called on live objects.
ActiveAlive ==
    \A l \in Loops : \A k \in Range(thread[l].active) :
        chfd[k] # None /\ thread[l].closing # [conn |-> k, delete |-> TRUE]

\* RemoveChannel's assertion that the channel is the one the map has for its number
\* fails for no connection: only for a loop that is being destroyed.
AssertionsHold == aborted => \E l \in Loops : thread[l].stage = "gone"

\* A loop that the pool hands connections to was constructed before, and its loop_ is
\* valid until the pool is destroyed: no request is made of a loop that is not there.
LoopReady ==
    \A l \in Range(pool.loops) :
        thread[l].stage \notin {"none", "new"} /\ (at # "join" => thread[l].ptr)

\* If the read callback is set in createcb_, before Attach is handed over, then all
\* that a loop reads is offered to it at once, though the loop may attach and serve the
\* connection while the base thread is still in HandleAccept.  (With OnConnRead it may
\* stay in input_ until the peer sends more.)
ReadOffered == early => \A k \in Conns : conn[k].msg # "input"

\* RemoveChannel is called for channels that the poller has (the assertion of
\* epollpoller.cc:90).
RemovesKnown == ~aborted
=============================================================================
