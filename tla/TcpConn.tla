------------------------------- MODULE TcpConn -------------------------------
(***************************************************************************)
(* jnet::TcpConn (net/tcpconn.cc) with its Channel: one connection made by *)
(* Connect(), its handshake, its two buffers, and the three ways it ends   *)
(* (peer, Close(), Shutdown()).  The events come from a level-triggered    *)
(* poller; user code runs on the loop thread between events and inside the *)
(* callbacks CleanUp makes, and other threads hand requests over with      *)
(* EventLoop::RunInLoop (SerialExecutor: in order, after the round's       *)
(* events).                                                                *)
(*                                                                         *)
(* Bytes are numbered in the order the connection accepts them to send,    *)
(* and output_ is a Buffer with its memory.  Of the bytes received only    *)
(* the counts matter.                                                      *)
(***************************************************************************)
EXTENDS Buffer

CONSTANTS MaxSend,      \* bound: bytes accepted to be sent
          MaxReceive,   \* bound: bytes the peer sends
          MaxRequests   \* bound: requests of other threads waiting

ASSUME TcpConnAssumption ==
    MaxSend \in Nat /\ MaxReceive \in Nat /\ MaxRequests \in Nat

VARIABLES
    (* The TcpConn. *)
    state,      \* state_
    channel,    \* channel_: "open"; "shut": Channel::Close() was called, its fd
                \* is -1; "gone": the pointer is null
    writing,    \* Channel::IsWriting()
    revents,    \* the events reported and not yet handled
    output,     \* output_
    received,   \* bytes read into input_
    consumed,   \* bytes user code took out of input_
    timeout,    \* the connect timer is pending
    at,         \* "loop"; "input": in the loop of HandleRead; in CleanUp:
                \* "cleanup", "reading" (readcb_) or "closing" (statecb_)
    requests,   \* functors of other threads on their way to the loop thread
    (* The socket. *)
    link,       \* "pending", "ok" or "refused"
    inbox,      \* bytes arrived and not read
    eof,        \* the peer has closed
    full,       \* the kernel's send buffer is full
    broken,     \* writes fail: connection reset, or SHUT_WR
    (* History. *)
    accepted,   \* bytes accepted to be sent
    wire,       \* bytes given to the kernel
    arrived,    \* bytes the peer sent
    offered,    \* bytes of input_ that readcb_ was called for
    stopped,    \* another thread's Shutdown() came during the loop of HandleRead
    calls       \* calls of statecb_

connVars == <<state, channel, writing, revents, timeout, at>>
sendVars == <<output, accepted, wire, full>>
readVars == <<received, consumed, offered, stopped>>
peerVars == <<link, inbox, eof, arrived>>
vars == <<connVars, sendVars, readVars, peerVars, requests, broken, calls>>

-----------------------------------------------------------------------------

\* Points where code of the library's user runs on the loop thread.
UserCode == at \in {"loop", "reading", "closing"}

\* Another thread's Send() is of one byte.
Requests == {"send", "close", "shutdown"}

IsSend(r) == r = "send"

\* The connection may accept k more bytes within the bound, those it was asked to
\* send by other threads counted.
Room(k) == accepted + Len(SelectSeq(requests, IsSend)) + k <= MaxSend

\* input_.GetSize()
InputSize == received - consumed

\* Connect(): a nonblocking connect, Attach with a channel for both events and,
\* if one was asked for, the connect timer.
Init ==
    /\ state = "HandShakeing" /\ channel = "open" /\ writing = TRUE /\ revents = {}
    /\ timeout \in BOOLEAN
    /\ at = "loop" /\ requests = <<>>
    /\ output = Cleared /\ received = 0 /\ consumed = 0
    /\ link = "pending" /\ inbox = 0 /\ eof = FALSE /\ full = FALSE /\ broken = FALSE
    /\ accepted = 0 /\ wire = <<>> /\ arrived = 0 /\ offered = 0 /\ stopped = FALSE
    /\ calls = 0

-----------------------------------------------------------------------------
(* Writing.                                                                 *)

\* The k bytes a caller wants sent.
Bytes(k) == [i \in 1 .. k |-> accepted + i]

\* How many of the bytes ISend may write before the kernel takes no more (EAGAIN),
\* a write fails, or nothing is left.
Written(bytes) ==
    IF bytes = <<>> \/ channel # "open" \/ broken \/ full THEN {0} ELSE 1 .. Len(bytes)

\* Mutant: EAGAIN does not enable the write event.
NeverBlocks(bytes, n) == FALSE

\* ISend stopped at EAGAIN; it then enables the write event.
WouldBlock(bytes, n) == n < Len(bytes) /\ channel = "open" /\ ~broken

\* ISend(bytes), which writes n of them.
ISend(bytes, n) ==
    /\ n \in Written(bytes)
    /\ wire' = wire \o SubSeq(bytes, 1, n)
    /\ full' = (full \/ WouldBlock(bytes, n))

\* What ISend left of the bytes is appended to a buffer, if there is any.
AppendRest(buf, bytes, n) ==
    IF n = Len(bytes) THEN buf ELSE AppendTo(buf, SubSeq(bytes, n + 1, Len(bytes)))

\* Mutant: what is left in output_ is overtaken.
SendInLoopAtOnce(k) ==
    /\ channel # "gone"
    /\ accepted' = accepted + k
    /\ \E n \in Written(Bytes(k)) :
          /\ ISend(Bytes(k), n)
          /\ output' = AppendRest(output, Bytes(k), n)
          /\ writing' = (writing \/ WouldBlock(Bytes(k), n))

\* SendInLoop(message, k)
SendInLoop(k) ==
    /\ channel # "gone"
    /\ accepted' = accepted + k
    /\ IF IsEmpty(output)
       THEN \E n \in Written(Bytes(k)) :
               /\ ISend(Bytes(k), n)
               /\ output' = AppendRest(output, Bytes(k), n)
               /\ writing' = (writing \/ WouldBlock(Bytes(k), n))
       ELSE output' = AppendTo(output, Bytes(k)) /\ UNCHANGED <<wire, full, writing>>

\* Send(message, k) by user code on the loop thread.
Send(k) ==
    /\ UserCode
    /\ state = "Connected"
    /\ Room(k)
    /\ SendInLoop(k)
    /\ UNCHANGED <<state, channel, revents, timeout, at, readVars, peerVars, requests,
                   broken, calls>>

\* Send(Buffer&) by user code on the loop thread, with a new buffer that k bytes were
\* put into or, for SendOutput(), with output_ itself after k bytes were put into it,
\* which absorbs nothing.  The state is not asked for: this may come before the
\* handshake is over or after Shutdown().
SendBuffer(k, own) ==
    LET message == AppendTo(IF own THEN output ELSE Cleared, Bytes(k))
        Keep(rest) ==
            output' = IF own THEN rest ELSE IF IsEmpty(rest) THEN output ELSE Absorb(output, rest)
    IN  /\ UserCode /\ channel # "gone" /\ Room(k)
        /\ accepted' = accepted + k
        /\ \/ writing /\ Keep(message) /\ UNCHANGED <<wire, full, writing>>
           \/ /\ ~writing
              /\ \E n \in Written(message.bytes) :
                    /\ ISend(message.bytes, n)
                    /\ Keep(Consume(message, n))
                    /\ writing' = (n < GetSize(message))
        /\ UNCHANGED <<state, channel, revents, timeout, at, readVars, peerVars,
                       requests, broken, calls>>

-----------------------------------------------------------------------------
(* Closing.                                                                 *)

\* Close() on the loop thread: Channel::Close() closes the fd, which takes it out
\* of the poller, and leaves state_ alone.
CloseInLoop == channel' = IF channel = "open" THEN "shut" ELSE channel

Close ==
    /\ UserCode
    /\ channel # "gone"
    /\ CloseInLoop
    /\ UNCHANGED <<state, writing, revents, timeout, at, sendVars, readVars, peerVars,
                   requests, broken, calls>>

\* Shutdown() on the loop thread: shutdown(fd_, SHUT_WR).
Shutdown ==
    /\ UserCode
    /\ state = "Connected"
    /\ state' = "Closed"
    /\ broken' = TRUE
    /\ UNCHANGED <<channel, writing, revents, timeout, at, sendVars, readVars, peerVars,
                   requests, calls>>

\* The connect timer: a connection that is not made by then is closed.
ConnectTimeout ==
    /\ at = "loop"
    /\ timeout
    /\ timeout' = FALSE
    /\ IF state = "HandShakeing" THEN CloseInLoop ELSE UNCHANGED channel
    /\ UNCHANGED <<state, writing, revents, at, sendVars, readVars, peerVars, requests,
                   broken, calls>>

-----------------------------------------------------------------------------
(* Requests of other threads.  Shutdown() sets state_ at once.              *)

Request(r) ==
    /\ Len(requests) < MaxRequests
    /\ requests' = Append(requests, r)
    /\ \/ r = "send" /\ state = "Connected" /\ Room(1) /\ UNCHANGED <<state, stopped>>
       \/ r = "close" /\ channel # "gone" /\ UNCHANGED <<state, stopped>>
       \/ /\ r = "shutdown" /\ state = "Connected" /\ state' = "Closed"
          /\ stopped' = (stopped \/ at = "input")
    /\ UNCHANGED <<channel, writing, revents, timeout, at, sendVars, received, consumed,
                   offered, peerVars, broken, calls>>

RunRequest ==
    /\ at = "loop" /\ revents = {}
    /\ requests # <<>>
    /\ requests' = Tail(requests)
    /\ LET r == Head(requests)
       IN  \/ r = "send" /\ SendInLoop(1) /\ UNCHANGED <<channel, broken>>
           \/ /\ r = "send" /\ channel = "gone"
              /\ UNCHANGED <<channel, writing, sendVars, broken>>
           \/ r = "close" /\ CloseInLoop /\ UNCHANGED <<writing, sendVars, broken>>
           \/ r = "shutdown" /\ broken' = TRUE /\ UNCHANGED <<channel, writing, sendVars>>
    /\ UNCHANGED <<state, revents, timeout, at, readVars, peerVars, calls>>

-----------------------------------------------------------------------------
(* Events.                                                                  *)

\* What a level-triggered poller reports of the socket.  A refused connection and
\* one that was reset are readable and writable.
Ready ==
    (IF link = "refused" \/ inbox > 0 \/ eof THEN {"in"} ELSE {})
        \cup (IF writing /\ link # "pending" /\ (broken \/ ~full) THEN {"out"} ELSE {})

Poll ==
    /\ at = "loop" /\ revents = {}
    /\ channel = "open"
    /\ Ready # {}
    /\ revents' = Ready
    /\ UNCHANGED <<state, channel, writing, timeout, at, sendVars, readVars, peerVars,
                   requests, broken, calls>>

\* poll(2) says of the socket that it is writable and nothing else.
Writable == channel = "open" /\ link = "ok" /\ ~broken

\* HandleHandShake, when it succeeds and when it fails and goes on to CleanUp.
HandShakeDone == Writable /\ state' = "Connected" /\ UNCHANGED at
HandShakeFails == ~Writable /\ state' = "Failed" /\ at' = "cleanup"

\* Channel::HandleEvent calls HandleRead first, which goes on with its loop.
HandleRead ==
    /\ at = "loop"
    /\ "in" \in revents
    /\ revents' = revents \ {"in"}
    /\ \/ state = "HandShakeing" /\ Writable /\ state' = "Connected" /\ at' = "input"
       \/ state = "HandShakeing" /\ HandShakeFails
       \/ state = "Connected" /\ at' = "input" /\ UNCHANGED state
       \/ state \in {"Closed", "Failed"} /\ UNCHANGED <<state, at>>
    /\ UNCHANGED <<channel, writing, timeout, sendVars, readVars, peerVars, requests,
                   broken, calls>>

\* The loop goes round while state_ is kConnected: bytes there are to read are added to
\* input_, and the state is looked at again.
ReadSome ==
    /\ state = "Connected" /\ channel = "open" /\ inbox > 0
    /\ \E n \in 1 .. inbox : received' = received + n /\ inbox' = inbox - n
    /\ UNCHANGED <<at, consumed, offered>>

\* EAGAIN: readcb_ is called if input_ is not empty, takes some of it, and that is all.
ReadAgain ==
    /\ state = "Connected" /\ channel = "open" /\ inbox = 0 /\ ~eof
    /\ at' = "loop"
    /\ offered' = IF received > consumed THEN received ELSE offered
    /\ consumed' \in consumed .. received
    /\ UNCHANGED <<received, inbox>>

\* Mutant: the end of the stream is not told from "nothing to read".
EndIgnored ==
    /\ state = "Connected" /\ (channel # "open" \/ (inbox = 0 /\ eof))
    /\ at' = "loop"
    /\ UNCHANGED <<received, consumed, offered, inbox>>

\* The end of the stream, or an error: CleanUp.
ReadEnd ==
    /\ state = "Connected" /\ (channel # "open" \/ (inbox = 0 /\ eof))
    /\ at' = "cleanup"
    /\ UNCHANGED <<received, consumed, offered, inbox>>

\* Another thread's Shutdown() has set state_: nothing more is read, and what was read
\* is not offered.
ReadStops ==
    /\ state # "Connected"
    /\ at' = "loop"
    /\ UNCHANGED <<received, consumed, offered, inbox>>

\* A round of the loop of HandleRead.
ReadRound ==
    /\ at = "input"
    /\ ReadSome \/ ReadAgain \/ ReadEnd \/ ReadStops
    /\ UNCHANGED <<state, channel, writing, revents, timeout, sendVars, stopped, link, eof,
                   arrived, requests, broken, calls>>

\* The write event is disabled once output_ is empty.
HandleWrite ==
    /\ at = "loop"
    /\ revents = {"out"}
    /\ revents' = {}
    /\ \/ /\ state = "HandShakeing"
          /\ HandShakeDone \/ HandShakeFails
          /\ UNCHANGED <<writing, sendVars>>
       \/ /\ state = "Connected"
          /\ \E n \in Written(output.bytes) :
                /\ ISend(output.bytes, n)
                /\ output' = Consume(output, n)
                /\ writing' = ~IsEmpty(output')
          /\ UNCHANGED <<state, at, accepted>>
       \/ state \in {"Closed", "Failed"} /\ UNCHANGED <<state, at, writing, sendVars>>
    /\ UNCHANGED <<channel, timeout, readVars, peerVars, requests, broken, calls>>

-----------------------------------------------------------------------------
(* CleanUp.                                                                 *)

\* Mutant: CleanUp does not offer what is left of the input.
CleanUpSkipsRead ==
    /\ at = "cleanup"
    /\ InputSize > 0
    /\ at' = "reading"
    /\ UNCHANGED <<state, channel, writing, revents, timeout, sendVars, readVars,
                   peerVars, requests, broken, calls>>

\* What is left of the input is offered once more.
CleanUpRead ==
    /\ at = "cleanup"
    /\ InputSize > 0
    /\ at' = "reading"
    /\ offered' = received
    /\ UNCHANGED <<state, channel, writing, revents, timeout, sendVars, received,
                   consumed, stopped, peerVars, requests, broken, calls>>

\* Mutant: a connection that was never made is not reported.
CleanUpSilent ==
    /\ at = "reading" \/ (at = "cleanup" /\ InputSize = 0)
    /\ at' = "closing"
    /\ state' = "Closed"
    /\ timeout' = FALSE
    /\ calls' = IF state = "Failed" THEN calls ELSE calls + 1
    /\ UNCHANGED <<channel, writing, revents, sendVars, readVars, peerVars, requests,
                   broken>>

CleanUpState ==
    /\ at = "reading" \/ (at = "cleanup" /\ InputSize = 0)
    /\ at' = "closing"
    /\ state' = IF state = "HandShakeing" THEN "Failed" ELSE "Closed"
    /\ timeout' = FALSE
    /\ calls' = calls + 1
    /\ UNCHANGED <<channel, writing, revents, sendVars, readVars, peerVars, requests,
                   broken>>

\* The channel is deleted, in the middle of its HandleEvent: the write callback may
\* still be called, and finds a state it does nothing in.
CleanUpEnd ==
    /\ at = "closing"
    /\ at' = "loop"
    /\ channel' = "gone"
    /\ revents' = {}
    /\ UNCHANGED <<state, writing, timeout, sendVars, readVars, peerVars, requests,
                   broken, calls>>

-----------------------------------------------------------------------------
(* The peer and the kernel.                                                 *)

LinkUp ==
    /\ link = "pending"
    /\ link' \in {"ok", "refused"}
    /\ broken' = (broken \/ link' = "refused")
    /\ UNCHANGED <<connVars, sendVars, readVars, inbox, eof, arrived, requests, calls>>

PeerSends ==
    /\ link = "ok" /\ ~eof /\ arrived < MaxReceive
    /\ inbox' = inbox + 1
    /\ arrived' = arrived + 1
    /\ UNCHANGED <<connVars, sendVars, readVars, link, eof, requests, broken, calls>>

PeerCloses ==
    /\ link = "ok" /\ ~eof
    /\ eof' = TRUE
    /\ UNCHANGED <<connVars, sendVars, readVars, link, inbox, arrived, requests, broken,
                   calls>>

\* A reset takes with it what has not been read.
PeerResets ==
    /\ link = "ok" /\ ~broken
    /\ eof' = TRUE /\ broken' = TRUE
    /\ inbox' = 0
    /\ UNCHANGED <<connVars, sendVars, readVars, link, arrived, requests, calls>>

PeerReads ==
    /\ full
    /\ full' = FALSE
    /\ UNCHANGED <<connVars, output, accepted, wire, readVars, peerVars, requests,
                   broken, calls>>

-----------------------------------------------------------------------------
LoopStep ==
    \/ Poll \/ HandleRead \/ ReadRound \/ HandleWrite
    \/ CleanUpRead \/ CleanUpState \/ CleanUpEnd \/ RunRequest

UserStep ==
    \/ \E k \in 1 .. MaxSend : Send(k) \/ SendBuffer(k, TRUE) \/ SendBuffer(k, FALSE)
    \/ Close \/ Shutdown
    \/ \E r \in Requests : Request(r)

PeerStep == LinkUp \/ PeerSends \/ PeerCloses \/ PeerResets \/ PeerReads

\* A connection may come to rest in any state, and nothing is said of it after an
\* overrun.
Idle == (at = "loop" \/ ~InBounds(output)) /\ UNCHANGED vars

\* After a write past the end of output_'s memory anything may be.
Sound == InBounds(output)

Next == Idle \/ (Sound /\ (LoopStep \/ ConnectTimeout \/ UserStep \/ PeerStep))

Spec == Init /\ [][Next]_vars

\* The loop thread runs, and a peer that does not close goes on reading.
FairSpec == Spec /\ WF_vars(Sound /\ LoopStep) /\ WF_vars(Sound /\ PeerReads)

-----------------------------------------------------------------------------
(* Properties.                                                              *)

\* Bytes leave in the order they were accepted in, none twice and none left out:
\* what was written and what waits in output_ is what was accepted.  Send(message),
\* Send(Buffer&), SendOutput() and HandleWrite each write to the socket, and each
\* decides for itself whether output_ has to go first.
BytesInOrder == wire \o output.bytes = [i \in 1 .. accepted |-> i]

\* Bytes left in output_ have a write event to wait for: as long as the connection
\* stands, output_ is empty or the channel is writing (ISend enables the event,
\* HandleWrite disables it).
OutputHasWriter ==
    state = "Connected" /\ channel = "open" /\ ~broken /\ ~IsEmpty(output) => writing

\* output_ stays within its memory, and has none when it is empty, whatever mix of
\* sends, partial writes and absorbed buffers made it; when bytes are written past its
\* end, MakeRoom chose MoveHead() for them: they would have fitted behind contents moved
\* to the front.
OutputFits ==
    /\ Sound \/ GetSize(output) < output.cap
    /\ IsEmpty(output) => output = Cleared

\* Input is swallowed in one way only: whenever the loop thread is done with an event,
\* readcb_ has been called for every byte read, also for those that came with the end of
\* the stream (CleanUp), unless another thread's Shutdown() came while HandleRead was in
\* its loop, and ended it.
InputOffered == at = "loop" => offered = received \/ (stopped /\ state = "Closed")

\* The connection is cleaned up once: statecb_ is called at most once, and a null
\* channel_ means that it has been.
CleanedUpOnce == calls <= 1 /\ (channel = "gone" => calls = 1)

\* output_ is drained while the connection stands and the peer reads.
OutputDrains ==
    (~IsEmpty(output) /\ state = "Connected")
        ~> (IsEmpty(output) \/ state # "Connected" \/ channel # "open" \/ broken \/ ~Sound)

\* A connection whose peer has closed is cleaned up, unless user code has closed it
\* or shut it down itself.
PeerCloseSeen == eof ~> (channel # "open" \/ state = "Closed" \/ ~Sound)

\* "Called back when the state changes" (tcpconn.h:62, of OnState): statecb_ is
\* called when the connection is made.
ConnectedCallback ==
    [][state # "Connected" /\ state' = "Connected" => calls' = calls + 1]_vars
=============================================================================
