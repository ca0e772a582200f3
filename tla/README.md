# A TLA+ model of JNet

JNet is a C++11 network library in the reactor style (`src/net`), an RPC layer
over protobuf (`src/rpc`) and the skeleton of a Raft implementation
(`src/raft`). This directory holds TLA+ models of its parts, the TLC
configurations that check them on small instances, and proofs, checked by
TLAPS, of what holds for every instance.

## The system

| Part | State | Operations that change it | Interacts with |
|---|---|---|---|
| `EventLoop` | `pendingFunctors_`, `doingPending_`, `quit_`, eventfd, `activeChannels_` | `Loop`, `RunInLoop`, `QueueInLoop`, `WakeUp`, `HandleRead`, `DoPendingFunctors`, `Quit` | every thread; poller, timers, connections |
| `EpollPoller`, `PollPoller` | map of channels, `events_` / `pollfds_` | `Poll`, `AddChannel`, `UpdateChannel`, `RemoveChannel` | `Channel`, kernel |
| `Channel` | fd, event mask, reported events, callbacks | `HandleEvent`, `EnableRead/Write`, `DisableWrite`, `Close` | poller, owner of the fd |
| `TimerQueue` | `timers_`, `timerfd_`, heap of `Timer`s | `AddTimer`, `Cancel`, `HandleRead`, `Reset`, `Insert` | loop, wall clock, timerfd |
| `TcpConn` | `state_`, `channel_`, `input_`, `output_`, connect timer | `Connect`, `Attach`, `HandleRead`, `HandleWrite`, `HandleHandShake`, `Send` (three ways), `Close`, `Shutdown`, `CleanUp` | loop, timers, peer, user callbacks |
| `TcpServer` | listening channel, `conns_` | `StartServer`, `Bind`, `HandleAccept`, `RemoveConn`, destructor | loop pool, `TcpConn` |
| `EventLoopThread`, `EventLoopPool`, `CountDownLatch` | `loop_`, `started_`, `next_`, count | `StartLoop`, `RunInThread`, destructor, `GetNextLoop` | two threads |
| `Buffer` | allocation, `b_`, `e_`, `cap_` | `Append`, `Consume`, `MakeRoom`, `Expand`, `Absorb`, copy | `TcpConn`, codecs |
| `ThreadPool` | queue, `stop_`, condition variable | worker loop, `AddTask`, destructor | unused elsewhere |
| `ProtobufCodec` | (stream in `input_`) | `OnMessage`, `Send` | `TcpConn`, `RpcChannel` |
| `RpcChannel` | `id_`, `outstandings_` | `CallMethod`, `OnRpcMessage`, `DoneCallback` | two ends of a connection |
| `Raft`, `Node` | term, vote, role, votes, log, commit index | `Propose`, `RequestVote`, `OnRequestVote`, `AppendEntries`, `OnAppendEntries` | other nodes over RPC |
| `RaftLog`, `Storage` | offsets and terms, file | `Append`, `Load`, `Get`, `Truncate`, `SetFirstIndex` | file, crash |
| `DaemonProcess` | pid file, its lock, processes | `DaemonStart`, `DaemonStop`, `DaemonRestart` | other commands, the daemon |
| HTTP, log, files, utilities | parsing and system calls | | |

What makes this code hard to test: a functor or a `Quit()` arriving between the
loop's look at its state and its `epoll_wait`; callbacks that re-enter the
object that called them; timers whose ids outlive them; partial writes and a
write event that is switched on and off; the end of a stream arriving with data
or in the middle of a clean-up; objects shared by two loops' threads; descriptor
numbers that are closed on one loop and given out again on another; a packet
that arrives in pieces; a crash between the two writes of a log entry. The
`hazards` of `PROJECT.json` list them at their lines, each with the properties
that would catch it going wrong, or why none does yet.

## Modules

| Module | Models |
|---|---|
| `SerialExecutor` | what `RunInLoop` promises: functors handed over are executed one at a time, in order, until the executor stops |
| `EventLoop` | `net/eventloop.cc` with `EpollPoller::Poll` |
| `EventLoopProofs` | theorems about `EventLoop` |
| `MCEventLoop` | its instance for TLC |
| `TimerQueue`, `MCTimerQueue` | `net/timerqueue.cc`, `net/timer.*` |
| `TimerQueueProofs` | theorems about `TimerQueue` |
| `Buffer` | `net/buffer.cc`: a buffer's value, its memory included, and the operations on it |
| `TcpConn` | `net/tcpconn.cc` with `Channel`; extends `Buffer` |
| `TcpConnProofs` | theorems about `TcpConn` and lemmas about `Buffer` |
| `Poller` | `net/epollpoller.cc` and `net/channel.cc` over the process's descriptors |
| `TcpServer`, `MCTcpServer` | `net/tcpserver.cc` with the pool, its threads and latch, and connections on several loops; extends `Poller` |
| `TcpServerProofs` | theorems about `TcpServer` and lemmas about `Poller` |
| `ProtobufCodec` | `rpc/protobuf/protobuf_codec.cc`: framing of a stream that arrives in pieces |
| `RpcChannel`, `MCRpcChannel` | `rpc/protorpc/rpc_channel.cc` at both ends of a connection; extends `ProtobufCodec` |
| `RpcChannelProofs` | theorems about `RpcChannel` and `ProtobufCodec` |
| `Raft`, `MCRaft` | the election of `raft/raft.cc`, with `raft/node.cc` and `raft/raft_peer.h` |
| `RaftProofs` | theorems about `Raft` |
| `RaftLog` | `raft/raft_log.cc` over `raft/storage.cc`, and `Raft::AppendEntries` |
| `RaftLogProofs` | theorems about `RaftLog` and lemmas about what `Load` computes |
| `Daemon`, `MCDaemon` | `net/daemon.cc` |
| `DaemonProofs` | theorems about `Daemon` |

`TimerQueue` and `TcpConn` use of the loop only what `SerialExecutor` states:
requests of other threads reach the loop thread in order, between rounds of
events. That `EventLoop` keeps this promise is checked by TLC and proved.

Definitions named in a comment as "Mutant" are variants of the definition that
follows them, with a mistake in them; nothing uses them. Each property has one
that TLC shows to break it.

### EventLoop

`pc` is where the loop thread is in `Loop()`: testing `quit_` (`check`), in
`epoll_wait` (`poll`), going through `activeChannels_` (`dispatch`), in user
code (`callback`, `functor`), between functors (`run`), or outside `Loop()`
(`before`, `returned`). `at[t]` is where another thread is in `QueueInLoop` or
`Quit`: the critical section, the test and assignment of `quit_`, and the write
to the eventfd are separate steps. `wakeups` is the eventfd's counter. The
assertion in `Quit()` that fails on a second call ends the process
(`aborted`). `posted`, `ran` and `early` are history.

User code on the loop thread may queue functors and quit at any point where the
code calls back. `RunInLoop` on the loop thread calls its argument at once and
is nothing but user code.

`epoll_wait` may return without events at any time (timeout or signal). No
fairness is assumed of that: the progress properties hold without the
ten-second timeout.

### TimerQueue

Time is counted in the 100 microseconds that `HowMuchTimeFromNow` never goes
below. `wall` is `gettimeofday`, `left` is what the timerfd has left to count;
`StepClock` sets the one and not the other. `heap` is the memory of `Timer`
objects: a deleted one's address may be used again, and a `TimerId` keeps the
address. `HandleRead` is split where it calls back: taking the expired entries,
one step per callback, and `Reset`. In a callback, user code may add and cancel
timers, those of the batch included. `timerfd_settime` takes back an expiration
not yet read, and `HandleRead` may therefore find nothing to read.
`cancelingTimers_` has no variable: the code only clears it.

### TcpConn

A connection made by `Connect()`. `channel` is `shut` when `Channel::Close()`
has set its fd to -1 and `gone` when `channel_` is null. Bytes to send are
numbered in the order they are accepted, so that order and completeness can be
stated; of received bytes only counts are kept. `output_` is a value of
`Buffer`: where its contents begin, its capacity and its bytes. `MakeRoom`
relies on `MoveHead()`, whose body is empty, so that bytes may be written past
the end of the memory; the value is then not `InBounds`, and as anything may
follow such a write the model stops there (`Sound`). `ISend` writes any nonempty
prefix the kernel takes (`full`), nothing when the socket is broken. `revents`
are the events reported in this round: other code of the round (the connect
timer, `Close()` by another connection's callback) may run before they are
handled. `CleanUp` is split where it calls `readcb_` and `statecb_`.
`HandleRead`'s loop is one step per round (`at = "input"`), since another thread's
`Shutdown()` sets `state_`, which the loop reads again in every round: it then
ends without a call of `readcb_` for what it has read (`stopped`). A write that
fails keeps failing: transient errors other than `EAGAIN` and `EINTR` are left
out.

### Poller and TcpServer

`file` is the kernel's table of descriptors, which all loops share and which
gives out the lowest free number; `interest[l]` is the kernel's epoll list of loop
`l`, `channels[l]` its poller's map, `chfd` a channel's `fd_`. `Channel::Close`
is two steps, since the base thread may be given the number between `close(fd_)`
and `RemoveFromLoop()`.

The base thread (`at`) binds, starts the pool's threads one by one and waits for
each one's latch, accepts, and destroys the server. `HandleAccept` is split
after `RunInLoop`: the connection may be attached and served on its loop before
the callbacks are set, unless `createcb_` sets them (`early`), as `RpcServer`
and `HttpServer` do. A loop thread (`thread[l]`) takes the events of a
round, then handles one channel or runs one functor per step, and a callback may
close any connection of its loop. `held` are the connections that a functor
still refers to, so that the model knows when a `TcpConn` is destroyed. Loops are
destroyed when `~EventLoopThread` has joined their thread; the assertion that
fails there ends the process.

### ProtobufCodec and RpcChannel

A stream is the packets sent and two offsets, what has been read and what has
been consumed: `OnMessage` is called once per read and delivers at most one
packet. Its test of the length does not count the header, so that a packet may
be delivered before its last bytes are there; `cut` records that a read ended
where this can happen (or within a header, where `PeekInt32` asserts), `burst`
that a read left a whole packet behind. A packet fits the 4096 bytes of a new
`Buffer` (`NewMemory`): `SerializeToBuffer` makes room for the header only, and
what a longer payload overwrites is not modelled. A request for a service that
is not in `Registered` fails the assertion at `rpc_channel.cc:92` and ends the
server (`aborted`); the one at line 90 cannot fail there, as
`RpcServer::OnConnection` sets the services before the read callback.
`CallMethod` is three steps, `id_++`,
the entry into the map, and the sending; the first two both read `id_`.

### Raft

A node is its process: the fields of `Raft`, which a crash forgets. A connection
keeps the order of calls and loses them when it breaks. Fields that the
constructor does not set (`role_`, `voted_`) have a value that passes every test.
`NewestLog` reads the term of an entry of the empty log: the read ends the
process or returns anything, so that a vote may be granted or refused.

### RaftLog

The file is a sequence of eight-byte cells; `index` is `offset_term_`. `Append`
is two writes. Each may fail, which `Append` does not tell its caller, or be
short, which `Storage::Write` passes on and `Append` takes for success; a crash
may come between two writes or within one. `faults` counts crashes and short
writes. `log` is what the index should stand for, with `Torn` for an entry whose
contents were cut short. A write ends between cells, never within one, and no
read fails. When the first index is never set (`Raft`'s constructor does not),
or `SetFirstIndex` fails, the file goes on without one (`headed` is false); a
header written in part, or an inner entry truncated, is `skewed`. Of `Get` the
model has the bytes it reads into `buf`: that it makes a string of them which
has no end mark (`raft_log.cc:88`), and that `Term()` returns 0 for every valid
index (line 94), is outside of it. The loop of `Load` is given by the offsets it
visits (`Visited`, a recursive function) and the number of its rounds. The
operations are called directly, or by `Raft::AppendEntries` (`todo`: the entries
its loop has left). No code calls that handler yet; it is modelled because it
says how the log is meant to be used. `commitIndex_`, which it sets, is not in
the model.

### Daemon

Commands run system call by system call on one pid file: an inode (`content`),
the name (`path`) and the lock (`holder`). A daemon may exit or be killed at any
time. `DaemonStart` exits in the process that was given the command (line 95,
`ParentExit`) while its grandchild goes on to write the pid file, in any order:
`parents` are the commands whose own process is still there. `overlap` records
that a command was given before another had returned, `early` that one was given
before the daemon of another had written its pid; the caller cannot see the
second. `Paced` says that neither has happened.

## Runs

| Run | Instance | Result |
|---|---|---|
| `event_loop` | 2 threads, 3 functors, 1 channel | about 292,000 states; all properties hold |
| `timer_queue` | 2 addresses, 2 timers, one-shot and repeating, expirations before and after the call, clock up to 3, one clock step | about 709,000 states; all properties hold |
| `timer_cancel` | the same | `CancelOnlyItsOwn` is violated |
| `tcp_conn` | 4 bytes out, 2 bytes in, 2 waiting requests, 3 bytes of memory at first | about 684,000 states; all properties hold |
| `tcp_conn_state` | 3 bytes out | `ConnectedCallback` is violated |
| `tcp_server` | 1 or 2 loop threads, 2 connections, 3 descriptors, an event list of 1 that grows | about 1,064,000 states; all properties hold |
| `loop_exit` | the same | `RemovesKnown` is violated |
| `rpc_channel` | 3 calls, one of them for a service that is not registered, packets of 10 bytes read in pieces | about 153,000 states; all properties hold |
| `rpc_framing` | 1 call | `FullPacket` is violated |
| `raft_log` | 3 entries of 2 terms and 2 lengths, 2 truncations, 2 crashes or short writes | about 568,000 states; all properties hold |
| `raft` | 3 nodes, 3 elections, 4 starts of processes | about 476,000 states up to symmetry; all properties hold |
| `daemon` | 3 commands, 2 tries | about 838,000 states up to symmetry; all properties hold |

Why these bounds: with three functors, one can be queued before the swap, one
by another thread during the batch and one by a functor; two threads are needed
for `Quit()` against `Quit()` and against `QueueInLoop`. Two addresses let a
timer be added while another is in its callback, and the memory of a fired one
be used again; expirations 1 unit before and 2 after the call cover the past, zero
(`TimeStamp()`, at clock 1) and the future, and a later timer that is due
earlier than the timerfd is armed for. Three bytes give a partial write
with bytes waiting behind it and another send on top; four, over a memory of
three, are the fewest that reach every branch of `MakeRoom`. Two connections on
one loop show a callback that closes another channel of the round, on two loops a
descriptor number that moves between pollers; the third number is the listening
socket's.
Two calls can overlap, be answered out of order and arrive in one read; ten
bytes have every kind of cut: a read may end at the end of a packet, in its
header, and on both sides of the byte where `OnMessage` begins to accept it. The
third call asks for a service the server does not have, before, between or after
the two. Three nodes have a majority that is not everyone, and a
node that two candidates ask. Three entries are one before, at and after the
place that is truncated or torn. Three commands are a daemon and two that race.

What they show:

- `NoLostWakeup`, `NoLostQuit`: the loop thread never sleeps in `epoll_wait`
  over pending functors or a set `quit_` unless the eventfd is readable or its
  write is due. The exception in the statement is real: a functor the loop's
  own thread queues before `Loop()` writes nothing (line 153) and may wait for
  the timeout.
- `FunctorsConserved`, `ImplementsExecutor`, `FunctorsRun`, `QuitStopsLoop`: no
  functor is lost, doubled or reordered; each runs unless the loop ends; a
  `Quit()` ends the loop.
- `EntriesLive`, `CancelledStaysCancelled`: whatever callbacks and other
  threads add and cancel, `timers_` never points at a deleted `Timer`, and one
  that was taken out never runs.
- `NeverSleepsPastDeadline`, `TimersFire`: the timerfd is armed whenever a
  timer waits, and early enough; every timer fires even if the clock is set.
- `BytesInOrder`, `OutputHasWriter`, `OutputDrains`: the three ways to send,
  and `HandleWrite`, keep the bytes in order and never leave some without a
  write event. `OutputFits`: the only way out of `output_`'s memory is the branch
  of `MakeRoom` that calls `MoveHead()`.
- `InputOffered`, `PeerCloseSeen`, `CleanedUpOnce`: whatever the callbacks do,
  input is offered to the reader up to the last byte, the end of the stream is
  noticed, and the connection is cleaned up once. The exception of the first is
  real: a `Shutdown()` of another thread between `AddSize` and the loop's next
  look at `state_` leaves what was read unoffered for good.
- `PollersAgree`, `ActiveAlive`, `AssertionsHold`: while numbers are closed and
  given out again on several threads, the pollers' maps, the kernel's lists and
  the channels agree (between `close(fd_)` and `RemoveFromLoop()` the kernel has
  already forgotten the one channel that is being closed); no deleted channel is
  called; no assertion of the poller fails before a loop is destroyed.
- `LoopReady`, `ReadOffered`: the latch makes a loop complete before it is given
  connections, and input is offered at once if `createcb_` sets the callback.
- `PacketsInOrder`, `OwnResponse`, `SaneUnlessCut`, `CallsAnswered`: packets
  are delivered in order; a call is answered once, by its own response, and in
  the end, and no assertion fails, as long as threads do not overlap in
  `CallMethod`, reads neither end at a critical byte nor bring two packets, and
  the services asked for are registered. These are the conditions under
  which the code is right.
- `ReloadAgrees`, `EntriesKept`, `OneTornPerFault`, `AppendedWhereAsked`,
  `ValidExact`: the index and the file agree across crashes, failed and short
  writes, entries written as a whole are kept, each fault costs at most one
  entry, and `AppendEntries` puts its entries where it was asked to, while the
  file begins with a first index, no header is written in part and only last
  entries are truncated (`Sound`). `Truncate` erases one element of the index,
  also in the middle.
- `NoneElected`: a reply carries the voter's term, which is below the
  candidate's, and the candidate discards it: no vote is counted. `OneGrantee`,
  `NoGrantAfterStanding`: during one life of its process a node votes for one
  other node at most, over all terms.
- `SoleDaemon`, `FileNamesDaemon`: commands given after the ones before have
  returned and their daemons have written their pid leave at most one daemon,
  named by the pid file. It is not enough that they have returned: a second
  start given then may find no pid and leave a second daemon, and a stop may find
  nothing to stop. `StoppedIsGone`: however they overlap, a stop that succeeds
  has seen the process end.

Four runs show where the code does not do what its comments or assertions say.
`timer_cancel`: cancelling a timer that has fired (which `TcpConn::CleanUp`
does) removes a different timer when that one was allocated in the same memory;
the comment at `timerqueue.cc:148` calls the second removal harmless.
`tcp_conn_state`: `tcpconn.cc:160` names the state callback without calling it,
where `tcpconn.h:62` says it is called when the state changes. `loop_exit`:
`~EventLoop` and then `~Channel` remove the wakeup channel, and the assertion at
`epollpoller.cc:90` fails the second time. `rpc_framing`: `OnMessage` delivers a
packet whose last bytes have not arrived, where `protobuf_codec.cc:24` says
"receive a full packet".

Runs with `CHECK_DEADLOCK FALSE` are of systems that come to rest: a server that
is destroyed, calls that are answered, bounds that are used up.

### Fairness

`EventLoop`: the loop thread runs whenever it can, `epoll_wait` returns when
something is ready, callbacks and functors return, and a thread inside
`QueueInLoop` or `Quit` finishes the call. `TimerQueue`: the loop thread runs
and time passes. `TcpConn`: the loop thread runs, and the peer reads, so that a
full send buffer gets room. `RpcChannel`: a thread inside `CallMethod` finishes
the call, bytes that were sent arrive (the connection stands), and the service
calls `done` in the end. Nothing is assumed of user code or of the peer
otherwise. In `TcpConn` and `RpcChannel` the fairness ends where the model stops
(`Sound`, `Sane`).

## Proofs

`EventLoopProofs` proves, for any sets of threads, functors and channels:

- `TypeCorrect`, `WakeupNeverLost`, `QuitNeverLost`, `FunctorsNeverLost`: the
  invariants `TypeOK`, `NoLostWakeup`, `NoLostQuit`, `FunctorsConserved`;
- `Refinement`: `EventLoop` implements `SerialExecutor`.

`NoLostWakeup` is not inductive: it speaks only of the moment the loop is
blocked, and says nothing of functors queued before. The invariant `IInv`
adds `WakeupDue` (at every point from which the loop reaches `epoll_wait`
without passing the swap, pending functors have a wakeup written, a writer
about to write, or are `early`), `DoingMeansRunning` (`doingPending_` is set
exactly while a batch is executed, so line 153 is right to rely on it) and
`BatchWhileRunning` (outside that, the batch is empty). `Invariance` is proved
with one lemma per kind of step: those that leave the queue alone, the two
ways to queue, the swap, and the call of a functor. The refinement follows from
`FunctorsConserved`, which makes the head of the batch the oldest functor not
yet executed. The only assumption is `ChannelsAssumption`: the eventfd's
channel is none of the others.

`RaftProofs` proves, for any finite set of nodes and without bounds on
elections and restarts, `NeverElected`, `VotesForOne` and
`CandidatesGrantNothing`: the invariants `NoneElected`, `OneGrantee` and
`NoGrantAfterStanding`. Their inductive invariant needs, beside the types:
`AskedReached` (a candidate has reached every term it has asked a vote for, and
a vote is granted only by a voter below that term, whose own term is what the
reply carries), `DownFresh` (a process that does not run has
no state, so that a restart begins a new life), `StoodForItself` (who has stood
holds its own vote, and so grants none) and `VoteHeld` (a vote granted in this
life is still in `votedFor_`, unless the node stood since). There is one lemma
per kind of step. The assumptions are `RaftAssumption`: the nodes are finitely many
and `None` is none of them.

`TimerQueueProofs` proves, for any sets of addresses, delays and intervals and
without regard to the bounds, `NoDanglingEntry`, `TimerfdInTime` and
`ErasedNeverReturns`: the invariants `EntriesLive`, `NeverSleepsPastDeadline` and
`CancelledStaysCancelled`. None is inductive. A `TimerId` holds an address, and
`CancelTimerIdInLoop` looks up whatever `Timer` lives there now, so that the
invariant has to say how numbers and memory go together: `LiveNumbered` (a
`Timer` lives where its id says), `AddsPending` (one that is on its way to the
loop thread lives, is filed nowhere and was not erased) and `AddsOnce`. For the
timerfd, `ArmedInCallbacks` is needed: while `HandleRead` calls back, a timer
added for a time that has passed has armed the timerfd itself, since `Reset`
will arm it only for what follows. Assumptions: `TimerAssumption`, the types of
the constants.

`TcpConnProofs` proves, for any number of bytes and requests and any least
memory of a buffer, `BytesKeepOrder`, `WriteEventOn`, `OnlyMoveHeadOverruns`,
`AllInputOffered` and `OneCleanUp`: the invariants `BytesInOrder`,
`OutputHasWriter`, `OutputFits`, `InputOffered` and `CleanedUpOnce`. It begins
with lemmas about `Buffer`: `Expand` and `MakeRoom` keep the contents and leave room
unless `MakeRoom` takes the branch of `MoveHead()`; `AppendTo`, `Consume` and
`Absorb` do to the bytes what their names say and stay within the memory. The
invariant adds to the properties `Writer` (bytes in `output_` have a write event
in every state of the connection, the handshake included, because `SendBuffer`
does not ask for the state), `Offer` (user code has consumed no more than it was
offered, and only `HandleRead`'s loop and `CleanUp` have still to offer, unless
the loop was `stopped`) and `Cleaned` (`statecb_` is
called exactly on the way to deleting the channel). Assumptions:
`BufferAssumption`, `TcpConnAssumption`, the types of the constants.

`TcpServerProofs` proves, for any number of loop threads, connections,
descriptors, failed accepts and closes by other threads, `ServerTypes`,
`TablesAgree`, `ActiveChannelsLive`, `RemoveAsserts`, `PoolLoopsReady` and
`CreateCbSeesAll`: the invariants `TypeOK`, `PollersAgree`, `ActiveAlive`,
`AssertionsHold`, `LoopReady` and `ReadOffered`. The invariant has eight parts:
`Types`; `Starting` (where each thread can be while the pool starts, serves and
is destroyed); `Accepted`; `Queued` (a request to attach is for a connection that
waits for it, there is one for each, and a request to close is on the
connection's own loop); `Mapped` (a poller's map has exactly the channels of its
loop, and the kernel no others); `Active` (what is left of a round are live
channels of the loop, each once); `Table` (who has a descriptor); `Callbacks`.
`Table` and `Mapped` hold up each other: a channel is added under a number that
the kernel has just given out, so that the map has no other channel under it,
though other threads close descriptors meanwhile. There is one lemma per action
and per part that the action can disturb. Assumptions: `ServerAssumption` (loops
and connections are numbered from 1 without gaps; the markers `Leaked` and
`Listener` are no connections) and those of `Poller` on the constants.

`RpcChannelProofs` proves, for any finite set of calls, any part of them for registered
services, any lengths of header and payload that fit a new `Buffer`, and reads that
end anywhere, `RpcTypes`, `CodecKeepsOrder`,
`OwnResponseOnly` and `OnlyCutsHurt`: the invariants `TypeOK`, `PacketsInOrder`,
`OwnResponse` and `SaneUnlessCut`. The invariant follows a call along its way:
`Numbers` (`id_` counts the calls begun, and no two have one number), `Requested`
and `Answered` (every packet in one stream stems from the one delivered in the
other, and none is there twice), `Mapped` (unless threads overlapped, the map
holds exactly the calls not answered, under their numbers) and `Stream` (what was
consumed are whole packets). Assumptions: `CodecAssumption` and `RpcAssumption`;
the calls are finitely many, so that `id_` is their number.

`DaemonProofs` proves, for any finite set of processes and any number of rounds
in `DaemonStop`, `OneDaemon`, `PidFileNamesDaemon` and `StopSeesEnd`: the
invariants `SoleDaemon`, `FileNamesDaemon` and `StoppedIsGone`. The last holds
however commands overlap, from `PidsKnown`, `PidWhenRead` and `SeenEnd` (a pid
comes from a process that was started, is read in `DaemonStop` alone, and past its
loop that process has ended). The other two need, while commands are `Paced`,
`OneBusy` (one command or daemon at a time is between its beginning and the write
of its pid), `NamesEach`, `StopKnowsEach` and `StartsAlone`: the file names each
daemon that is up, a stop has read its pid, and while a daemon starts there is no
other and the pid file is the one it has opened. Assumptions: `DaemonAssumption`.

`RaftLogProofs` proves, for any terms, lengths of entries and first indices, and
any number of appends, truncations, failed and short writes and crashes,
`ReloadAgreement`, `EntriesStay`, `TornAreFaults` and `AppendedInPlace`: the
invariants `ReloadAgrees`, `EntriesKept`, `OneTornPerFault` and
`AppendedWhereAsked`. It begins with what `Load` computes. `Disk(f, idx, b)`
says, without recursion, that the entries of `idx` follow each other in the file
`f` from the first index up to `b`; `LoadIs` shows that `Load` then builds
exactly `idx`. Its proof needs an induction over the rounds, which is made by
looking at the first round that goes wrong (`Least`: some numbers have a least
one). `DiskAppend` and `DiskFront` say what a further entry and a cut do to
`Disk`. The invariant, which speaks as long as no inner entry was truncated and
no header written in part, has five parts: `Types`; `Stages` (what `Truncate`
has done so far, and that the first entry is at the beginning of the file or
right behind the first index); `InUse` (in a file with a first index, `Disk`
holds of the index in memory, the entries appended are in the file, and behind
them there is at most one header without contents); `Found` (the same, after a
crash, of what `Load` will find); `Asked` (how far the loop of `AppendEntries`
has come). There is one lemma per action. `ValidIndexExact` proves `ValidExact`
whenever `Sound` holds and the log is in use. TLC checks it in every state; in a
log that is `skewed` a reload may take contents for lengths, and nothing bounds
the index for every value of the constants. Assumptions: `RaftLogAssumption`,
the types, and `WordAssumption`: indices and terms stay below the largest
unsigned number by as many as there are appends.

Each inductive invariant was checked by TLC, under its run's bounds, before it was
proved; nothing is assumed of a constant beyond what the modules' `ASSUME`s
say, and TLC evaluates those in every run.

Only checked by TLC: the liveness properties (`FunctorsRun`, `QuitStopsLoop`,
`TimersFire`, `OutputDrains`, `PeerCloseSeen`, `CallsAnswered`: fairness is outside
what the prover handles), and `ValidExact` outside the states that
`ValidIndexExact` speaks about.

## Not modelled

- `HttpMsg`, `HttpConnPtr`, `HttpServer`, `LineCodec`: parsing of text. A
  `HttpMsg` keeps `complete_`, `contentLen_` and `scanned_` of one message, and
  only the loop that reads its connection uses it. By reading alone, with no run
  behind it: the second loop of `TrimeSpaceAndToLower` (`http.cc:50`) never
  advances `i`, so decoding a header line would not end. `HttpServer` sets its
  read callback in `createcb_`, which `TcpServer` has.
- `ThreadPool`, `PollPoller`: nothing uses them (`defaultpoller.cc:8` always
  makes an `EpollPoller`). `Connector` and `TcpClient` are stubs.
- `Logger`, `ProcessInfo`, `File`, `Slice`, `Any`, `Status`, `Util`, `Net`:
  formatting, wrappers of system calls and values. `Logger::MaybeRotate` does
  share `lastRotate_` and `realRotate_` between threads; nothing here speaks
  about concurrent rotation.
- A server without loop threads, on which everything runs in the base loop, and
  the base loop's own poller. `TcpServer::RemoveConn`, which nothing calls.
- `Send(Buffer&)` called by a thread that is not the loop's (`tcpconn.h:48` says
  it is not thread safe; `RpcChannel::CallMethod` does it all the same):
  `RpcChannel` is checked over a connection that sends packets whole.
- What follows a write past the end of `output_`, a packet delivered early or a
  failed assertion: the models stop there.
- `RpcChannel`'s destructor, and `RegisterService`, which is called before the
  server starts: `Registered` is a constant.
- What `RaftLog::Get` makes of the bytes it has read, and `Term()` of a valid
  index; writes to the log that end within eight bytes, and reads of it that
  fail.
- Payloads longer than the memory of a new `Buffer`.
- In Raft the leader's side and the replies to `AppendEntries`: `Node` has empty
  handlers, `RaftPeer::AppendEntries` is not implemented, and no node becomes
  leader.

Where the code reads freed or uninitialized memory the model takes every outcome
that read can have. Integer widths play a role in `RaftLog` (`ValidIndex`, whose
difference becomes unsigned: `Word` stands for 2^64); other numbers are 64
bits wide and not near their limits.
