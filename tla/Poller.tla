------------------------------- MODULE Poller -------------------------------
(***************************************************************************)
(* jnet::EpollPoller (net/epollpoller.cc) and jnet::Channel                *)
(* (net/channel.cc) over the process's table of descriptors, which all the *)
(* loops share: a number that is closed on one loop may be given out at    *)
(* once to a connection of another.  Each loop's poller keeps a map        *)
(* channels_ from numbers to channels; the kernel keeps its own list of    *)
(* interest, and drops a descriptor from it only when it is closed.        *)
(*                                                                         *)
(* A channel is named by the connection it belongs to.                     *)
(***************************************************************************)
EXTENDS Integers, Sequences, Functions

CONSTANTS Loops,       \* the event loops, each with a poller
          Conns,       \* the channels' connections
          Fds,         \* descriptor numbers (a bound)
          None,        \* no connection, no loop, a null pointer
          InitEvents   \* kInitEventListSize

ASSUME PollerAssumption ==
    /\ Fds \subseteq Nat
    /\ None \notin Conns \cup Loops \cup Int
    /\ InitEvents \in Nat \ {0}

VARIABLES
    file,      \* the kernel's table: the connection a descriptor is open for
    interest,  \* per loop, the kernel's epoll list: number -> data.ptr
    channels,  \* per loop, Poller::channels_: number -> channel
    chfd,      \* Channel::fd_: a number, -1 once closed, None if there is no object
    evcap,     \* per loop, events_.size()
    aborted    \* an assertion of the poller has failed

pollerVars == <<file, interest, channels, chfd, evcap, aborted>>

Unused == [f \in Fds |-> None]

PollerInit ==
    /\ file = Unused
    /\ interest = [l \in Loops |-> Unused]
    /\ channels = [l \in Loops |-> Unused]
    /\ chfd = [k \in Conns |-> None]
    /\ evcap = [l \in Loops |-> InitEvents]
    /\ aborted = FALSE

-----------------------------------------------------------------------------
\* The kernel gives out the lowest free number.
FreeFds == {f \in Fds : file[f] = None}

Open(k, f) ==
    /\ f \in FreeFds /\ \A g \in FreeFds : f <= g
    /\ file' = [file EXCEPT ![f] = k]

\* close(f): the descriptor leaves every epoll list.
CloseFd(f) ==
    /\ file' = [file EXCEPT ![f] = None]
    /\ interest' = [l \in Loops |-> [interest[l] EXCEPT ![f] = None]]

\* A new Channel on f.
NewChannel(k, f) == chfd' = [chfd EXCEPT ![k] = f]

\* Update: epoll_ctl(EPOLL_CTL_ADD), with the channel as data.ptr.
Update(l, k, f) == interest' = [interest EXCEPT ![l][f] = k]

\* Mutant: the kernel is told and the map is not.
AddUnmapped(l, k, f) == Update(l, k, f) /\ UNCHANGED channels

AddChannel(l, k, f) ==
    /\ Update(l, k, f)
    /\ channels' = [channels EXCEPT ![l][f] = k]

\* Mutant: the map keeps the channel that is removed.
RemoveNothing(l, k) == UNCHANGED <<channels, aborted>>

\* RemoveChannel: two assertions, then the map; no EPOLL_CTL_DEL.
RemoveChannel(l, k) ==
    IF channels[l][chfd[k]] = k
    THEN channels' = [channels EXCEPT ![l][chfd[k]] = None] /\ UNCHANGED aborted
    ELSE aborted' = TRUE /\ UNCHANGED channels

-----------------------------------------------------------------------------
\* events_ doubles when epoll_wait has filled it.
GrowEvents(l, n) ==
    evcap' = [evcap EXCEPT ![l] = IF n = evcap[l] THEN 2 * @ ELSE @]

\* Poll and FillActiveChannels: the ready channels in any order, all of them or as many
\* as events_ has room for.
PollReady(l, ready) ==
    {s \in UNION {[1 .. n -> ready] : n \in 0 .. evcap[l]} :
        IsInjective(s) /\ (Len(s) = evcap[l] \/ Range(s) = ready)}
=============================================================================
