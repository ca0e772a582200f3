-------------------------------- MODULE Raft --------------------------------
(***************************************************************************)
(* The election of jraft (raft/raft.cc) as the nodes run it: a Node        *)
(* (raft/node.cc) is an RPC server with one RaftPeer (raft/raft_peer.h),   *)
(* that is one connection, for each other node.  Node sets no number of    *)
(* threads, so that everything in a process happens in its one loop.       *)
(*                                                                         *)
(* A connection keeps the order of its calls and loses them when it        *)
(* breaks; nothing connects it again.  Nothing is read from the Storage,   *)
(* so that a process that starts again has forgotten its term, its vote    *)
(* and its log.  No code path of Node reaches AppendEntries or puts an     *)
(* entry into the log: it stays empty.                                     *)
(***************************************************************************)
EXTENDS Integers, Sequences, FiniteSets

CONSTANTS Nodes,     \* the ids
          None,      \* votedFor_ = -1
          MaxElections,  \* bound: calls of Propose
          MaxBoots   \* bound: starts of processes

ASSUME RaftAssumption ==
    /\ IsFiniteSet(Nodes) /\ None \notin Nodes
    /\ MaxElections \in Nat /\ MaxBoots \in Nat

VARIABLES
    up,        \* the nodes that run
    node,      \* role_, currentTerm_, votedFor_, voted_ and whether Start was called
    linked,    \* <<n, m>>: the RaftPeer of n for m is connected
    requests,  \* requests[n, m]: on their way from n to m
    replies,   \* replies[n, m]: on their way back from m to n
    (* History. *)
    boots, elections,
    lives,     \* the number of the start of each node's process
    votes,     \* the votes granted to others: voter, its life, whom, and whether the
               \* voter had itself stood before
    elected    \* the nodes for which ToLeader was called

history == <<boots, elections, lives, votes, elected>>
vars == <<up, node, linked, requests, replies, history>>

Pairs == {p \in Nodes \X Nodes : p[1] # p[2]}

\* The constructor of Raft.  role_ and voted_ are not initialized: "any" may pass for
\* each role, and voted_ may be a majority already.
Fresh ==
    [role |-> "any", currentTerm |-> 0, votedFor |-> None, voted |-> Cardinality(Nodes), started |-> FALSE]

Init ==
    /\ up = {} /\ linked = {} /\ node = [n \in Nodes |-> Fresh]
    /\ requests = [p \in Pairs |-> <<>>] /\ replies = [p \in Pairs |-> <<>>]
    /\ boots = 0 /\ elections = 0 /\ lives = [n \in Nodes |-> 0] /\ votes = {} /\ elected = {}

-----------------------------------------------------------------------------
(* Processes and connections.                                               *)

\* The constructor of Node, and StartServer.
Boot(n) ==
    /\ n \notin up /\ boots < MaxBoots
    /\ boots' = boots + 1 /\ lives' = [lives EXCEPT ![n] = @ + 1]
    /\ up' = up \cup {n}
    /\ node' = [node EXCEPT ![n] = Fresh]
    /\ UNCHANGED <<linked, requests, replies, elections, votes, elected>>

\* Node::Start: every peer is connected, if its server runs.
Start(n) ==
    /\ n \in up /\ ~node[n].started
    /\ node' = [node EXCEPT ![n].started = TRUE]
    /\ linked' = linked \cup {p \in Pairs : p[1] = n /\ p[2] \in up}
    /\ UNCHANGED <<up, requests, replies, history>>

\* The connections in ps break, with the calls that are on their way.
Break(ps) ==
    /\ linked' = linked \ ps
    /\ requests' = [p \in Pairs |-> IF p \in ps THEN <<>> ELSE requests[p]]
    /\ replies' = [p \in Pairs |-> IF p \in ps THEN <<>> ELSE replies[p]]

Disconnect(p) ==
    /\ p \in linked
    /\ Break({p})
    /\ UNCHANGED <<up, node, history>>

Dies(n) ==
    /\ up' = up \ {n} /\ node' = [node EXCEPT ![n] = Fresh]
    /\ Break({p \in Pairs : n \in {p[1], p[2]}})
    /\ UNCHANGED history

Crash(n) == n \in up /\ Dies(n)

-----------------------------------------------------------------------------
(* The election.                                                            *)

\* Mutant: the candidate does not vote for itself.
StandUnpledged(n) == [node[n] EXCEPT !.role = "kCandidater", !.currentTerm = @ + 1, !.voted = 1]

\* ToCandidater up to the requests.
Stand(n) ==
    [node[n] EXCEPT !.role = "kCandidater", !.currentTerm = @ + 1, !.votedFor = n, !.voted = 1]

\* RaftPeer::RequestVote: a call of the stub.  (lastLogIndex and lastLogTerm are always
\* 0.)
Call(p, term) == Append(requests[p], [term |-> term])

\* StartRequestVote: a call on every connection of n's.
StartRequestVote(n, term) ==
    requests' = [p \in Pairs |-> IF p \in linked /\ p[1] = n THEN Call(p, term) ELSE requests[p]]

\* Propose, that is ToCandidater and StartRequestVote.
Propose(n) ==
    /\ n \in up /\ node[n].started
    /\ elections < MaxElections /\ elections' = elections + 1
    /\ node' = [node EXCEPT ![n] = Stand(n)]
    /\ StartRequestVote(n, node[n].currentTerm + 1)
    /\ UNCHANGED <<up, linked, replies, boots, lives, votes, elected>>

\* Mutant: whom the voter voted for is not looked at.
EligibleAny(m, n, term) == term > node[m].currentTerm

\* What RequestVote asks before it looks at the log.
Eligible(m, n, term) == term > node[m].currentTerm /\ node[m].votedFor \in {None, n}

\* The service sends the reply when Node::RequestVote returns.
Respond(n, m, granted) ==
    /\ requests' = [requests EXCEPT ![<<n, m>>] = Tail(@)]
    /\ replies' = [replies EXCEPT ![<<n, m>>] =
                      Append(@, [term |-> node[m].currentTerm, votegranted |-> granted])]
    /\ UNCHANGED <<up, linked, boots, elections, lives, elected>>

\* RequestVote at m, for n: refused.  NewestLog reads the term of an entry before the
\* first of an empty log, which may yield anything, or end the process.
RefuseVote(n, m) ==
    /\ m \in up /\ requests[<<n, m>>] # <<>>
    /\ Respond(n, m, FALSE)
    /\ UNCHANGED <<node, votes>>

\* RequestVote at m, for n: granted.
GrantVote(n, m) ==
    /\ m \in up /\ requests[<<n, m>>] # <<>>
    /\ Eligible(m, n, Head(requests[<<n, m>>]).term)
    /\ node' = [node EXCEPT ![m].votedFor = n]
    /\ votes' = votes \cup {[voter |-> m, life |-> lives[m], to |-> n,
                             late |-> node[m].currentTerm > 0]}
    /\ Respond(n, m, TRUE)

\* RequestVote at m, for n: the read in NewestLog ends the process.
DieInNewestLog(n, m) ==
    /\ m \in up /\ requests[<<n, m>>] # <<>>
    /\ Eligible(m, n, Head(requests[<<n, m>>]).term)
    /\ Dies(m)

\* voted_ > (peers_.size() + 1) / 2
Majority(voted) == voted > Cardinality(Nodes) \div 2

\* Mutant: the term of the reply is not looked at.
CountsAny(n, r) == node[n].role \in {"kCandidater", "any"} /\ r.votegranted

\* The early return of OnRequestVote is not taken.
Counts(n, r) ==
    node[n].role \in {"kCandidater", "any"} /\ r.votegranted /\ ~(node[n].currentTerm > r.term)

\* OnRequestVote at n: the reply of m is discarded, or counted and ToLeader called with
\* a majority.
OnRequestVote(n, m) ==
    /\ n \in up /\ replies[<<n, m>>] # <<>>
    /\ replies' = [replies EXCEPT ![<<n, m>>] = Tail(@)]
    /\ LET voted == node[n].voted + (IF Counts(n, Head(replies[<<n, m>>])) THEN 1 ELSE 0)
           leads == voted > node[n].voted /\ Majority(voted)
       IN  /\ node' = [node EXCEPT ![n].voted = voted,
                                   ![n].role = IF leads THEN "kLeader" ELSE @]
           /\ elected' = IF leads THEN elected \cup {n} ELSE elected
    /\ UNCHANGED <<up, linked, requests, boots, elections, lives, votes>>

-----------------------------------------------------------------------------
Next ==
    \/ \E n \in Nodes : Boot(n) \/ Start(n) \/ Propose(n) \/ Crash(n)
    \/ \E p \in Pairs :
          \/ Disconnect(p)
          \/ RefuseVote(p[1], p[2]) \/ GrantVote(p[1], p[2]) \/ DieInNewestLog(p[1], p[2])
          \/ OnRequestVote(p[1], p[2])

Spec == Init /\ [][Next]_vars

-----------------------------------------------------------------------------
\* A reply that grants a vote carries the voter's term, which is below the one that
\* was asked for and so below the candidate's: OnRequestVote discards every vote, and
\* no node is elected, whatever is lost or started again.
NoneElected ==
    /\ elected = {}
    /\ \A p \in Pairs : \A i \in 1 .. Len(replies[p]) :
          replies[p][i].votegranted => replies[p][i].term < node[p[1]].currentTerm

\* Until it is started again, a node grants its vote to one other node only, in
\* whatever terms.  (After that it may vote for another in the same term: votedFor_ is
\* not stored.)
OneGrantee ==
    \A v, w \in votes : v.voter = w.voter /\ v.life = w.life => v.to = w.to

\* A node that has stood in an election grants no vote until it is started again:
\* votedFor_ is its own id, and ToFollower is never called.
NoGrantAfterStanding == \A v \in votes : ~v.late
=============================================================================
