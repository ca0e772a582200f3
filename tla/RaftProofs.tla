----------------------------- MODULE RaftProofs -----------------------------
(***************************************************************************)
(* The properties of the election, proved for any finite set of nodes and  *)
(* any number of elections and restarts.                                   *)
(***************************************************************************)
EXTENDS Raft, FiniteSetTheorems, TLAPS

NodeState == [role : {"any", "kCandidater", "kLeader"}, currentTerm : Nat,
              votedFor : Nodes \cup {None}, voted : Nat, started : BOOLEAN]
Request == [term : Nat]
Reply == [term : Nat, votegranted : BOOLEAN]
Vote == [voter : Nodes, life : Nat, to : Nodes, late : BOOLEAN]

Types ==
    /\ up \subseteq Nodes /\ linked \subseteq Pairs
    /\ node \in [Nodes -> NodeState]
    /\ requests \in [Pairs -> Seq(Request)] /\ replies \in [Pairs -> Seq(Reply)]
    /\ lives \in [Nodes -> Nat] /\ votes \subseteq Vote

\* A candidate has reached every term that it has asked a vote for.
AskedReached ==
    \A p \in Pairs : \A i \in 1 .. Len(requests[p]) :
        requests[p][i].term <= node[p[1]].currentTerm

\* A process that does not run has no state.
DownFresh == \A n \in Nodes \ up : node[n] = Fresh

\* A node that has stood holds its own vote.
StoodForItself == \A n \in Nodes : node[n].currentTerm > 0 => node[n].votedFor = n

\* A vote granted in the present life of a process is still in votedFor_, unless the
\* node has stood since.
VoteHeld ==
    \A v \in votes :
        /\ v.life <= lives[v.voter] /\ v.to # v.voter
        /\ v.voter \in up /\ v.life = lives[v.voter] =>
              node[v.voter].votedFor \in {v.to, v.voter}

IInv ==
    /\ Types /\ AskedReached /\ DownFresh /\ StoodForItself /\ VoteHeld
    /\ NoneElected /\ OneGrantee /\ NoGrantAfterStanding

-----------------------------------------------------------------------------
\* The state of a process that starts.
LEMMA FreshType == Fresh \in NodeState
BY RaftAssumption, FS_CardinalityType DEF Fresh, NodeState

\* A sequence loses its first element.
LEMMA TailElements ==
    ASSUME NEW S, NEW s \in Seq(S), s # <<>>
    PROVE  /\ Tail(s) \in Seq(S) /\ Len(Tail(s)) = Len(s) - 1 /\ Len(s) \in Nat \ {0}
           /\ Head(s) = s[1] /\ s[1] \in S
           /\ \A i \in 1 .. Len(Tail(s)) : Tail(s)[i] = s[i + 1] /\ i + 1 \in 1 .. Len(s)
OBVIOUS

\* A sequence gets one more.
LEMMA AppendElements ==
    ASSUME NEW S, NEW s \in Seq(S), NEW e \in S
    PROVE  /\ Append(s, e) \in Seq(S)
           /\ \A i \in 1 .. Len(Append(s, e)) :
                 \/ i \in 1 .. Len(s) /\ Append(s, e)[i] = s[i]
                 \/ Append(s, e)[i] = e
OBVIOUS

\* A term is still reached when the one that reached it has grown.
LEMMA AtMostBoth == \A x, y, z \in Nat : x <= y /\ y <= z => x <= z
OBVIOUS

\* A term stays below one that has grown.
LEMMA BelowBoth == \A x, y, z \in Nat : x < y /\ y <= z => x < z
OBVIOUS

\* The initial states.
LEMMA InitIInv == Init => IInv
<1> SUFFICES ASSUME Init PROVE IInv
    OBVIOUS
<1>1. Types
    BY FreshType DEF Init, Types
<1>2. AskedReached /\ NoneElected
    BY DEF Init, AskedReached, NoneElected
<1>3. StoodForItself /\ DownFresh
    BY DEF Init, StoodForItself, DownFresh, Fresh
<1>4. VoteHeld /\ OneGrantee /\ NoGrantAfterStanding
    BY DEF Init, VoteHeld, OneGrantee, NoGrantAfterStanding
<1> QED
    BY <1>1, <1>2, <1>3, <1>4, Zenon DEF IInv

-----------------------------------------------------------------------------
\* A process starts: it has no term, no vote and a new life.
LEMMA BootIInv ==
    ASSUME IInv, NEW n \in Nodes, Boot(n)
    PROVE  IInv'
<1>1. node' = node /\ n \notin up
    BY DEF IInv, Types, DownFresh, Boot
<1>2. UNCHANGED <<requests, replies, votes, elected>>
    BY Zenon DEF Boot
<1>3. Types'
    BY <1>1, SMTT(30) DEF IInv, Types, Boot
<1>4. AskedReached' /\ NoneElected' /\ StoodForItself'
    BY <1>1, <1>2, Zenon DEF IInv, AskedReached, NoneElected, StoodForItself
<1>5. DownFresh'
    BY <1>1, Zenon DEF IInv, DownFresh, Boot
<1>6. VoteHeld'
  <2> SUFFICES ASSUME NEW v \in votes
               PROVE  /\ v.life <= lives'[v.voter] /\ v.to # v.voter
                      /\ v.voter \in up' /\ v.life = lives'[v.voter] =>
                            node[v.voter].votedFor \in {v.to, v.voter}
      BY <1>1, <1>2, Zenon DEF VoteHeld
  <2>1. /\ v.voter \in Nodes /\ v.life \in Nat /\ v.life <= lives[v.voter]
        /\ lives[v.voter] \in Nat
      BY Zenon DEF IInv, Types, VoteHeld, Vote
  <2>2. CASE v.voter = n
      BY <2>1, <2>2, SMTT(30) DEF IInv, Types, VoteHeld, Boot
  <2>3. CASE v.voter # n
      BY <2>1, <2>3, Zenon DEF IInv, Types, VoteHeld, Boot
  <2> QED
      BY <2>2, <2>3, Zenon
<1>7. OneGrantee' /\ NoGrantAfterStanding'
    BY <1>2 DEF IInv, OneGrantee, NoGrantAfterStanding
<1> QED
    BY <1>3, <1>4, <1>5, <1>6, <1>7, Zenon DEF IInv

\* Node::Start changes links only.
LEMMA StartIInv ==
    ASSUME IInv, NEW n \in Nodes, Start(n)
    PROVE  IInv'
<1>1. \A m \in Nodes : /\ node'[m].currentTerm = node[m].currentTerm
                       /\ node'[m].votedFor = node[m].votedFor
    BY Zenon DEF IInv, Types, Start, NodeState
<1>2. Types'
    BY ZenonT(30) DEF IInv, Types, Start, NodeState, Pairs, history
<1>3. UNCHANGED <<requests, replies, up, lives, votes, elected>>
    BY DEF Start, history
<1>4. AskedReached' /\ NoneElected'
    BY <1>1, <1>3, Zenon DEF IInv, AskedReached, NoneElected, Pairs
<1>5. StoodForItself' /\ VoteHeld'
    BY <1>1, <1>3, Zenon DEF IInv, Types, StoodForItself, VoteHeld, Vote
<1>6. OneGrantee' /\ NoGrantAfterStanding'
    BY <1>3 DEF IInv, OneGrantee, NoGrantAfterStanding
<1>7. DownFresh'
    BY DEF IInv, Types, DownFresh, Start
<1> QED
    BY <1>2, <1>4, <1>5, <1>6, <1>7, Zenon DEF IInv

\* An election begins: the candidate's term grows with the term that it asks for.
LEMMA ProposeIInv ==
    ASSUME IInv, NEW n \in Nodes, Propose(n)
    PROVE  IInv'
<1> DEFINE t == node[n].currentTerm + 1
<1>1. node \in [Nodes -> NodeState] /\ t \in Nat /\ t > node[n].currentTerm
    BY DEF IInv, Types, NodeState
<1>2. /\ node' = [node EXCEPT ![n] = Stand(n)]
      /\ Stand(n) \in NodeState /\ Stand(n).currentTerm = t /\ Stand(n).votedFor = n
    BY <1>1, ZenonT(30) DEF Propose, Stand, NodeState
<1>3. \A m \in Nodes : node'[m] = IF m = n THEN Stand(n) ELSE node[m]
    BY <1>1, <1>2
<1>4. UNCHANGED <<up, linked, replies, lives, votes, elected>>
    BY DEF Propose
<1>5. \A p \in Pairs :
        \/ requests'[p] = requests[p]
        \/ p[1] = n /\ requests'[p] = Append(requests[p], [term |-> t])
    BY DEF Propose, StartRequestVote, Call
<1>6. [term |-> t] \in Request
    BY <1>1 DEF Request
<1>7. requests' \in [Pairs -> Seq(Request)]
  <2>1. requests' = [p \in Pairs |-> requests'[p]]
      BY DEF Propose, StartRequestVote, Call
  <2>2. ASSUME NEW p \in Pairs PROVE requests'[p] \in Seq(Request)
    <3>1. requests[p] \in Seq(Request)
        BY DEF IInv, Types
    <3>2. Append(requests[p], [term |-> t]) \in Seq(Request)
        BY <1>6, <3>1, AppendElements
    <3> QED
        BY <1>5, <3>1, <3>2, Zenon
  <2> QED
      BY <2>1, <2>2
<1>8. Types'
    BY <1>1, <1>2, <1>4, <1>7, Zenon DEF IInv, Types
<1>9. ASSUME NEW m \in Nodes
      PROVE  /\ node[m].currentTerm \in Nat /\ node'[m].currentTerm \in Nat
             /\ node[m].currentTerm <= node'[m].currentTerm
  <2>1. node[m].currentTerm \in Nat
      BY <1>1, Zenon DEF NodeState
  <2>2. CASE m = n
      BY <1>1, <1>2, <1>3, <2>1, <2>2, SMTT(30)
  <2>3. CASE m # n
    <3>1. node'[m] = node[m]
        BY <1>3, <2>3, Zenon
    <3> QED
        BY <2>1, <3>1
  <2> QED
      BY <2>2, <2>3, Zenon
<1>10. AskedReached'
  <2> SUFFICES ASSUME NEW p \in Pairs, NEW i \in 1 .. Len(requests'[p])
               PROVE  requests'[p][i].term <= node'[p[1]].currentTerm
      BY Zenon DEF AskedReached
  <2>1. p[1] \in Nodes /\ requests[p] \in Seq(Request)
      BY Zenon DEF Pairs, IInv, Types
  <2>2. /\ node[p[1]].currentTerm \in Nat /\ node'[p[1]].currentTerm \in Nat
        /\ node[p[1]].currentTerm <= node'[p[1]].currentTerm
      BY <1>9, <2>1, Zenon
  <2>3. CASE i \in 1 .. Len(requests[p]) /\ requests'[p][i] = requests[p][i]
    <3>0. requests[p][i] \in Request
        BY <2>1, <2>3, SMTT(30)
    <3>1. requests[p][i].term \in Nat /\ requests[p][i].term <= node[p[1]].currentTerm
        BY <2>3, <3>0 DEF IInv, AskedReached, Request
    <3> QED
      <4>1. requests'[p][i].term = requests[p][i].term
          BY <2>3, Zenon
      <4> QED
          BY <2>2, <3>1, <4>1, AtMostBoth, Zenon
  <2>4. CASE p[1] = n /\ requests'[p][i] = [term |-> t]
      BY <1>1, <1>2, <1>3, <2>4, SMTT(30)
  <2>5. CASE requests'[p] = requests[p]
      BY <2>3, <2>5, Zenon
  <2>6. CASE p[1] = n /\ requests'[p] = Append(requests[p], [term |-> t])
    <3>1. \/ i \in 1 .. Len(requests[p]) /\ requests'[p][i] = requests[p][i]
          \/ requests'[p][i] = [term |-> t]
      <4> DEFINE e == [term |-> t]
                 s == requests[p]
      <4>1. e \in Request /\ s \in Seq(Request) /\ requests'[p] = Append(s, e)
          BY <1>6, <2>1, <2>6, Zenon
      <4> HIDE DEF e, s
      <4>2. \A j \in 1 .. Len(Append(s, e)) :
              \/ j \in 1 .. Len(s) /\ Append(s, e)[j] = s[j]
              \/ Append(s, e)[j] = e
          BY <4>1, AppendElements, ZenonT(30)
      <4>3. \/ i \in 1 .. Len(s) /\ requests'[p][i] = s[i]
            \/ requests'[p][i] = e
          BY <4>1, <4>2, Zenon
      <4> QED
          BY <4>3, Zenon DEF e, s
    <3> QED
        BY <2>3, <2>4, <2>6, <3>1, Zenon
  <2> QED
      BY <1>5, <2>5, <2>6, Zenon
<1>11. NoneElected'
  <2>1. ASSUME NEW p \in Pairs, NEW i \in 1 .. Len(replies[p]), replies[p][i].votegranted
        PROVE  replies[p][i].term < node'[p[1]].currentTerm
    <3>1. p[1] \in Nodes /\ replies[p] \in Seq(Reply)
        BY Zenon DEF IInv, Types, Pairs
    <3>2. replies[p][i] \in Reply
        BY <3>1
    <3>3. replies[p][i].term \in Nat
        BY <3>2, Zenon DEF Reply
    <3>4. replies[p][i].term < node[p[1]].currentTerm
        BY <2>1, Zenon DEF IInv, NoneElected
    <3>5. /\ node[p[1]].currentTerm \in Nat /\ node'[p[1]].currentTerm \in Nat
          /\ node[p[1]].currentTerm <= node'[p[1]].currentTerm
        BY <1>9, <3>1, ZenonT(30)
    <3> QED
        BY <3>3, <3>4, <3>5, BelowBoth, Zenon
  <2> QED
      BY <1>4, <2>1, Zenon DEF IInv, NoneElected
<1>12. StoodForItself' /\ VoteHeld'
    BY <1>2, <1>3, <1>4, <1>8 DEF IInv, Types, StoodForItself, VoteHeld, Vote
<1>13. OneGrantee' /\ NoGrantAfterStanding'
    BY <1>4, Zenon DEF IInv, OneGrantee, NoGrantAfterStanding
<1>14. DownFresh'
    BY <1>3, <1>4, Zenon DEF IInv, DownFresh, Propose
<1> QED
    BY <1>8, <1>10, <1>11, <1>12, <1>13, <1>14, Zenon DEF IInv

-----------------------------------------------------------------------------
\* A connection that breaks has nothing on its way any more.
LEMMA BreakKeeps ==
    ASSUME IInv, NEW ps \in SUBSET Pairs, Break(ps)
    PROVE  /\ linked' \subseteq Pairs
           /\ requests' \in [Pairs -> Seq(Request)] /\ replies' \in [Pairs -> Seq(Reply)]
           /\ \A p \in Pairs : /\ requests'[p] = IF p \in ps THEN <<>> ELSE requests[p]
                               /\ replies'[p] = IF p \in ps THEN <<>> ELSE replies[p]
BY DEF IInv, Types, Break

\* A connection that breaks changes no node.
LEMMA DisconnectIInv ==
    ASSUME IInv, NEW p \in Pairs, Disconnect(p)
    PROVE  IInv'
<1>1. Break({p}) /\ UNCHANGED <<up, node, lives, votes, elected>>
    BY Zenon DEF Disconnect, history
<1>2. Types'
    BY <1>1, BreakKeeps, Zenon DEF IInv, Types
<1>3. \A q \in Pairs : /\ requests'[q] = IF q \in {p} THEN <<>> ELSE requests[q]
                      /\ replies'[q] = IF q \in {p} THEN <<>> ELSE replies[q]
    BY <1>1, BreakKeeps, ZenonT(30)
<1>4. AskedReached' /\ NoneElected'
    BY <1>1, <1>3, SMTT(30) DEF IInv, AskedReached, NoneElected
<1>5. DownFresh' /\ StoodForItself' /\ VoteHeld' /\ OneGrantee' /\ NoGrantAfterStanding'
    BY <1>1, Zenon DEF IInv, DownFresh, StoodForItself, VoteHeld, OneGrantee, NoGrantAfterStanding
<1> QED
    BY <1>2, <1>4, <1>5, Zenon DEF IInv

\* A process ends: its connections break, and its state is gone.
LEMMA DiesIInv ==
    ASSUME IInv, NEW n \in Nodes, Dies(n)
    PROVE  IInv'
<1> DEFINE ps == {p \in Pairs : n \in {p[1], p[2]}}
<1>1. Break(ps) /\ up' = up \ {n} /\ UNCHANGED <<lives, votes, elected>>
    BY Zenon DEF Dies, history
<1>2. node' \in [Nodes -> NodeState] /\ node'[n] = Fresh
      /\ \A m \in Nodes : m # n => node'[m] = node[m]
    BY FreshType, Zenon DEF IInv, Types, Dies
<1>3. Types'
    BY <1>1, <1>2, BreakKeeps, Zenon DEF IInv, Types
<1>4. \A q \in Pairs : /\ requests'[q] = IF q \in ps THEN <<>> ELSE requests[q]
                      /\ replies'[q] = IF q \in ps THEN <<>> ELSE replies[q]
    BY <1>1, BreakKeeps, Zenon
<1>5. \A q \in Pairs : \/ requests'[q] = <<>> /\ replies'[q] = <<>>
                      \/ /\ requests'[q] = requests[q] /\ replies'[q] = replies[q]
                         /\ node'[q[1]] = node[q[1]]
    BY <1>2, <1>4, Zenon DEF Pairs
<1>6. AskedReached' /\ NoneElected'
  <2>1. ASSUME NEW q \in Pairs, requests'[q] # <<>>
        PROVE  requests'[q] = requests[q] /\ node'[q[1]] = node[q[1]]
      BY <1>5, <2>1, Zenon
  <2>2. ASSUME NEW q \in Pairs, replies'[q] # <<>>
        PROVE  replies'[q] = replies[q] /\ node'[q[1]] = node[q[1]]
      BY <1>5, <2>2, Zenon
  <2>3. ASSUME NEW q \in Pairs, NEW i \in 1 .. Len(requests'[q])
        PROVE  requests'[q][i].term <= node'[q[1]].currentTerm
    <3>1. requests'[q] # <<>>
        OBVIOUS
    <3> QED
        BY <2>1, <3>1, Zenon DEF IInv, AskedReached
  <2>4. ASSUME NEW q \in Pairs, NEW i \in 1 .. Len(replies'[q]), replies'[q][i].votegranted
        PROVE  replies'[q][i].term < node'[q[1]].currentTerm
    <3>1. replies'[q] # <<>>
        OBVIOUS
    <3> QED
        BY <2>2, <2>4, <3>1, Zenon DEF IInv, NoneElected
  <2> QED
      BY <1>1, <2>3, <2>4, Zenon DEF IInv, AskedReached, NoneElected
<1>7. DownFresh' /\ StoodForItself'
    BY <1>1, <1>2 DEF IInv, DownFresh, StoodForItself, Fresh
<1>8. VoteHeld'
    BY <1>1, <1>2, Zenon DEF IInv, Types, VoteHeld, Vote
<1>9. OneGrantee' /\ NoGrantAfterStanding'
    BY <1>1, Zenon DEF IInv, OneGrantee, NoGrantAfterStanding
<1> QED
    BY <1>3, <1>6, <1>7, <1>8, <1>9, Zenon DEF IInv

\* A reply takes the place of a request.  If it grants the vote, its term is below
\* that of the request.
LEMMA RespondKeeps ==
    ASSUME IInv, NEW n \in Nodes, NEW m \in Nodes, <<n, m>> \in Pairs,
           requests[<<n, m>>] # <<>>,
           NEW granted \in BOOLEAN, Respond(n, m, granted),
           granted => Head(requests[<<n, m>>]).term > node[m].currentTerm,
           node' \in [Nodes -> NodeState],
           \A k \in Nodes : node'[k].currentTerm = node[k].currentTerm
    PROVE  /\ requests' \in [Pairs -> Seq(Request)] /\ replies' \in [Pairs -> Seq(Reply)]
           /\ AskedReached' /\ NoneElected'
<1> DEFINE q == <<n, m>>
           r == [term |-> node[m].currentTerm, votegranted |-> granted]
<1>1. /\ requests \in [Pairs -> Seq(Request)] /\ replies \in [Pairs -> Seq(Reply)]
      /\ node \in [Nodes -> NodeState] /\ q \in Pairs /\ q[1] = n
    BY Zenon DEF IInv, Types
<1>2. r \in Reply
    BY <1>1, Zenon DEF Reply, NodeState
<1>3. /\ requests' = [requests EXCEPT ![q] = Tail(requests[q])]
      /\ replies' = [replies EXCEPT ![q] = Append(replies[q], r)]
      /\ elected' = elected
    BY Zenon DEF Respond
<1>4. requests[q] \in Seq(Request) /\ replies[q] \in Seq(Reply)
    BY <1>1, Zenon
<1>5. Tail(requests[q]) \in Seq(Request) /\ Append(replies[q], r) \in Seq(Reply)
    BY <1>2, <1>4, TailElements, AppendElements, Zenon
<1>6. requests' \in [Pairs -> Seq(Request)] /\ replies' \in [Pairs -> Seq(Reply)]
    BY <1>1, <1>3, <1>5, Zenon
<1>7. AskedReached'
  <2> SUFFICES ASSUME NEW p \in Pairs, NEW i \in 1 .. Len(requests'[p])
               PROVE  requests'[p][i].term <= node[p[1]].currentTerm
      BY Zenon DEF AskedReached, Pairs
  <2>1. CASE p = q
    <3>1. requests'[p] = Tail(requests[q])
        BY <1>1, <1>3, <2>1, Zenon
    <3>2. requests'[p][i] = requests[q][i + 1] /\ i + 1 \in 1 .. Len(requests[q])
        BY <1>4, <3>1, TailElements, SMTT(30)
    <3> QED
        BY <1>1, <2>1, <3>2, Zenon DEF IInv, AskedReached
  <2>2. CASE p # q
      BY <1>1, <1>3, <2>2, Zenon DEF IInv, AskedReached
  <2> QED
      BY <2>1, <2>2, Zenon
<1>8. NoneElected'
  <2> SUFFICES ASSUME NEW p \in Pairs, NEW i \in 1 .. Len(replies'[p]),
                      replies'[p][i].votegranted
               PROVE  replies'[p][i].term < node[p[1]].currentTerm
      BY <1>3, Zenon DEF IInv, NoneElected, Pairs
  <2>1. CASE p = q /\ replies'[p][i] = r
    <3>1. Head(requests[q]) = requests[q][1] /\ requests[q][1] \in Request
          /\ 1 \in 1 .. Len(requests[q])
        BY <1>4, TailElements
    <3>2. requests[q][1].term <= node[n].currentTerm
        BY <1>1, <3>1, Zenon DEF IInv, AskedReached
    <3>3. granted
        BY <2>1, SMTT(30)
    <3> QED
      <4>1. /\ node[m].currentTerm \in Nat /\ requests[q][1].term \in Nat
            /\ node[n].currentTerm \in Nat
          BY <1>1, <3>1, Zenon DEF Request, NodeState
      <4>2. requests[q][1].term > node[m].currentTerm
          BY <3>1, <3>3, Zenon
      <4>3. node[m].currentTerm < requests[q][1].term
          BY <4>1, <4>2
      <4>4. node[m].currentTerm < node[n].currentTerm
          BY <3>2, <4>1, <4>3, BelowBoth, Zenon
      <4>5. replies'[p][i].term = node[m].currentTerm /\ p[1] = n
        <5>1. r.term = node[m].currentTerm
            BY Zenon
        <5> HIDE DEF r
        <5> QED
            BY <1>1, <2>1, <5>1, Zenon
      <4> QED
          BY <4>4, <4>5, Zenon
  <2>2. CASE i \in 1 .. Len(replies[p]) /\ replies'[p][i] = replies[p][i]
      BY <2>2, ZenonT(30) DEF IInv, NoneElected
  <2>3. CASE p = q
    <3>1. replies'[p] = Append(replies[q], r)
        BY <1>1, <1>3, <2>3, Zenon
    <3> QED
        BY <1>2, <1>4, <2>1, <2>2, <2>3, <3>1, AppendElements, SMTT(30)
  <2>4. CASE p # q
      BY <1>1, <1>3, <2>2, <2>4, Zenon
  <2> QED
      BY <2>3, <2>4, Zenon
<1> QED
    BY <1>6, <1>7, <1>8, Zenon

\* A refusal changes no node, and answers with the term that was asked for.
LEMMA RefuseVoteIInv ==
    ASSUME IInv, NEW n \in Nodes, NEW m \in Nodes, <<n, m>> \in Pairs, RefuseVote(n, m)
    PROVE  IInv'
<1>1. /\ requests[<<n, m>>] # <<>> /\ Respond(n, m, FALSE)
      /\ UNCHANGED <<up, linked, node, lives, votes>>
    BY Zenon DEF RefuseVote, Respond
<1>2. node \in [Nodes -> NodeState]
    BY Zenon DEF IInv, Types
<1>3. /\ requests' \in [Pairs -> Seq(Request)] /\ replies' \in [Pairs -> Seq(Reply)]
      /\ AskedReached' /\ NoneElected'
    BY <1>1, <1>2, RespondKeeps, Zenon
<1>4. Types'
    BY <1>1, <1>3, Zenon DEF IInv, Types
<1>5. DownFresh' /\ StoodForItself' /\ VoteHeld' /\ OneGrantee' /\ NoGrantAfterStanding'
    BY <1>1 DEF IInv, DownFresh, StoodForItself, VoteHeld, OneGrantee, NoGrantAfterStanding
<1> QED
    BY <1>3, <1>4, <1>5, Zenon DEF IInv

\* A vote is granted by a node that has not stood in its present life, and that has
\* voted for nobody else in it.
LEMMA GrantVoteIInv ==
    ASSUME IInv, NEW n \in Nodes, NEW m \in Nodes, <<n, m>> \in Pairs, GrantVote(n, m)
    PROVE  IInv'
<1> DEFINE v == [voter |-> m, life |-> lives[m], to |-> n, late |-> node[m].currentTerm > 0]
<1>1. /\ m \in up /\ requests[<<n, m>>] # <<>> /\ Respond(n, m, TRUE)
      /\ Head(requests[<<n, m>>]).term > node[m].currentTerm
      /\ node[m].votedFor \in {None, n}
      /\ node' = [node EXCEPT ![m].votedFor = n] /\ votes' = votes \cup {v}
      /\ UNCHANGED <<up, linked, lives>>
    BY DEF GrantVote, Eligible, Respond
<1>2. node \in [Nodes -> NodeState] /\ n # m /\ None \notin Nodes
    BY RaftAssumption DEF IInv, Types, Pairs
<1>3. node' \in [Nodes -> NodeState] /\ node'[m].votedFor = n
    BY <1>1, <1>2, ZenonT(30) DEF NodeState
<1>4. \A k \in Nodes : /\ node'[k].currentTerm = node[k].currentTerm
                       /\ k # m => node'[k] = node[k]
    BY <1>1, <1>2 DEF NodeState
<1>5. /\ requests' \in [Pairs -> Seq(Request)] /\ replies' \in [Pairs -> Seq(Reply)]
      /\ AskedReached' /\ NoneElected'
    BY <1>1, <1>3, <1>4, RespondKeeps, Zenon
<1>6. v \in Vote
    BY DEF IInv, Types, Vote
<1>7. Types'
    BY <1>1, <1>3, <1>5, <1>6, Zenon DEF IInv, Types
<1>8. node[m].currentTerm = 0
    BY <1>1, <1>2, SMTT(30) DEF IInv, StoodForItself, NodeState
<1>9. StoodForItself' /\ DownFresh'
    BY <1>1, <1>2, <1>4, <1>8, SMTT(30) DEF IInv, StoodForItself, DownFresh
<1>10. \A w \in votes : w.voter = m /\ w.life = lives[m] => w.to = n
    BY <1>1, <1>2, ZenonT(30) DEF IInv, Types, VoteHeld, Vote
<1>11. VoteHeld'
  <2> SUFFICES ASSUME NEW w \in votes'
               PROVE  /\ w.life <= lives[w.voter] /\ w.to # w.voter
                      /\ w.voter \in up /\ w.life = lives[w.voter] =>
                            node'[w.voter].votedFor \in {w.to, w.voter}
      BY <1>1 DEF VoteHeld
  <2>1. CASE w = v
      BY <1>2, <1>3, <2>1 DEF IInv, Types
  <2>2. CASE w \in votes
      BY <1>3, <1>4, <1>10, <2>2, ZenonT(30) DEF IInv, Types, VoteHeld, Vote
  <2> QED
      BY <1>1, <2>1, <2>2, SMTT(30)
<1>12. OneGrantee'
    BY <1>1, <1>10 DEF IInv, OneGrantee
<1>13. NoGrantAfterStanding'
  <2>1. ~(node[m].currentTerm > 0)
      BY <1>8
  <2>2. ~v.late
      BY <2>1, Zenon
  <2> HIDE DEF v
  <2> QED
      BY <1>1, <2>2 DEF IInv, NoGrantAfterStanding
<1> QED
    BY <1>5, <1>7, <1>9, <1>11, <1>12, <1>13, SMTT(30) DEF IInv

\* Every reply that arrives is discarded.
LEMMA OnRequestVoteIInv ==
    ASSUME IInv, NEW n \in Nodes, NEW m \in Nodes, <<n, m>> \in Pairs, OnRequestVote(n, m)
    PROVE  IInv'
<1> DEFINE q == <<n, m>>
<1>1. /\ node \in [Nodes -> NodeState] /\ replies \in [Pairs -> Seq(Reply)] /\ q \in Pairs
      /\ replies[q] # <<>> /\ replies[q] \in Seq(Reply) /\ q[1] = n
    BY SMTT(30) DEF IInv, Types, OnRequestVote
<1>2. /\ Head(replies[q]) = replies[q][1] /\ replies[q][1] \in Reply
      /\ 1 \in 1 .. Len(replies[q])
    BY <1>1, TailElements, SMTT(30)
<1>3. ~Counts(n, Head(replies[q]))
    BY <1>1, <1>2, Zenon DEF IInv, NoneElected, Counts, Reply, NodeState
<1>4. node[n].voted \in Nat /\ ~(node[n].voted > node[n].voted)
      /\ node[n].voted + 0 = node[n].voted
    BY <1>1 DEF NodeState
<1>5. /\ node' = node /\ elected' = elected
      /\ replies' = [replies EXCEPT ![q] = Tail(replies[q])]
      /\ UNCHANGED <<up, linked, requests, lives, votes>>
    BY <1>1, <1>3, <1>4, Zenon DEF OnRequestVote, NodeState
<1>6. Tail(replies[q]) \in Seq(Reply)
    BY <1>1, TailElements, Zenon
<1>7. Types'
    BY <1>1, <1>5, <1>6, Zenon DEF IInv, Types
<1>8. NoneElected'
  <2> SUFFICES ASSUME NEW p \in Pairs, NEW i \in 1 .. Len(replies'[p]),
                      replies'[p][i].votegranted
               PROVE  replies'[p][i].term < node[p[1]].currentTerm
      BY <1>5, Zenon DEF IInv, NoneElected
  <2>1. CASE p = q
    <3>1. replies'[p] = Tail(replies[q])
        BY <1>1, <1>5, <2>1, Zenon
    <3>2. replies'[p][i] = replies[q][i + 1] /\ i + 1 \in 1 .. Len(replies[q])
        BY <1>1, <3>1, TailElements, SMTT(30)
    <3> QED
        BY <1>1, <2>1, <3>2, Zenon DEF IInv, NoneElected
  <2>2. CASE p # q
      BY <1>1, <1>5, <2>2, ZenonT(30) DEF IInv, NoneElected
  <2> QED
      BY <2>1, <2>2, Zenon
<1>9. /\ AskedReached' /\ DownFresh' /\ StoodForItself' /\ VoteHeld' /\ OneGrantee'
      /\ NoGrantAfterStanding'
    BY <1>5 DEF IInv, AskedReached, DownFresh, StoodForItself, VoteHeld, OneGrantee,
                NoGrantAfterStanding
<1> QED
    BY <1>7, <1>8, <1>9, SMTT(30) DEF IInv

-----------------------------------------------------------------------------
\* The inductive invariant holds in every reachable state.
THEOREM ElectionInvariance == Spec => []IInv
<1>1. IInv /\ [Next]_vars => IInv'
  <2> SUFFICES ASSUME IInv, [Next]_vars PROVE IInv'
      OBVIOUS
  <2>1. ASSUME NEW n \in Nodes, Boot(n) PROVE IInv'
      BY <2>1, BootIInv, Zenon
  <2>2. ASSUME NEW n \in Nodes, Start(n) PROVE IInv'
      BY <2>2, StartIInv, Zenon
  <2>3. ASSUME NEW n \in Nodes, Propose(n) PROVE IInv'
      BY <2>3, ProposeIInv
  <2>4. ASSUME NEW n \in Nodes, Crash(n) PROVE IInv'
      BY <2>4, DiesIInv, Zenon DEF Crash
  <2>5. ASSUME NEW p \in Pairs, Disconnect(p) PROVE IInv'
      BY <2>5, DisconnectIInv, Zenon
  <2>6. ASSUME NEW p \in Pairs,
               \/ RefuseVote(p[1], p[2]) \/ GrantVote(p[1], p[2])
               \/ DieInNewestLog(p[1], p[2]) \/ OnRequestVote(p[1], p[2])
        PROVE  IInv'
    <3>1. p[1] \in Nodes /\ p[2] \in Nodes /\ <<p[1], p[2]>> \in Pairs
        BY ZenonT(30) DEF Pairs
    <3> QED
        BY <2>6, <3>1, RefuseVoteIInv, GrantVoteIInv, DiesIInv, OnRequestVoteIInv, Zenon
        DEF DieInNewestLog
  <2>7. ASSUME UNCHANGED vars PROVE IInv'
      BY <2>7 DEF IInv, vars, history, Types, AskedReached, DownFresh, StoodForItself,
                  VoteHeld, NoneElected, OneGrantee, NoGrantAfterStanding
  <2> QED
      BY <2>1, <2>2, <2>3, <2>4, <2>5, <2>6, <2>7, Zenon DEF Next
<1> QED
    BY <1>1, InitIInv, PTL DEF Spec

\* With any number of nodes, crashes and broken connections, every vote is discarded by
\* OnRequestVote and no node is elected.
THEOREM NeverElected == Spec => []NoneElected
<1>1. IInv => NoneElected
    BY Zenon DEF IInv
<1> QED
    BY <1>1, ElectionInvariance, PTL

\* Until it is started again, a node grants its vote to one other node.
THEOREM VotesForOne == Spec => []OneGrantee
<1>1. IInv => OneGrantee
    BY Zenon DEF IInv
<1> QED
    BY <1>1, ElectionInvariance, PTL

\* A node that has stood in an election grants no vote until it is started again.
THEOREM CandidatesGrantNothing == Spec => []NoGrantAfterStanding
<1>1. IInv => NoGrantAfterStanding
    BY DEF IInv
<1> QED
    BY <1>1, ElectionInvariance, PTL
=============================================================================
