------------------------------ MODULE RpcChannel ------------------------------
(***************************************************************************)
(* jrpc::RpcChannel (rpc/protorpc/rpc_channel.cc) at the two ends of a     *)
(* connection, over ProtobufCodec: threads of the client call methods, the *)
(* server answers when its service is done, in any order.  Each thread     *)
(* makes one call, and a call is named by its thread.                      *)
(***************************************************************************)
EXTENDS ProtobufCodec, FiniteSets

CONSTANTS Calls,      \* the calls, each on a thread of its own
          Registered, \* those of a service the server has in its services_
          None,
          CutPoints   \* bound: where in a packet a read may end, 0 for its end

ASSUME RpcAssumption ==
    /\ Streams = {"request", "response"} /\ IsFiniteSet(Calls) /\ None \notin Calls
    /\ Registered \subseteq Calls
    /\ CutPoints \subseteq 0 .. PacketLen - 1

VARIABLES
    at,            \* per call, CallMethod: "idle", "numbered", "registered", "sent"
    id,            \* RpcChannel::id_, which starts anywhere: only differences matter
    reg,           \* per call, the value of id_ that message.set_id was given
    outstandings,  \* outstandings_, by id
    working,       \* requests the server's service has not answered
    ran,           \* per call, the calls whose responses its done was run with
    overlapped,    \* two threads were in CallMethod between id_++ and the map
    dropped        \* a request was dropped by the server

callVars == <<at, id, reg, outstandings, overlapped>>
vars == <<codecVars, callVars, working, ran, dropped>>

Ids == -1 .. Cardinality(Calls)

Init ==
    /\ CodecInit
    /\ at = [c \in Calls |-> "idle"] /\ id = 0 /\ reg = [c \in Calls |-> 0]
    /\ outstandings = [i \in Ids |-> None] /\ working = {}
    /\ ran = [c \in Calls |-> <<>>] /\ overlapped = FALSE /\ dropped = FALSE

-----------------------------------------------------------------------------
(* CallMethod.                                                              *)

Step(c, from, to) == at[c] = from /\ at' = [at EXCEPT ![c] = to]

\* Mutant: the counter runs ahead.
NextIdTwice(c) == reg' = [reg EXCEPT ![c] = id] /\ id' = id + 2

\* message.set_id(id_++), of an atomic counter.
NextId(c) == reg' = [reg EXCEPT ![c] = id] /\ id' = id + 1

Number(c) ==
    /\ Step(c, "idle", "numbered") /\ NextId(c)
    /\ overlapped' = (overlapped \/ \E o \in Calls : at[o] = "numbered")
    /\ UNCHANGED <<codecVars, outstandings, working, ran, dropped>>

\* Mutant: the call is entered under the next call's id.
RegisterNext(c) == outstandings' = [outstandings EXCEPT ![id] = c]

\* outstandings_[id_ - 1] = out reads id_ again; the lock protects only the map.
Register(c) == outstandings' = [outstandings EXCEPT ![id - 1] = c]

RegisterCall(c) ==
    /\ Step(c, "numbered", "registered") /\ Register(c)
    /\ UNCHANGED <<codecVars, id, reg, overlapped, working, ran, dropped>>

SendRequest(c) ==
    /\ Step(c, "registered", "sent")
    /\ Send("request", [id |-> reg[c], call |-> c])
    /\ UNCHANGED <<arrived, consumed, delivered, full, cut, burst, aborted, id, reg,
                   outstandings, overlapped, working, ran, dropped>>

-----------------------------------------------------------------------------
(* OnRpcMessage.                                                            *)

\* A REQUEST at the server: the assertion that the service is registered fails; or the
\* service is called; or the method is not known or the request does not parse, and
\* nothing is answered.  RpcServer::OnConnection has given the channel its services_.
OnRequest(p) ==
    /\ aborted' = (aborted \/ p.call \notin Registered)
    /\ \/ p.call \in Registered /\ working' = working \cup {p} /\ UNCHANGED dropped
       \/ p.call \in Registered /\ dropped' = TRUE /\ UNCHANGED working
       \/ p.call \notin Registered /\ UNCHANGED <<working, dropped>>
    /\ UNCHANGED <<sent, outstandings, ran>>

\* Mutant: the entry stays in the map.
TakeAndKeep(i) == UNCHANGED outstandings

\* The entry found is erased.
TakeCall(i) == outstandings' = [outstandings EXCEPT ![i] = None]

\* A RESPONSE at the client: the call registered under the id is taken out of the map
\* and its done is run; the assertion fails if there is none.
OnResponse(p) ==
    LET out == outstandings[p.id]
    IN  /\ aborted' = (aborted \/ out = None)
        /\ TakeCall(p.id)
        /\ ran' = [c \in Calls |-> IF c = out THEN Append(ran[c], p.call) ELSE ran[c]]
        /\ UNCHANGED <<sent, working, dropped>>

QuietRpc == UNCHANGED <<outstandings, working, ran, dropped>>

\* A read of n bytes at either end.
Read(d, n) ==
    /\ (arrived[d] + n) % PacketLen \in CutPoints
    /\ LET p == HeadPacket(d)
       IN  OnMessage(d, n, IF d = "request" THEN OnRequest(p) ELSE OnResponse(p), QuietRpc)
    /\ UNCHANGED <<at, id, reg, overlapped>>

\* The service calls done->Run(): DoneCallback.
DoneCallback(p) ==
    /\ p \in working
    /\ working' = working \ {p}
    /\ Send("response", p)
    /\ UNCHANGED <<arrived, consumed, delivered, full, cut, burst, aborted, callVars, ran,
                   dropped>>

-----------------------------------------------------------------------------
CallMethod(c) == Number(c) \/ RegisterCall(c) \/ SendRequest(c)

Receive(d) == \E n \in 1 .. PacketLen * Cardinality(Calls) : Read(d, n)

Answer == \E p \in working : DoneCallback(p)

\* After a packet was delivered too early, or an assertion has failed, anything may be.
Sane == full /\ ~aborted

Next ==
    /\ Sane
    /\ \/ \E c \in Calls : CallMethod(c)
       \/ \E d \in Streams : Receive(d)
       \/ Answer

Spec ==
    /\ Init /\ [][Next]_vars
    /\ \A c \in Calls : WF_vars(Sane /\ CallMethod(c))
    /\ \A d \in Streams : WF_vars(Sane /\ Receive(d))
    /\ WF_vars(Sane /\ Answer)

-----------------------------------------------------------------------------
\* The state's types.  id_ has counted the calls, and no done is run for an unknown one.
TypeOK ==
    /\ at \in [Calls -> {"idle", "numbered", "registered", "sent"}]
    /\ id \in 0 .. Cardinality(Calls) /\ reg \in [Calls -> 0 .. Cardinality(Calls)]
    /\ outstandings \in [Ids -> Calls \cup {None}]
    /\ ran \in [Calls -> Seq(Calls)]

\* If no two threads are in CallMethod at once, every done is run with the response to
\* its own call and at most once, in whatever order the server answers, and a call that
\* was sent and not answered is in the map under the id it was sent with.
OwnResponse ==
    ~overlapped => \A c \in Calls :
        /\ ran[c] \in {<<>>, <<c>>}
        /\ at[c] \in {"registered", "sent"} =>
              (outstandings[reg[c]] = c <=> ran[c] = <<>>)

\* The server was given a request for a service it has not registered.
Unserved ==
    \E i \in 1 .. Len(delivered["request"]) : delivered["request"][i].call \notin Registered

\* No assertion fails at either end, and no packet is delivered early, unless threads
\* overlapped in CallMethod, a read ended in a header or close to the end of a packet, or
\* the client asked for a service the server has not registered.
SaneUnlessCut == Sane \/ cut \/ overlapped \/ Unserved

\* A call that was sent is answered, unless that happened, or two packets came in one
\* read and the second is left until something else arrives, or the server dropped the
\* request.
CallsAnswered ==
    \A c \in Calls :
        at[c] = "sent" ~> (ran[c] # <<>> \/ cut \/ overlapped \/ Unserved \/ burst \/ dropped)
=============================================================================
