---------------------------- MODULE ProtobufCodec ----------------------------
(***************************************************************************)
(* jrpc::ProtobufCodec (rpc/protobuf/protobuf_codec.cc) at the receiving   *)
(* end of a stream: a packet is a header of kHeaderLen bytes, with the     *)
(* length of the payload, and the payload.  The bytes arrive in pieces;    *)
(* for each piece TcpConn::HandleRead appends it to input_ and calls       *)
(* OnMessage once.  A stream is the packets sent and two offsets; all      *)
(* payloads have one length.                                               *)
(***************************************************************************)
EXTENDS Integers, Sequences

CONSTANTS Streams,      \* the directions of a connection
          HeaderLen,    \* kHeaderLen
          PayloadLen    \* bound: the length of every payload

\* The memory of a new Buffer after its first Append (exp_).
NewMemory == 4096

\* SerializeToBuffer makes no room for the payload: messages are taken to be so short that
\* it has room behind the header.
ASSUME CodecAssumption ==
    /\ HeaderLen \in Nat \ {0} /\ PayloadLen \in Nat \ {0}
    /\ HeaderLen + PayloadLen <= NewMemory

VARIABLES
    sent,       \* per stream, the packets sent
    arrived,    \* per stream, the bytes read into input_ so far
    consumed,   \* per stream, the bytes taken out of input_ so far
    delivered,  \* per stream, the packets messageCallback_ was called with
    full,       \* every packet delivered had arrived in full
    cut,        \* a read ended in a header, or in a payload's last HeaderLen bytes
    burst,      \* a read left a whole packet behind
    aborted     \* an assertion has failed

codecVars == <<sent, arrived, consumed, delivered, full, cut, burst, aborted>>

PacketLen == HeaderLen + PayloadLen

CodecInit ==
    /\ sent = [d \in Streams |-> <<>>] /\ delivered = [d \in Streams |-> <<>>]
    /\ arrived = [d \in Streams |-> 0] /\ consumed = [d \in Streams |-> 0]
    /\ full = TRUE /\ cut = FALSE /\ burst = FALSE /\ aborted = FALSE

\* Send, with FillEmptyBuffer: the packet goes out as a whole (TcpConn's promise).
Send(d, packet) == sent' = [sent EXCEPT ![d] = Append(@, packet)]

\* The packet at the head of input_.
HeadPacket(d) == sent[d][(consumed[d] \div PacketLen) + 1]

\* Mutant: only more than the payload is enough.
LongEnoughBut(size) == size > PacketLen

\* OnMessage's test of the size of input_: the header is not counted.
LongEnough(size) == size >= PayloadLen

\* Mutant: the header stays in input_.
ConsumePayload(d) == consumed' = [consumed EXCEPT ![d] = @ + PayloadLen]

\* buf.Consume(len + kHeaderLen)
Consume(d) == consumed' = [consumed EXCEPT ![d] = @ + PacketLen]

\* HandleRead has read n bytes and calls OnMessage, which calls messageCallback_ once
\* (callback) or not at all (quiet).  PeekInt32 asserts that there is a header.  When
\* the payload has not arrived in full, the missing bytes are whatever is in the
\* buffer, and Consume moves its beginning past its end.
OnMessage(d, n, callback, quiet) ==
    LET size == arrived[d] + n - consumed[d]
        past == (arrived[d] + n) % PacketLen
        calls == size >= HeaderLen /\ LongEnough(size)
    IN  /\ arrived[d] + n <= PacketLen * Len(sent[d])
        /\ arrived' = [arrived EXCEPT ![d] = @ + n]
        /\ cut' = (cut \/ past \in 1 .. HeaderLen - 1 \cup PayloadLen .. PacketLen - 1)
        /\ burst' = (burst \/ size >= 2 * PacketLen)
        /\ full' = (full /\ (calls => size >= PacketLen))
        /\ IF calls
           THEN /\ Consume(d)
                /\ delivered' = [delivered EXCEPT ![d] = Append(@, HeadPacket(d))]
                /\ callback
           ELSE /\ aborted' = (aborted \/ size < HeaderLen)
                /\ quiet /\ UNCHANGED <<consumed, delivered, sent>>

-----------------------------------------------------------------------------
\* As long as no packet was delivered too early, the packets delivered are those
\* sent, in order and each once, and what is left in input_ begins with a header: the
\* pieces the bytes arrive in make no difference.
PacketsInOrder ==
    full => \A d \in Streams :
                /\ Len(delivered[d]) <= Len(sent[d])
                /\ delivered[d] = SubSeq(sent[d], 1, Len(delivered[d]))
                /\ consumed[d] = PacketLen * Len(delivered[d])
                /\ consumed[d] <= arrived[d]

\* messageCallback_ is called for packets that have arrived in full (the comments
\* "receive a full packet" of protobuf_codec.cc:24 and "call ProtobufMessageCallback
\* after Codec get the full packet" of protobuf_codec.h:32).
FullPacket == full
=============================================================================
