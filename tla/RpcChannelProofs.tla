-------------------------- MODULE RpcChannelProofs --------------------------
(***************************************************************************)
(* The safety properties of RpcChannel over ProtobufCodec, proved for any  *)
(* number of calls, of services registered or not, any lengths of header   *)
(* and payload that fit a new Buffer, and reads that end anywhere.         *)
(***************************************************************************)
EXTENDS RpcChannel, FiniteSetTheorems, TLAPS

Packet == [id : Nat, call : Calls]

\* Packets sent and delivered in a stream.
Sent(d) == 1 .. Len(sent[d])
Delivered(d) == 1 .. Len(delivered[d])

\* A stream: its packets are taken out of input_ in order and whole, though one may be
\* taken out before it has arrived.
Stream ==
    /\ sent \in [Streams -> Seq(Packet)] /\ delivered \in [Streams -> Seq(Packet)]
    /\ arrived \in [Streams -> Nat] /\ consumed \in [Streams -> Nat]
    /\ full \in BOOLEAN /\ cut \in BOOLEAN /\ burst \in BOOLEAN /\ aborted \in BOOLEAN
    /\ \A d \in Streams :
          /\ Len(delivered[d]) <= Len(sent[d])
          /\ \A i \in Delivered(d) : delivered[d][i] = sent[d][i]
          /\ consumed[d] = PacketLen * Len(delivered[d])
          /\ full => consumed[d] <= arrived[d]

\* The calls have numbers of their own.
Numbers ==
    /\ TypeOK /\ overlapped \in BOOLEAN
    /\ id = Cardinality({c \in Calls : at[c] # "idle"})
    /\ \A c \in Calls : at[c] # "idle" => reg[c] < id
    /\ \A c, o \in Calls :
          at[c] # "idle" /\ at[o] # "idle" /\ reg[c] = reg[o] => c = o

\* A call is requested once, under its number, and answered once, after its request was
\* delivered.
Requested ==
    /\ working \subseteq Packet
    /\ \A i \in Sent("request") :
          LET p == sent["request"][i] IN at[p.call] = "sent" /\ p.id = reg[p.call]
    /\ \A i, j \in Sent("request") :
          sent["request"][i].call = sent["request"][j].call => i = j
    /\ \A p \in working :
          /\ \E i \in Delivered("request") : sent["request"][i] = p
          /\ \A j \in Sent("response") : sent["response"][j].call # p.call

Answered ==
    /\ \A j \in Sent("response") :
          \E i \in Delivered("request") : sent["request"][i] = sent["response"][j]
    /\ \A i, j \in Sent("response") :
          sent["response"][i].call = sent["response"][j].call => i = j

\* Without overlapping calls: the map holds exactly the calls that are not answered.
Mapped ==
    ~overlapped =>
        /\ \A c, o \in Calls : at[c] = "numbered" /\ at[o] = "numbered" => c = o
        /\ \A c \in Calls : at[c] = "numbered" => reg[c] = id - 1
        /\ \A i \in Ids : outstandings[i] # None =>
              LET c == outstandings[i]
              IN  at[c] \in {"registered", "sent"} /\ reg[c] = i /\ ran[c] = <<>>
        /\ \A c \in Calls :
              at[c] \in {"registered", "sent"} /\ ran[c] = <<>> => outstandings[reg[c]] = c
        /\ \A c \in Calls :
              /\ ran[c] \in {<<>>, <<c>>}
              /\ ran[c] # <<>> => \E j \in Delivered("response") : sent["response"][j].call = c

IInv == Stream /\ Numbers /\ Requested /\ Answered /\ Mapped /\ SaneUnlessCut

-----------------------------------------------------------------------------
(* What a part of the invariant is about does not change.                   *)

\* The numbers of the calls.
LEMMA NumbersKept ==
    ASSUME Numbers, TypeOK', UNCHANGED <<at, id, reg, overlapped>>
    PROVE  Numbers'
BY DEF Numbers

\* The packets sent and the requests delivered.
LEMMA RequestedKept ==
    ASSUME Requested, Answered, UNCHANGED <<sent, at, reg, working>>,
           Delivered("request")' = Delivered("request")
    PROVE  Requested' /\ Answered'
<1>1. Sent("request")' = Sent("request") /\ Sent("response")' = Sent("response")
    BY Zenon DEF Sent
<1>2. Requested'
    BY <1>1 DEF Requested
<1>3. Answered'
    BY <1>1, Zenon DEF Answered
<1> QED
    BY <1>2, <1>3

\* The map and what is registered in it.
LEMMA MappedKept ==
    ASSUME Mapped, UNCHANGED <<sent, at, id, reg, outstandings, overlapped, ran>>,
           Delivered("response")' = Delivered("response")
    PROVE  Mapped'
BY DEF Mapped, Ids

-----------------------------------------------------------------------------
(* Streams.                                                                 *)

\* A packet has a header and a payload.
LEMMA Lengths ==
    /\ HeaderLen \in Nat \ {0} /\ PayloadLen \in Nat \ {0} /\ PacketLen \in Nat \ {0}
    /\ PacketLen = HeaderLen + PayloadLen
BY CodecAssumption DEF PacketLen

\* Offsets and packets.
LEMMA Offsets ==
    ASSUME NEW l \in Nat \ {0}, NEW q \in Nat
    PROVE  /\ l * q \in Nat /\ l * (q + 1) = l * q + l /\ (l * q) \div l = q
           /\ \A r \in 0 .. l - 1 : (l * q + r) % l = r
           /\ \A m \in Nat : l * q < l * m => q < m
OBVIOUS

\* A packet is added to a list.
LEMMA Appended ==
    ASSUME NEW s \in Seq(Packet), NEW p \in Packet
    PROVE  /\ Append(s, p) \in Seq(Packet) /\ Len(s) \in Nat /\ Len(Append(s, p)) = Len(s) + 1
           /\ \A i \in 1 .. Len(s) : Append(s, p)[i] = s[i] /\ s[i] \in Packet
           /\ Append(s, p)[Len(s) + 1] = p
OBVIOUS

\* A packet is sent.
LEMMA SendStream ==
    ASSUME Stream, NEW d \in Streams, NEW p \in Packet, Send(d, p),
           UNCHANGED <<arrived, consumed, delivered, full, cut, burst, aborted>>
    PROVE  /\ Stream'
           /\ Len(sent[d]) \in Nat /\ Len(sent'[d]) = Len(sent[d]) + 1
           /\ \A i \in 1 .. Len(sent[d]) : sent'[d][i] = sent[d][i]
           /\ sent'[d][Len(sent[d]) + 1] = p
           /\ \A e \in Streams : e # d => sent'[e] = sent[e]
<1>1. /\ sent'[d] = Append(sent[d], p) /\ sent[d] \in Seq(Packet)
      /\ \A e \in Streams : e # d => sent'[e] = sent[e]
    BY DEF Send, Stream
<1>2. /\ sent'[d] \in Seq(Packet) /\ Len(sent[d]) \in Nat /\ Len(sent'[d]) = Len(sent[d]) + 1
      /\ \A i \in 1 .. Len(sent[d]) : sent'[d][i] = sent[d][i]
      /\ sent'[d][Len(sent[d]) + 1] = p
    BY <1>1, Appended
<1>3. sent' \in [Streams -> Seq(Packet)]
    BY <1>1, <1>2, Zenon DEF Send, Stream
<1>4. ASSUME NEW e \in Streams
      PROVE  /\ Len(delivered[e]) <= Len(sent'[e])
             /\ \A i \in Delivered(e) : delivered[e][i] = sent'[e][i]
  <2>1. /\ delivered[e] \in Seq(Packet) /\ Len(delivered[e]) \in Nat
        /\ Len(delivered[e]) <= Len(sent[e])
        /\ \A i \in Delivered(e) : delivered[e][i] = sent[e][i]
      BY SMTT(30) DEF Stream
  <2>2. CASE e = d
    <3>1. Len(delivered[e]) <= Len(sent[d])
        BY <2>1, <2>2, SMTT(30)
    <3>2. Delivered(e) \subseteq 1 .. Len(sent[d])
        BY <1>2, <2>1, <3>1, SMTT(30) DEF Delivered
    <3>3. Len(delivered[e]) <= Len(sent'[d])
        BY <1>2, <2>1, <3>1
    <3>4. \A i \in Delivered(e) : delivered[e][i] = sent'[d][i]
        BY <1>2, <2>1, <2>2, <3>2, Zenon
    <3> QED
        BY <2>2, <3>3, <3>4
  <2>3. CASE e # d
      BY <1>1, <2>1, <2>3, Zenon
  <2> QED
      BY <2>2, <2>3, Zenon
<1>5. Stream'
    BY <1>3, <1>4, ZenonT(30) DEF Stream, Delivered
<1> QED
    BY <1>1, <1>2, <1>5, Zenon

\* A read of n bytes, after a bytes of which those of q packets were taken, out of those
\* of m packets: one more packet was sent, and what is left tells where the read ended.
LEMMA ReadOffsets ==
    ASSUME NEW l \in Nat \ {0}, NEW q \in Nat, NEW m \in Nat, NEW a \in Nat,
           NEW n \in Nat \ {0}, l * q <= a, a + n <= l * m
    PROVE  /\ q < m /\ l * q \in Nat /\ a + n - l * q \in Nat \ {0}
           /\ a + n - l * q < l => (a + n) % l = a + n - l * q
           /\ l * (q + 1) = l * q + l
           /\ a + n - l * q >= l => l * q + l <= a + n
<1>1. PICK x \in Nat : x = l * q
    BY Offsets
<1>2. PICK z \in Nat : z = l * m
    BY Offsets
<1>3. x < z
    BY <1>1, <1>2
<1>4. q < m
    BY <1>1, <1>2, <1>3, Offsets, Zenon
<1>5. a + n - x \in Nat \ {0}
    BY <1>1
<1>6. \A r \in 0 .. l - 1 : (x + r) % l = r
    BY <1>1, Offsets, Zenon
<1>7. a + n - x < l => (a + n) % l = a + n - x
  <2>1. SUFFICES ASSUME a + n - x < l PROVE (a + n) % l = a + n - x
      OBVIOUS
  <2>2. a + n - x \in 0 .. l - 1 /\ x + (a + n - x) = a + n
      BY <1>5, <2>1
  <2> QED
      BY <1>6, <2>2
<1>8. l * (q + 1) = x + l
    BY <1>1, Offsets
<1>9. a + n - x >= l => x + l <= a + n
    OBVIOUS
<1> QED
    BY <1>1, <1>4, <1>5, <1>7, <1>8, <1>9, Zenon

\* The packet that a stream delivers next.
Following(d) == sent[d][Len(delivered[d]) + 1]

\* OnMessage delivers the next packet or none; it delivers one early, or finds no header,
\* only after a read that ended in the wrong place.
LEMMA ReadFacts ==
    ASSUME Stream, Sane, NEW d \in Streams, NEW n \in Nat \ {0}, Read(d, n)
    PROVE  /\ Stream' /\ UNCHANGED <<at, id, reg, overlapped, sent>> /\ (full' \/ cut')
           /\ \/ /\ UNCHANGED <<delivered, outstandings, working, ran, dropped>>
                 /\ ~aborted' \/ cut'
              \/ /\ Len(delivered[d]) \in Nat /\ Len(delivered[d]) < Len(sent[d])
                 /\ Following(d) \in Packet
                 /\ delivered' = [delivered EXCEPT ![d] = Append(@, Following(d))]
                 /\ IF d = "request" THEN OnRequest(Following(d)) ELSE OnResponse(Following(d))
<1> DEFINE q == Len(delivered[d])
           size == arrived[d] + n - consumed[d]
           past == (arrived[d] + n) % PacketLen
           calls == size >= HeaderLen /\ LongEnough(size)
           wrong == past \in 1 .. HeaderLen - 1 \cup PayloadLen .. PacketLen - 1
<1> USE Lengths
<1>1. /\ sent[d] \in Seq(Packet) /\ delivered[d] \in Seq(Packet)
      /\ q \in Nat /\ Len(sent[d]) \in Nat /\ arrived[d] \in Nat
      /\ consumed[d] = PacketLen * q /\ consumed[d] <= arrived[d]
      /\ full = TRUE /\ aborted = FALSE /\ cut \in BOOLEAN /\ burst \in BOOLEAN
    BY DEF Stream, Sane
<1>2. (PacketLen * q) \div PacketLen = q
    BY <1>1, Offsets, Zenon
<1>3. /\ arrived[d] + n <= PacketLen * Len(sent[d])
      /\ arrived' = [arrived EXCEPT ![d] = @ + n]
      /\ cut' = (cut \/ wrong) /\ burst' = (burst \/ size >= 2 * PacketLen)
      /\ full' = (full /\ (calls => size >= PacketLen))
      /\ UNCHANGED <<at, id, reg, overlapped>>
    BY Zenon DEF Read, OnMessage
<1>4. /\ calls => /\ consumed' = [consumed EXCEPT ![d] = @ + PacketLen]
                  /\ delivered' = [delivered EXCEPT ![d] = Append(@, HeadPacket(d))]
                  /\ IF d = "request" THEN OnRequest(HeadPacket(d)) ELSE OnResponse(HeadPacket(d))
      /\ ~calls => /\ aborted' = (aborted \/ size < HeaderLen)
                   /\ UNCHANGED <<outstandings, working, ran, dropped, consumed, delivered, sent>>
    BY Zenon DEF Read, OnMessage, Consume, QuietRpc
<1>5. HeadPacket(d) = Following(d)
    BY <1>1, <1>2, Zenon DEF HeadPacket, Following
<1>6. /\ q < Len(sent[d]) /\ consumed[d] \in Nat /\ size \in Nat \ {0}
      /\ size < PacketLen => past = size
      /\ PacketLen * (q + 1) = consumed[d] + PacketLen
      /\ size >= PacketLen => consumed[d] + PacketLen <= arrived[d] + n
  <2>1. PacketLen * q <= arrived[d] /\ arrived[d] + n <= PacketLen * Len(sent[d])
      BY <1>1, <1>3, Zenon
  <2>2. LET c == PacketLen * q
        IN  /\ q < Len(sent[d]) /\ c \in Nat /\ arrived[d] + n - c \in Nat \ {0}
            /\ arrived[d] + n - c < PacketLen => past = arrived[d] + n - c
            /\ PacketLen * (q + 1) = c + PacketLen
            /\ arrived[d] + n - c >= PacketLen => c + PacketLen <= arrived[d] + n
    <3>1. PacketLen \in Nat \ {0} /\ q \in Nat /\ Len(sent[d]) \in Nat /\ arrived[d] \in Nat
        BY <1>1, Zenon
    <3> HIDE Lengths DEF q
    <3> QED
        BY ONLY <2>1, <3>1, n \in Nat \ {0}, ReadOffsets, ZenonT(30)
  <2> QED
      BY <1>1, <2>2, Zenon
<1>9. Following(d) \in Packet
  <2>1. q + 1 \in 1 .. Len(sent[d])
      BY <1>1, <1>6, SMTT(30)
  <2> QED
      BY <1>1, <2>1, SMTT(30) DEF Following
<1>11. calls /\ ~(size >= PacketLen) => wrong
  <2>1. ASSUME calls, ~(size >= PacketLen) PROVE past \in PayloadLen .. PacketLen - 1
    <3>1. past = size /\ size \in Nat /\ LongEnough(size)
        BY <1>6, <2>1
    <3> HIDE DEF size, past, calls, wrong
    <3> QED
        BY <2>1, <3>1, SMTT(30) DEF LongEnough
  <2> QED
      BY <2>1, Zenon
<1>12. ~calls /\ size < HeaderLen => wrong
  <2>1. ASSUME size < HeaderLen PROVE past \in 1 .. HeaderLen - 1
    <3>1. past = size /\ size \in Nat \ {0}
        BY <1>6, <2>1
    <3> HIDE DEF size, past, calls, wrong
    <3> QED
        BY <2>1, <3>1, SMTT(30)
  <2> QED
      BY <2>1, Zenon
<1> HIDE Lengths DEF size, past, calls, wrong
<1>13. full' \/ cut'
    BY <1>1, <1>3, <1>11, Zenon
<1>14. ~calls => ~aborted' \/ cut'
    BY <1>1, <1>3, <1>4, <1>12, ZenonT(30)
<1>15. sent' = sent /\ aborted' \in BOOLEAN
    BY <1>1, <1>4, Zenon DEF OnRequest, OnResponse
<1>16. /\ arrived' \in [Streams -> Nat] /\ arrived'[d] = arrived[d] + n
       /\ \A e \in Streams : e # d => arrived'[e] = arrived[e]
  <2>1. arrived \in [Streams -> Nat] /\ arrived[d] + n \in Nat
      BY <1>1 DEF Stream
  <2> QED
      BY <1>3, <2>1, Zenon
<1>17. full' \in BOOLEAN /\ cut' \in BOOLEAN /\ burst' \in BOOLEAN
    BY <1>1, <1>3, Zenon
<1>18. CASE ~calls
  <2>1. ASSUME NEW e \in Streams PROVE consumed[e] <= arrived'[e]
    <3>1. consumed[e] <= arrived[e] /\ consumed[e] \in Nat /\ arrived[e] \in Nat
        BY <1>1, Zenon DEF Stream
    <3>2. arrived'[e] \in Nat /\ arrived[e] <= arrived'[e]
        BY <1>16, <3>1
    <3> QED
        BY <3>1, <3>2
  <2>2. UNCHANGED <<consumed, delivered, sent>>
      BY <1>4, <1>18, Zenon
  <2>3. Stream'
    <3>1. ASSUME NEW e \in Streams
          PROVE  /\ Len(delivered'[e]) <= Len(sent'[e])
                 /\ \A i \in Delivered(e)' : delivered'[e][i] = sent'[e][i]
                 /\ consumed'[e] = PacketLen * Len(delivered'[e])
                 /\ full' => consumed'[e] <= arrived'[e]
        BY <2>1, <2>2, ZenonT(30) DEF Stream, Delivered
    <3> QED
        BY <1>15, <1>16, <1>17, <2>2, <3>1, ZenonT(30) DEF Stream
  <2> QED
      BY <1>3, <1>4, <1>13, <1>14, <1>15, <1>18, <2>3, ZenonT(30)
<1>19. CASE calls
  <2>1. /\ delivered' = [delivered EXCEPT ![d] = Append(@, Following(d))]
        /\ consumed' = [consumed EXCEPT ![d] = @ + PacketLen]
      BY <1>4, <1>5, <1>19, ZenonT(30)
  <2>2. /\ delivered'[d] \in Seq(Packet) /\ Len(delivered'[d]) = q + 1
        /\ \A i \in 1 .. q : delivered'[d][i] = delivered[d][i]
        /\ delivered'[d][q + 1] = Following(d)
    <3>1. delivered'[d] = Append(delivered[d], Following(d))
        BY <2>1, Zenon DEF Stream
    <3> QED
        BY <1>1, <1>9, <3>1, Appended, SMTT(30)
  <2>3. /\ delivered' \in [Streams -> Seq(Packet)]
        /\ \A e \in Streams : e # d => delivered'[e] = delivered[e]
      BY <2>1, <2>2, Zenon DEF Stream
  <2>4. /\ consumed' \in [Streams -> Nat] /\ consumed'[d] = consumed[d] + PacketLen
        /\ \A e \in Streams : e # d => consumed'[e] = consumed[e]
      BY <2>1, Lengths, SMTT(30) DEF Stream
  <2>5. ASSUME NEW e \in Streams
        PROVE  /\ Len(delivered'[e]) <= Len(sent'[e])
               /\ \A i \in 1 .. Len(delivered'[e]) : delivered'[e][i] = sent'[e][i]
               /\ consumed'[e] = PacketLen * Len(delivered'[e])
               /\ full' => consumed'[e] <= arrived'[e]
    <3>1. CASE e # d
        BY <1>1, <1>15, <1>16, <2>3, <2>4, <3>1, ZenonT(30) DEF Stream, Delivered
    <3>2. CASE e = d
      <4>1. \A i \in 1 .. q : delivered[d][i] = sent[d][i]
          BY Zenon DEF Stream, Delivered
      <4>2. \A i \in 1 .. q + 1 : i \in 1 .. q \/ i = q + 1
          BY <1>1, SMTT(30)
      <4>3. \A i \in 1 .. q + 1 : delivered'[d][i] = sent[d][i]
          BY <2>2, <4>1, <4>2, Zenon DEF Following
      <4>4. q + 1 <= Len(sent[d])
          BY <1>1, <1>6, SMTT(30)
      <4>5. consumed'[d] = PacketLen * (q + 1)
          BY <1>6, <2>4, Zenon
      <4>6. full' => consumed'[d] <= arrived'[d]
        <5>1. full' => size >= PacketLen
            BY <1>3, <1>19, Zenon
        <5> QED
            BY <1>6, <1>16, <2>4, <5>1, Zenon
      <4> QED
          BY <1>15, <2>2, <3>2, <4>3, <4>4, <4>5, <4>6, Zenon
    <3> QED
        BY <3>1, <3>2, Zenon
  <2>6. Stream'
      BY <1>15, <1>16, <1>17, <2>3, <2>4, <2>5, ZenonT(30) DEF Stream, Delivered
  <2> QED
      BY <1>1, <1>3, <1>4, <1>5, <1>6, <1>9, <1>13, <1>15, <1>19, <2>1, <2>6, SMTT(30)
<1> QED
    BY <1>18, <1>19, Zenon

-----------------------------------------------------------------------------
(* CallMethod.                                                              *)

\* The packets of a stream, and the calls they are about.
LEMMA PacketFacts ==
    ASSUME Stream, NEW d \in Streams
    PROVE  /\ Len(sent[d]) \in Nat /\ Len(delivered[d]) \in Nat /\ Delivered(d) \subseteq Sent(d)
           /\ \A i \in Sent(d) : /\ sent[d][i] \in Packet /\ sent[d][i].call \in Calls
                                 /\ sent[d][i].id \in Nat
<1>1. /\ sent[d] \in Seq(Packet) /\ delivered[d] \in Seq(Packet)
      /\ Len(delivered[d]) <= Len(sent[d])
    BY DEF Stream
<1>2. \A i \in Sent(d) : sent[d][i] \in Packet
    BY <1>1 DEF Sent
<1>3. \A p \in Packet : p.call \in Calls /\ p.id \in Nat
    BY DEF Packet
<1>4. Len(sent[d]) \in Nat /\ Len(delivered[d]) \in Nat
    BY <1>1
<1>5. Delivered(d) \subseteq Sent(d)
    BY <1>1, <1>4 DEF Delivered, Sent
<1> QED
    BY <1>2, <1>3, <1>4, <1>5, Zenon

\* Both directions are streams.
LEMMA Directions == "request" \in Streams /\ "response" \in Streams
BY RpcAssumption

\* message.set_id(id_++) gives the call a number of its own.
LEMMA NumberNumbers ==
    ASSUME Numbers, NEW c \in Calls, Number(c)
    PROVE  Numbers'
<1> DEFINE used == {x \in Calls : at[x] # "idle"}
<1>1. /\ at[c] = "idle" /\ at' = [at EXCEPT ![c] = "numbered"]
      /\ reg' = [reg EXCEPT ![c] = id] /\ id' = id + 1
      /\ UNCHANGED <<outstandings, ran>> /\ overlapped' \in BOOLEAN
    BY DEF Number, Step, NextId
<1>2. at \in [Calls -> {"idle", "numbered", "registered", "sent"}]
    BY DEF Numbers, TypeOK
<1>3. used' = used \cup {c} /\ c \notin used
    BY <1>1, <1>2, Zenon
<1>4. IsFiniteSet(used) /\ Cardinality(used') = Cardinality(used) + 1
      /\ Cardinality(used') <= Cardinality(Calls) /\ Cardinality(Calls) \in Nat
  <2>1. IsFiniteSet(used) /\ Cardinality(Calls) \in Nat
      BY RpcAssumption, FS_Subset, FS_CardinalityType, Zenon
  <2>2. Cardinality(used') = Cardinality(used) + 1
    <3> HIDE DEF used
    <3> QED
        BY <1>3, <2>1, FS_AddElement, Zenon
  <2>3. used' \subseteq Calls
      OBVIOUS
  <2>4. Cardinality(used') <= Cardinality(Calls)
    <3> HIDE DEF used
    <3> QED
        BY <2>3, RpcAssumption, FS_Subset, Zenon
  <2> QED
      BY <2>1, <2>2, <2>4, Zenon
<1>5. id = Cardinality(used) /\ id \in Nat /\ reg \in [Calls -> 0 .. Cardinality(Calls)]
    BY DEF Numbers, TypeOK
<1>6. id' = Cardinality(used') /\ id + 1 <= Cardinality(Calls)
    BY <1>1, <1>4, <1>5, Zenon
<1>7. id \in 0 .. Cardinality(Calls) /\ id' \in 0 .. Cardinality(Calls)
    BY <1>1, <1>4, <1>5, <1>6, SMTT(30)
<1>8. TypeOK'
  <2>1. /\ at' \in [Calls -> {"idle", "numbered", "registered", "sent"}]
        /\ reg' \in [Calls -> 0 .. Cardinality(Calls)]
      BY <1>1, <1>2, <1>5, <1>7, Zenon
  <2> QED
      BY <1>1, <1>7, <2>1, Zenon DEF Numbers, TypeOK, Ids
<1>9. /\ at'[c] = "numbered" /\ reg'[c] = id
      /\ \A x \in Calls : x # c => at'[x] = at[x] /\ reg'[x] = reg[x]
    BY <1>1, <1>2, <1>5, Zenon
<1>10. \A x \in Calls : at[x] # "idle" => reg[x] < id
    BY Zenon DEF Numbers
<1>11. \A x \in Calls : reg[x] \in Nat
    BY <1>4, <1>5, SMTT(30)
<1>12. \A x \in Calls : at'[x] # "idle" => reg'[x] < id'
    BY <1>1, <1>5, <1>9, <1>10, <1>11, SMTT(30)
<1>13. ASSUME NEW x \in Calls, NEW y \in Calls,
              at'[x] # "idle", at'[y] # "idle", reg'[x] = reg'[y]
       PROVE  x = y
  <2>1. \A z \in Calls : z # c /\ at'[z] # "idle" => reg'[z] # id
      BY <1>5, <1>9, <1>10, <1>11, SMTT(30)
  <2>2. CASE x = c \/ y = c
      BY <1>9, <1>13, <2>1, <2>2, Zenon
  <2>3. CASE x # c /\ y # c
      BY <1>9, <1>13, <2>3, Zenon DEF Numbers
  <2> QED
      BY <2>2, <2>3, Zenon
<1> QED
    BY <1>1, <1>6, <1>8, <1>12, <1>13, ZenonT(30) DEF Numbers

\* A call takes the next number.
LEMMA NumberIInv ==
    ASSUME IInv, Sane, NEW c \in Calls, Number(c)
    PROVE  IInv'
<1>1. /\ at[c] = "idle" /\ at' = [at EXCEPT ![c] = "numbered"]
      /\ reg' = [reg EXCEPT ![c] = id] /\ id' = id + 1
      /\ overlapped' = (overlapped \/ \E o \in Calls : at[o] = "numbered")
      /\ UNCHANGED <<codecVars, outstandings, working, ran, dropped>>
    BY Zenon DEF Number, Step, NextId
<1>2. at \in [Calls -> {"idle", "numbered", "registered", "sent"}]
      /\ reg \in [Calls -> 0 .. Cardinality(Calls)] /\ id \in Nat
    BY DEF IInv, Numbers, TypeOK
<1>3. /\ at'[c] = "numbered" /\ reg'[c] = id /\ id' - 1 = id
      /\ \A x \in Calls : x # c => at'[x] = at[x] /\ reg'[x] = reg[x]
    BY <1>1, <1>2
<1>4. UNCHANGED <<sent, arrived, consumed, delivered, full, cut, burst, aborted>>
    BY <1>1, ZenonT(30) DEF codecVars
<1>5. Stream' /\ Answered' /\ Sane'
    BY <1>4 DEF IInv, Stream, Answered, Sane, Sent, Delivered
<1>6. Numbers'
    BY NumberNumbers, ZenonT(30) DEF IInv
<1>7. Requested'
  <2>1. ASSUME NEW i \in Sent("request")
        PROVE  LET p == sent["request"][i] IN at'[p.call] = "sent" /\ p.id = reg'[p.call]
    <3>1. sent["request"][i].call \in Calls
        BY PacketFacts, Directions, Zenon DEF IInv
    <3> QED
        BY <1>1, <1>3, <3>1, ZenonT(30) DEF IInv, Requested
  <2> QED
      BY <1>1, <1>4, <2>1, SMTT(30) DEF IInv, Requested, Sent, Delivered
<1>8. Mapped'
  <2>1. SUFFICES ASSUME ~overlapped' PROVE Mapped'
      BY DEF Mapped
  <2>2. ~overlapped /\ \A o \in Calls : at[o] # "numbered"
      BY <1>1, <2>1, Zenon
  <2>3. \A x, o \in Calls : at'[x] = "numbered" /\ at'[o] = "numbered" => x = o
      BY <1>3, <2>2, Zenon
  <2>4. \A x \in Calls : at'[x] = "numbered" => reg'[x] = id' - 1
      BY <1>3, <2>2, Zenon
  <2>5. ASSUME NEW i \in Ids, outstandings[i] # None
        PROVE  LET x == outstandings[i]
               IN  at'[x] \in {"registered", "sent"} /\ reg'[x] = i /\ ran[x] = <<>>
    <3>1. outstandings[i] \in Calls
        BY <2>5, Zenon DEF IInv, Numbers, TypeOK
    <3>2. LET x == outstandings[i]
          IN  at[x] \in {"registered", "sent"} /\ reg[x] = i /\ ran[x] = <<>>
        BY <2>2, <2>5, Zenon DEF IInv, Mapped
    <3> QED
        BY <1>1, <1>3, <3>1, <3>2, Zenon
  <2>6. \A x \in Calls :
           at'[x] \in {"registered", "sent"} /\ ran[x] = <<>> => outstandings[reg'[x]] = x
      BY <1>3, <2>2, ZenonT(30) DEF IInv, Mapped
  <2> QED
      BY <1>1, <1>4, <2>2, <2>3, <2>4, <2>5, <2>6, SMTT(30) DEF IInv, Mapped, Delivered
<1> QED
    BY <1>5, <1>6, <1>7, <1>8, Zenon DEF IInv, SaneUnlessCut

\* A response is to a call that was sent, under its number.
LEMMA ResponseFacts ==
    ASSUME Stream, Requested, Answered, NEW j \in Sent("response")
    PROVE  LET p == sent["response"][j]
           IN  p \in Packet /\ p.call \in Calls /\ at[p.call] = "sent" /\ p.id = reg[p.call]
<1>1. PICK i \in Delivered("request") : sent["request"][i] = sent["response"][j]
    BY DEF Answered
<1>2. i \in Sent("request")
    BY <1>1, PacketFacts, Directions, Zenon
<1>3. sent["request"][i] \in Packet /\ sent["request"][i].call \in Calls
    BY <1>2, PacketFacts, Directions, Zenon
<1>4. LET p == sent["request"][i] IN at[p.call] = "sent" /\ p.id = reg[p.call]
    BY <1>2, Zenon DEF Requested
<1> QED
    BY <1>1, <1>3, <1>4, Zenon

\* A call that is not sent has no answer.
LEMMA NotYetRun ==
    ASSUME IInv, ~overlapped, NEW c \in Calls, at[c] # "sent"
    PROVE  ran[c] = <<>>
<1>1. SUFFICES ASSUME ran[c] # <<>> PROVE FALSE
    BY Zenon
<1>2. PICK j \in Delivered("response") : sent["response"][j].call = c
    BY <1>1, Zenon DEF IInv, Mapped
<1>3. j \in Sent("response")
    BY <1>2, PacketFacts, Directions, ZenonT(30) DEF IInv
<1> QED
    BY <1>2, <1>3, ResponseFacts, Zenon DEF IInv

\* A call enters outstandings_ under its number.
LEMMA RegisterCallIInv ==
    ASSUME IInv, Sane, NEW c \in Calls, RegisterCall(c)
    PROVE  IInv'
<1>1. /\ at[c] = "numbered" /\ at' = [at EXCEPT ![c] = "registered"]
      /\ outstandings' = [outstandings EXCEPT ![id - 1] = c]
      /\ UNCHANGED <<codecVars, id, reg, overlapped, working, ran, dropped>>
    BY Zenon DEF RegisterCall, Step, Register
<1>2. /\ at \in [Calls -> {"idle", "numbered", "registered", "sent"}]
      /\ id \in 0 .. Cardinality(Calls) /\ outstandings \in [Ids -> Calls \cup {None}]
    BY DEF IInv, Numbers, TypeOK
<1>3. at'[c] = "registered" /\ \A x \in Calls : x # c => at'[x] = at[x]
    BY <1>1, <1>2
<1>4. UNCHANGED <<sent, arrived, consumed, delivered, full, cut, burst, aborted>>
    BY <1>1, Zenon DEF codecVars
<1>5. Stream' /\ Answered' /\ Sane'
    BY <1>4 DEF IInv, Stream, Answered, Sane, Sent, Delivered
<1>6. Cardinality(Calls) \in Nat
    BY RpcAssumption, FS_CardinalityType, Zenon
<1>7. /\ id - 1 \in Ids /\ outstandings' \in [Ids -> Calls \cup {None}]
      /\ outstandings'[id - 1] = c
      /\ \A i \in Ids : i # id - 1 => outstandings'[i] = outstandings[i]
  <2>1. id - 1 \in Ids
      BY <1>2, <1>6, SMTT(30) DEF Ids
  <2> QED
      BY <1>1, <1>2, <2>1, Zenon
<1>8. Numbers'
  <2>1. TypeOK'
    <3>1. at' \in [Calls -> {"idle", "numbered", "registered", "sent"}]
        BY <1>1, <1>2, Zenon
    <3> QED
        BY <1>1, <1>7, <3>1, Zenon DEF IInv, Numbers, TypeOK
  <2>2. {x \in Calls : at'[x] # "idle"} = {x \in Calls : at[x] # "idle"}
      BY <1>1, <1>3, Zenon
  <2>3. \A x \in Calls : at'[x] # "idle" => at[x] # "idle"
      BY <1>1, <1>3, Zenon
  <2> QED
      BY <1>1, <2>1, <2>2, <2>3, Zenon DEF IInv, Numbers
<1>9. Requested'
  <2>1. ASSUME NEW i \in Sent("request")
        PROVE  LET p == sent["request"][i] IN at'[p.call] = "sent" /\ p.id = reg[p.call]
    <3>1. sent["request"][i].call \in Calls
        BY PacketFacts, Directions DEF IInv
    <3> QED
        BY <1>1, <1>3, <3>1, Zenon DEF IInv, Requested
  <2> QED
      BY <1>1, <1>4, <2>1, ZenonT(30) DEF IInv, Requested, Sent, Delivered
<1>10. Mapped'
  <2>1. SUFFICES ASSUME ~overlapped' PROVE Mapped'
      BY DEF Mapped
  <2>2. ~overlapped
      BY <1>1, <2>1, ZenonT(30)
  <2>3. \A x, o \in Calls : at'[x] = "numbered" /\ at'[o] = "numbered" => x = o
      BY <1>3, <2>2, SMTT(30) DEF IInv, Mapped
  <2>4. \A x \in Calls : at'[x] = "numbered" => reg[x] = id - 1
      BY <1>3, <2>2, SMTT(30) DEF IInv, Mapped
  <2>5. reg[c] = id - 1 /\ ran[c] = <<>>
      BY <1>1, <2>2, NotYetRun, Zenon DEF IInv, Mapped
  <2>6. ASSUME NEW i \in Ids, outstandings'[i] # None
        PROVE  LET x == outstandings'[i]
               IN  at'[x] \in {"registered", "sent"} /\ reg[x] = i /\ ran[x] = <<>>
    <3>1. CASE i = id - 1
        BY <1>3, <1>7, <2>5, <3>1, Zenon
    <3>2. CASE i # id - 1
      <4>1. outstandings'[i] = outstandings[i] /\ outstandings[i] \in Calls
          BY <1>2, <1>7, <2>6, <3>2, Zenon
      <4>2. LET x == outstandings[i]
            IN  at[x] \in {"registered", "sent"} /\ reg[x] = i /\ ran[x] = <<>>
          BY <2>2, <2>6, <4>1, Zenon DEF IInv, Mapped
      <4> QED
          BY <1>1, <1>3, <4>1, <4>2, Zenon
    <3> QED
        BY <3>1, <3>2, Zenon
  <2>7. ASSUME NEW x \in Calls, at'[x] \in {"registered", "sent"}, ran[x] = <<>>
        PROVE  outstandings'[reg[x]] = x
    <3>1. CASE x = c
        BY <1>7, <2>5, <3>1, Zenon
    <3>2. CASE x # c
      <4>1. outstandings[reg[x]] = x
          BY <1>3, <2>2, <2>7, <3>2, Zenon DEF IInv, Mapped
      <4>2. reg[x] # id - 1
          BY <1>1, <1>3, <2>5, <2>7, <3>2, ZenonT(30) DEF IInv, Numbers
      <4>3. reg[x] \in Ids
          BY <1>6, SMTT(30) DEF IInv, Numbers, TypeOK, Ids
      <4> QED
          BY <1>7, <4>1, <4>2, <4>3, Zenon
    <3> QED
        BY <3>1, <3>2, Zenon
  <2> QED
      BY <1>1, <1>4, <2>2, <2>3, <2>4, <2>6, <2>7, SMTT(30) DEF IInv, Mapped, Delivered
<1> QED
    BY <1>5, <1>8, <1>9, <1>10, Zenon DEF IInv, SaneUnlessCut

\* A request goes out behind those sent before.
LEMMA SendRequestIInv ==
    ASSUME IInv, Sane, NEW c \in Calls, SendRequest(c)
    PROVE  IInv'
<1> DEFINE r == [id |-> reg[c], call |-> c]
           n == Len(sent["request"])
<1>1. /\ at[c] = "registered" /\ at' = [at EXCEPT ![c] = "sent"]
      /\ Send("request", r)
      /\ UNCHANGED <<arrived, consumed, delivered, full, cut, burst, aborted, id, reg,
                     outstandings, overlapped, working, ran, dropped>>
    BY Zenon DEF SendRequest, Step
<1>2. at \in [Calls -> {"idle", "numbered", "registered", "sent"}] /\ reg[c] \in Nat
  <2>1. Cardinality(Calls) \in Nat
      BY RpcAssumption, FS_CardinalityType
  <2> QED
      BY <2>1 DEF IInv, Numbers, TypeOK
<1>3. at'[c] = "sent" /\ \A x \in Calls : x # c => at'[x] = at[x]
    BY <1>1, <1>2, Zenon
<1>4. r \in Packet /\ r.id = reg[c] /\ r.call = c
    BY <1>2, Zenon DEF Packet
<1> HIDE DEF r
<1>5. /\ Stream' /\ n \in Nat /\ Len(sent'["request"]) = n + 1
      /\ \A i \in 1 .. n : sent'["request"][i] = sent["request"][i]
      /\ sent'["request"][n + 1] = r
      /\ sent'["response"] = sent["response"]
    BY <1>1, <1>4, SendStream, Directions, ZenonT(30) DEF IInv
<1>6. /\ Sent("request") = 1 .. n /\ Sent("request")' = 1 .. n + 1
      /\ Sent("response")' = Sent("response")
      /\ Delivered("request")' = Delivered("request")
      /\ Delivered("response")' = Delivered("response")
      /\ Delivered("request") \subseteq 1 .. n
    BY <1>1, <1>5, PacketFacts, Directions, Zenon DEF IInv, Sent, Delivered
<1>7. \A i \in 1 .. n + 1 : i \in 1 .. n \/ i = n + 1
    BY <1>5, SMTT(30)
<1>8. \A i \in 1 .. n : /\ sent["request"][i].call \in Calls
                        /\ sent["request"][i].call # c
                        /\ at[sent["request"][i].call] = "sent"
                        /\ sent["request"][i].id = reg[sent["request"][i].call]
    BY <1>1, <1>6, PacketFacts, Directions, Zenon DEF IInv, Requested
<1>9. Numbers'
  <2>1. TypeOK'
    <3>1. at' \in [Calls -> {"idle", "numbered", "registered", "sent"}]
        BY <1>1, <1>2, Zenon
    <3> QED
        BY <1>1, <3>1, Zenon DEF IInv, Numbers, TypeOK
  <2>2. {x \in Calls : at'[x] # "idle"} = {x \in Calls : at[x] # "idle"}
      BY <1>1, <1>3, Zenon
  <2>3. \A x \in Calls : at'[x] # "idle" => at[x] # "idle"
      BY <1>1, <1>3, ZenonT(30)
  <2> QED
      BY <1>1, <2>1, <2>2, <2>3, Zenon DEF IInv, Numbers
<1>10. Requested'
  <2>1. ASSUME NEW i \in 1 .. n + 1
        PROVE  LET p == sent'["request"][i] IN at'[p.call] = "sent" /\ p.id = reg[p.call]
    <3>1. CASE i \in 1 .. n
        BY <1>3, <1>5, <1>8, <3>1, ZenonT(30)
    <3>2. CASE i = n + 1
        BY <1>3, <1>4, <1>5, <3>2, Zenon
    <3> QED
        BY <1>7, <3>1, <3>2, Zenon
  <2>2. ASSUME NEW i \in 1 .. n + 1, NEW j \in 1 .. n + 1,
               sent'["request"][i].call = sent'["request"][j].call
        PROVE  i = j
    <3>1. CASE i \in 1 .. n /\ j \in 1 .. n
      <4>1. \A k, l \in 1 .. n : sent["request"][k].call = sent["request"][l].call => k = l
          BY <1>6, Zenon DEF IInv, Requested
      <4>2. sent["request"][i].call = sent["request"][j].call
          BY <1>5, <2>2, <3>1, Zenon
      <4> QED
          BY <3>1, <4>1, <4>2, Zenon
    <3>2. CASE i = n + 1 \/ j = n + 1
        BY <1>4, <1>5, <1>7, <1>8, <2>2, <3>2, ZenonT(30)
    <3> QED
        BY <1>7, <3>1, <3>2, Zenon
  <2>3. ASSUME NEW p \in working
        PROVE  /\ \E i \in Delivered("request") : sent'["request"][i] = p
               /\ \A j \in Sent("response") : sent'["response"][j].call # p.call
    <3>1. PICK i \in Delivered("request") : sent["request"][i] = p
        BY Zenon DEF IInv, Requested
    <3>2. sent'["request"][i] = p
        BY <1>5, <1>6, <3>1, Zenon
    <3> QED
        BY <1>5, <3>2 DEF IInv, Requested
  <2> QED
      BY <1>1, <1>6, <2>1, <2>2, <2>3, SMTT(30) DEF IInv, Requested
<1>11. Answered'
  <2>1. ASSUME NEW j \in Sent("response")
        PROVE  \E i \in Delivered("request") : sent'["request"][i] = sent'["response"][j]
    <3>1. PICK i \in Delivered("request") : sent["request"][i] = sent["response"][j]
        BY ZenonT(30) DEF IInv, Answered
    <3> QED
        BY <1>5, <1>6, <3>1, Zenon
  <2> QED
      BY <1>5, <1>6, <2>1, SMTT(30) DEF IInv, Answered
<1>12. Mapped'
  <2>1. \A x \in Calls : /\ at'[x] \in {"registered", "sent"} <=> at[x] \in {"registered", "sent"}
                         /\ at'[x] = "numbered" <=> at[x] = "numbered"
      BY <1>1, <1>3, Zenon
  <2>2. SUFFICES ASSUME ~overlapped PROVE Mapped'
      BY <1>1, Zenon DEF Mapped
  <2>3. \A i \in Ids : outstandings[i] # None => outstandings[i] \in Calls
      BY Zenon DEF IInv, Numbers, TypeOK
  <2>4. ASSUME NEW i \in Ids, outstandings[i] # None
        PROVE  LET x == outstandings[i]
               IN  at'[x] \in {"registered", "sent"} /\ reg[x] = i /\ ran[x] = <<>>
      BY <2>1, <2>2, <2>3, <2>4, Zenon DEF IInv, Mapped
  <2> QED
      BY <1>1, <1>5, <1>6, <2>1, <2>2, <2>4, SMTT(30) DEF IInv, Mapped
<1> QED
    BY <1>1, <1>5, <1>9, <1>10, <1>11, <1>12, Zenon DEF IInv, SaneUnlessCut, Sane

-----------------------------------------------------------------------------
(* OnRpcMessage.                                                            *)

\* The service answers a request that it was given, once.
LEMMA DoneCallbackIInv ==
    ASSUME IInv, Sane, NEW r, DoneCallback(r)
    PROVE  IInv'
<1> DEFINE n == Len(sent["response"])
<1>1. /\ r \in working /\ working' = working \ {r}
      /\ Send("response", r)
      /\ UNCHANGED <<arrived, consumed, delivered, full, cut, burst, aborted, at, id, reg,
                     outstandings, overlapped, ran, dropped>>
    BY Zenon DEF DoneCallback, callVars
<1>2. r \in Packet
    BY <1>1, Zenon DEF IInv, Requested
<1>3. /\ Stream' /\ n \in Nat /\ Len(sent'["response"]) = n + 1
      /\ \A i \in 1 .. n : sent'["response"][i] = sent["response"][i]
      /\ sent'["response"][n + 1] = r
      /\ sent'["request"] = sent["request"]
  <2>1. Stream /\ "request" \in Streams /\ "response" \in Streams /\ "request" # "response"
      BY Directions, Zenon DEF IInv
  <2> QED
      BY <1>1, <1>2, <2>1, SendStream, Zenon
<1>4. /\ Sent("response") = 1 .. n /\ Sent("response")' = 1 .. n + 1
      /\ Sent("request")' = Sent("request")
      /\ Delivered("request")' = Delivered("request")
      /\ Delivered("response")' = Delivered("response")
      /\ Delivered("response") \subseteq 1 .. n /\ Delivered("request") \subseteq Sent("request")
    BY <1>1, <1>3, PacketFacts, Directions, Zenon DEF IInv, Sent, Delivered
<1>5. \A i \in 1 .. n + 1 : i \in 1 .. n \/ i = n + 1
    BY <1>3, SMTT(30)
<1>6. PICK k \in Delivered("request") : sent["request"][k] = r
    BY <1>1, Zenon DEF IInv, Requested
<1>7. \A j \in 1 .. n : sent["response"][j].call # r.call
    BY <1>1, <1>4, Zenon DEF IInv, Requested
<1>8. Numbers'
  <2>1. TypeOK'
      BY <1>1, Zenon DEF IInv, Numbers, TypeOK
  <2> QED
      BY <1>1, <2>1, NumbersKept, Zenon DEF IInv
<1>9. Requested'
  <2>1. ASSUME NEW p \in working'
        PROVE  /\ \E i \in Delivered("request") : sent["request"][i] = p
               /\ \A j \in 1 .. n + 1 : sent'["response"][j].call # p.call
    <3>1. p \in working /\ p # r
        BY <1>1, Zenon
    <3>2. PICK i \in Delivered("request") : sent["request"][i] = p
        BY <3>1 DEF IInv, Requested
    <3>3. p.call # r.call
      <4>1. k \in Sent("request") /\ i \in Sent("request") /\ k # i
          BY <1>4, <1>6, <3>1, <3>2, Zenon
      <4>2. \A a, b \in Sent("request") :
                sent["request"][a].call = sent["request"][b].call => a = b
          BY Zenon DEF IInv, Requested
      <4> QED
          BY <1>6, <3>2, <4>1, <4>2, Zenon
    <3>4. \A j \in 1 .. n : sent["response"][j].call # p.call
        BY <1>4, <3>1, Zenon DEF IInv, Requested
    <3> QED
        BY <1>3, <1>5, <3>2, <3>3, <3>4, Zenon
  <2>2. working' \subseteq Packet
      BY <1>1, Zenon DEF IInv, Requested
  <2>3. /\ \A i \in Sent("request") :
              LET p == sent["request"][i] IN at[p.call] = "sent" /\ p.id = reg[p.call]
        /\ \A i, j \in Sent("request") :
              sent["request"][i].call = sent["request"][j].call => i = j
      BY Zenon DEF IInv, Requested
  <2>4. \A p \in working' :
           /\ \E i \in Delivered("request")' : sent'["request"][i] = p
           /\ \A j \in Sent("response")' : sent'["response"][j].call # p.call
      BY <1>3, <1>4, <2>1, ZenonT(30)
  <2>5. /\ \A i \in Sent("request")' :
              LET p == sent'["request"][i] IN at'[p.call] = "sent" /\ p.id = reg'[p.call]
        /\ \A i, j \in Sent("request")' :
              sent'["request"][i].call = sent'["request"][j].call => i = j
    <3>1. at' = at /\ reg' = reg
        BY <1>1
    <3> QED
        BY <1>3, <1>4, <2>3, <3>1, SMTT(30)
  <2> QED
      BY <2>2, <2>4, <2>5, Zenon DEF Requested
<1>10. Answered'
  <2>1. ASSUME NEW j \in 1 .. n + 1
        PROVE  \E i \in Delivered("request") : sent["request"][i] = sent'["response"][j]
      BY <1>3, <1>4, <1>5, <1>6, Zenon DEF IInv, Answered
  <2>2. ASSUME NEW i \in 1 .. n + 1, NEW j \in 1 .. n + 1,
               sent'["response"][i].call = sent'["response"][j].call
        PROVE  i = j
    <3>1. CASE i \in 1 .. n /\ j \in 1 .. n
        BY <1>3, <1>4, <2>2, <3>1, ZenonT(30) DEF IInv, Answered
    <3>2. CASE i = n + 1 \/ j = n + 1
        BY <1>3, <1>5, <1>7, <2>2, <3>2, ZenonT(30)
    <3> QED
        BY <1>5, <3>1, <3>2, Zenon
  <2> QED
      BY <1>3, <1>4, <2>1, <2>2, Zenon DEF Answered
<1>11. Mapped'
  <2>1. SUFFICES ASSUME ~overlapped PROVE Mapped'
      BY <1>1, Zenon DEF Mapped
  <2>2. ASSUME NEW c \in Calls, ran[c] # <<>>
        PROVE  \E j \in Delivered("response") : sent'["response"][j].call = c
    <3>1. PICK j \in Delivered("response") : sent["response"][j].call = c
        BY <2>1, <2>2, Zenon DEF IInv, Mapped
    <3> QED
        BY <1>3, <1>4, <3>1, Zenon
  <2> QED
      BY <1>1, <1>4, <2>1, <2>2, SMTT(30) DEF IInv, Mapped
<1> QED
    BY <1>1, <1>3, <1>8, <1>9, <1>10, <1>11, Zenon DEF IInv, SaneUnlessCut, Sane

\* A packet is delivered: the packets delivered before, and this one.
LEMMA DeliveredNext ==
    ASSUME Stream, NEW d \in Streams, Len(delivered[d]) < Len(sent[d]),
           Following(d) \in Packet, sent' = sent,
           delivered' = [delivered EXCEPT ![d] = Append(@, Following(d))]
    PROVE  LET q == Len(delivered[d])
           IN  /\ q + 1 \in Sent(d) /\ q + 1 \notin Delivered(d)
               /\ Delivered(d)' = Delivered(d) \cup {q + 1}
               /\ \A e \in Streams : /\ Sent(e)' = Sent(e)
                                     /\ e # d => Delivered(e)' = Delivered(e)
<1>1. /\ sent[d] \in Seq(Packet) /\ delivered[d] \in Seq(Packet)
      /\ delivered'[d] = Append(delivered[d], Following(d))
      /\ \A e \in Streams : e # d => delivered'[e] = delivered[e]
    BY Zenon DEF Stream
<1>2. /\ Len(delivered[d]) \in Nat /\ Len(sent[d]) \in Nat
      /\ Len(delivered'[d]) = Len(delivered[d]) + 1
    BY <1>1, Appended
<1>3. Delivered(d)' = Delivered(d) \cup {Len(delivered[d]) + 1}
    BY <1>2 DEF Delivered
<1> QED
    BY <1>1, <1>2, <1>3, SMTT(30) DEF Sent, Delivered

\* A request is delivered.
LEMMA OnRequestIInv ==
    ASSUME IInv, Sane, Stream', UNCHANGED <<at, id, reg, overlapped, sent>>, full' \/ cut',
           Len(delivered["request"]) < Len(sent["request"]), Following("request") \in Packet,
           delivered' = [delivered EXCEPT !["request"] = Append(@, Following("request"))],
           OnRequest(Following("request"))
    PROVE  IInv'
<1> DEFINE q == Len(delivered["request"])
           r == Following("request")
<1>1. /\ working' = working \cup {r} \/ working' = working
      /\ UNCHANGED <<outstandings, ran>>
      /\ aborted' = (aborted \/ r.call \notin Registered)
    BY Zenon DEF OnRequest
<1>2. r \in Packet
    BY Zenon
<1>3. /\ q + 1 \in Sent("request") /\ q + 1 \notin Delivered("request")
      /\ Delivered("request")' = Delivered("request") \cup {q + 1}
      /\ \A e \in Streams : Sent(e)' = Sent(e)
      /\ Delivered("response")' = Delivered("response")
    BY DeliveredNext, Directions, Zenon DEF IInv
<1>4. r = sent["request"][q + 1]
    BY Zenon DEF Following
<1>11. q + 1 \in 1 .. Len(delivered'["request"]) /\ delivered'["request"][q + 1] = r
  <2>1. /\ delivered["request"] \in Seq(Packet)
        /\ delivered'["request"] = Append(delivered["request"], r)
      BY Directions, Zenon DEF IInv, Stream
  <2>2. /\ q \in Nat /\ Len(delivered'["request"]) = q + 1
        /\ delivered'["request"][q + 1] = r
      BY <1>2, <2>1, Appended
  <2> QED
      BY <2>2
<1> HIDE DEF q, r
<1>5. Delivered("request") \subseteq Sent("request")
    BY PacketFacts, Directions, Zenon DEF IInv
<1>6. \A j \in Sent("response") : sent["response"][j].call # r.call
  <2>1. SUFFICES ASSUME NEW j \in Sent("response"), sent["response"][j].call = r.call
                 PROVE  FALSE
      BY Zenon
  <2>2. PICK i \in Delivered("request") : sent["request"][i] = sent["response"][j]
      BY DEF IInv, Answered
  <2>3. i = q + 1
      BY <1>3, <1>4, <1>5, <2>1, <2>2, ZenonT(30) DEF IInv, Requested
  <2> QED
      BY <1>3, <2>2, <2>3, Zenon
<1>7. Numbers' /\ SaneUnlessCut'
  <2>1. Numbers'
      BY <1>1, Zenon DEF IInv, Numbers, TypeOK
  <2>2. ~aborted' \/ Unserved'
      BY <1>1, <1>11, Zenon DEF Sane, Unserved
  <2> QED
      BY <2>1, <2>2, Zenon DEF SaneUnlessCut, Sane
<1>8. Requested'
  <2>1. ASSUME NEW p \in working'
        PROVE  /\ \E i \in Delivered("request")' : sent["request"][i] = p
               /\ \A j \in Sent("response") : sent["response"][j].call # p.call
    <3>1. CASE p = r
        BY <1>3, <1>4, <1>6, <3>1, Zenon
    <3>2. CASE p \in working
        BY <1>3, <3>2, Zenon DEF IInv, Requested
    <3> QED
        BY <1>1, <3>1, <3>2, Zenon
  <2>2. working' \subseteq Packet
      BY <1>1, <1>2, ZenonT(30) DEF IInv, Requested
  <2> QED
      BY <1>3, <2>1, <2>2, Directions, SMTT(30) DEF IInv, Requested
<1>9. Answered'
    BY <1>3, Directions, Zenon DEF IInv, Answered
<1>10. Mapped'
    BY <1>1, <1>3, MappedKept, Zenon DEF IInv
<1> QED
    BY <1>7, <1>8, <1>9, <1>10, Zenon DEF IInv

\* A response is delivered: without overlapping calls it is the one to the call that is
\* registered under its number.
LEMMA OnResponseIInv ==
    ASSUME IInv, Sane, Stream', UNCHANGED <<at, id, reg, overlapped, sent>>, full' \/ cut',
           Len(delivered["response"]) < Len(sent["response"]), Following("response") \in Packet,
           delivered' = [delivered EXCEPT !["response"] = Append(@, Following("response"))],
           OnResponse(Following("response"))
    PROVE  IInv'
<1> DEFINE q == Len(delivered["response"])
           r == Following("response")
           out == outstandings[r.id]
<1>1. /\ aborted' = (aborted \/ out = None)
      /\ outstandings' = [outstandings EXCEPT ![r.id] = None]
      /\ ran' = [c \in Calls |-> IF c = out THEN Append(ran[c], r.call) ELSE ran[c]]
      /\ UNCHANGED <<working, dropped>>
    BY Zenon DEF OnResponse, TakeCall
<1>2. /\ q + 1 \in Sent("response") /\ q + 1 \notin Delivered("response")
      /\ Delivered("response")' = Delivered("response") \cup {q + 1}
      /\ Sent("request")' = Sent("request") /\ Sent("response")' = Sent("response")
      /\ Delivered("request")' = Delivered("request")
    BY DeliveredNext, Directions, Zenon DEF IInv
<1>3. r = sent["response"][q + 1]
    BY Zenon DEF Following
<1>4. r.call \in Calls /\ at[r.call] = "sent" /\ r.id = reg[r.call]
    BY <1>2, <1>3, ResponseFacts, Zenon DEF IInv
<1> HIDE DEF q, r
<1>5. /\ outstandings \in [Ids -> Calls \cup {None}] /\ ran \in [Calls -> Seq(Calls)]
      /\ r.id \in Ids /\ \A c \in Calls : reg[c] \in Ids
  <2>1. Cardinality(Calls) \in Nat
      BY RpcAssumption, FS_CardinalityType, Zenon
  <2>2. reg \in [Calls -> 0 .. Cardinality(Calls)]
      BY Zenon DEF IInv, Numbers, TypeOK
  <2>3. \A c \in Calls : reg[c] \in Ids
      BY <2>1, <2>2, SMTT(30) DEF Ids
  <2> QED
      BY <1>4, <2>3, Zenon DEF IInv, Numbers, TypeOK
<1>6. /\ outstandings' \in [Ids -> Calls \cup {None}]
      /\ outstandings'[r.id] = None
      /\ \A i \in Ids : i # r.id => outstandings'[i] = outstandings[i]
    BY <1>1, <1>5, Zenon
<1>7. ran' \in [Calls -> Seq(Calls)]
  <2>1. \A c \in Calls : ran[c] \in Seq(Calls) /\ Append(ran[c], r.call) \in Seq(Calls)
      BY <1>4, <1>5
  <2> QED
      BY <1>1, <2>1, Zenon
<1>8. Numbers'
  <2>1. TypeOK'
      BY <1>6, <1>7, Zenon DEF IInv, Numbers, TypeOK
  <2> QED
      BY <2>1, NumbersKept, Zenon DEF IInv
<1>9. Requested' /\ Answered'
    BY <1>1, <1>2, RequestedKept, Zenon DEF IInv
<1>10. Delivered("response") \subseteq Sent("response")
    BY PacketFacts, Directions, Zenon DEF IInv
<1>11. ~overlapped => out = r.call /\ ran[r.call] = <<>>
  <2>1. SUFFICES ASSUME ~overlapped PROVE out = r.call /\ ran[r.call] = <<>>
      BY Zenon
  <2>2. ran[r.call] = <<>>
    <3>1. SUFFICES ASSUME ran[r.call] # <<>> PROVE FALSE
        BY Zenon
    <3>2. PICK j \in Delivered("response") : sent["response"][j].call = r.call
        BY <1>4, <2>1, <3>1, Zenon DEF IInv, Mapped
    <3>3. j = q + 1
        BY <1>2, <1>3, <1>10, <3>2, Zenon DEF IInv, Answered
    <3> QED
        BY <1>2, <3>2, <3>3, Zenon
  <2> QED
      BY <1>4, <2>1, <2>2, Zenon DEF IInv, Mapped
<1>12. SaneUnlessCut'
  <2>1. ~overlapped => ~aborted'
      BY <1>1, <1>4, <1>11, RpcAssumption, ZenonT(30) DEF Sane
  <2> QED
      BY <2>1, Zenon DEF SaneUnlessCut, Sane
<1>13. Mapped'
  <2>1. SUFFICES ASSUME ~overlapped PROVE Mapped'
      BY Zenon DEF Mapped
  <2>2. /\ ran'[r.call] = <<r.call>>
        /\ \A c \in Calls : c # r.call => ran'[c] = ran[c]
    <3>1. Append(<<>>, r.call) = <<r.call>>
        BY SMTT(30)
    <3> QED
        BY <1>1, <1>4, <1>11, <2>1, <3>1, Zenon
  <2>3. ASSUME NEW i \in Ids, outstandings'[i] # None
        PROVE  LET x == outstandings'[i]
               IN  at[x] \in {"registered", "sent"} /\ reg[x] = i /\ ran'[x] = <<>>
    <3>1. i # r.id /\ outstandings'[i] = outstandings[i]
        BY <1>6, <2>3, ZenonT(30)
    <3>2. LET x == outstandings[i]
          IN  x \in Calls /\ at[x] \in {"registered", "sent"} /\ reg[x] = i /\ ran[x] = <<>>
        BY <1>5, <2>1, <2>3, <3>1, SMTT(30) DEF IInv, Mapped
    <3> QED
        BY <1>4, <2>2, <3>1, <3>2, Zenon
  <2>4. ASSUME NEW x \in Calls, at[x] \in {"registered", "sent"}, ran'[x] = <<>>
        PROVE  outstandings'[reg[x]] = x
    <3>1. x # r.call /\ ran[x] = <<>>
        BY <2>2, <2>4, SMTT(30)
    <3>2. outstandings[reg[x]] = x
        BY <2>1, <2>4, <3>1, Zenon DEF IInv, Mapped
    <3>3. reg[x] # r.id
      <4>1. x # r.call /\ at[x] # "idle" /\ at[r.call] # "idle"
          BY <1>4, <2>4, <3>1, Zenon
      <4>2. \A c, o \in Calls :
                at[c] # "idle" /\ at[o] # "idle" /\ reg[c] = reg[o] => c = o
          BY Zenon DEF IInv, Numbers
      <4> QED
          BY <1>4, <2>4, <4>1, <4>2, Zenon
    <3> QED
        BY <1>5, <1>6, <3>2, <3>3, Zenon
  <2>5. ASSUME NEW c \in Calls
        PROVE  /\ ran'[c] \in {<<>>, <<c>>}
               /\ ran'[c] # <<>> =>
                     \E j \in Delivered("response")' : sent["response"][j].call = c
    <3>1. CASE c = r.call
        BY <1>2, <1>3, <2>2, <3>1, Zenon
    <3>2. CASE c # r.call
        BY <1>2, <2>1, <2>2, <3>2, Zenon DEF IInv, Mapped
    <3> QED
        BY <3>1, <3>2, Zenon
  <2> QED
      BY <2>1, <2>3, <2>4, <2>5, SMTT(30) DEF IInv, Mapped
<1> QED
    BY <1>8, <1>9, <1>12, <1>13, Zenon DEF IInv

\* A read of any length at either end.
LEMMA ReadIInv ==
    ASSUME IInv, Sane, NEW d \in Streams, NEW n \in Nat \ {0}, Read(d, n)
    PROVE  IInv'
<1>1. /\ Stream' /\ UNCHANGED <<at, id, reg, overlapped, sent>> /\ (full' \/ cut')
      /\ \/ /\ UNCHANGED <<delivered, outstandings, working, ran, dropped>>
            /\ ~aborted' \/ cut'
         \/ /\ Len(delivered[d]) < Len(sent[d])
            /\ Following(d) \in Packet
            /\ delivered' = [delivered EXCEPT ![d] = Append(@, Following(d))]
            /\ IF d = "request" THEN OnRequest(Following(d)) ELSE OnResponse(Following(d))
    BY ReadFacts DEF IInv
<1>2. d = "request" \/ d = "response"
    BY RpcAssumption, Zenon
<1>3. CASE UNCHANGED <<delivered, outstandings, working, ran, dropped>> /\ (~aborted' \/ cut')
  <2>1. TypeOK' /\ \A e \in Streams : Delivered(e)' = Delivered(e)
      BY <1>1, <1>3, Zenon DEF IInv, Numbers, TypeOK, Delivered
  <2>2. "request" \in Streams /\ "response" \in Streams
      BY Directions, Zenon
  <2>3. Numbers'
      BY <1>1, <2>1, NumbersKept, Zenon DEF IInv
  <2>4. Requested' /\ Answered'
      BY <1>1, <1>3, <2>1, <2>2, RequestedKept, Zenon DEF IInv
  <2>5. Mapped'
      BY <1>1, <1>3, <2>1, <2>2, MappedKept, Zenon DEF IInv
  <2>6. SaneUnlessCut'
      BY <1>1, <1>3, Zenon DEF SaneUnlessCut, Sane
  <2> QED
      BY <1>1, <2>3, <2>4, <2>5, <2>6, Zenon DEF IInv
<1>4. CASE /\ Len(delivered[d]) < Len(sent[d]) /\ Following(d) \in Packet
           /\ delivered' = [delivered EXCEPT ![d] = Append(@, Following(d))]
           /\ IF d = "request" THEN OnRequest(Following(d)) ELSE OnResponse(Following(d))
  <2>1. CASE d = "request"
      BY <1>1, <1>4, <2>1, OnRequestIInv, ZenonT(30)
  <2>2. CASE d = "response"
      BY <1>1, <1>4, <2>2, OnResponseIInv, Zenon
  <2> QED
      BY <1>2, <2>1, <2>2, Zenon
<1> QED
    BY <1>1, <1>3, <1>4, Zenon

-----------------------------------------------------------------------------
(* The invariant and the properties.                                        *)

\* No call is made, and nothing is sent.
LEMMA InitIInv == Init => IInv
<1>1. SUFFICES ASSUME Init PROVE IInv
    BY Zenon
<1>2. Stream
  <2>1. /\ sent = [d \in Streams |-> <<>>] /\ delivered = [d \in Streams |-> <<>>]
        /\ arrived = [d \in Streams |-> 0] /\ consumed = [d \in Streams |-> 0]
        /\ full = TRUE /\ cut = FALSE /\ burst = FALSE /\ aborted = FALSE
      BY <1>1, Zenon DEF Init, CodecInit
  <2>2. <<>> \in Seq(Packet) /\ Len(<<>>) = 0 /\ PacketLen * 0 = 0
      BY Lengths
  <2>3. \A d \in Streams : /\ Len(delivered[d]) = 0 /\ Len(sent[d]) = 0
                           /\ consumed[d] = 0 /\ arrived[d] = 0 /\ Delivered(d) = {}
    <3>1. \A d \in Streams : /\ delivered[d] = <<>> /\ sent[d] = <<>>
                             /\ consumed[d] = 0 /\ arrived[d] = 0
        BY <2>1, Zenon
    <3>2. 1 .. 0 = {}
        OBVIOUS
    <3> QED
        BY <2>2, <3>1, <3>2, Zenon DEF Delivered
  <2>4. /\ sent \in [Streams -> Seq(Packet)] /\ delivered \in [Streams -> Seq(Packet)]
        /\ arrived \in [Streams -> Nat] /\ consumed \in [Streams -> Nat]
      BY <2>1, <2>2, Zenon
  <2>5. \A d \in Streams : /\ Len(delivered[d]) <= Len(sent[d])
                           /\ \A i \in Delivered(d) : delivered[d][i] = sent[d][i]
                           /\ consumed[d] = PacketLen * Len(delivered[d])
                           /\ consumed[d] <= arrived[d]
    <3>1. 0 <= 0
        OBVIOUS
    <3> QED
        BY <2>2, <2>3, <3>1, Zenon
  <2> QED
      BY <2>1, <2>4, <2>5, Zenon DEF Stream
<1>3. Sent("request") = {} /\ Sent("response") = {} /\ Sane /\ working = {}
    BY <1>1, Directions DEF Init, CodecInit, Sent, Sane
<1>4. Numbers
  <2>1. Cardinality(Calls) \in Nat
      BY RpcAssumption, FS_CardinalityType, Zenon
  <2>2. {c \in Calls : at[c] # "idle"} = {} /\ Cardinality({}) = 0
      BY <1>1, FS_EmptySet, Zenon DEF Init
  <2>3. TypeOK
      BY <1>1, <2>1, SMTT(30) DEF Init, TypeOK
  <2> QED
      BY <1>1, <2>2, <2>3, Zenon DEF Init, Numbers
<1>5. Requested /\ Answered
    BY <1>3, Zenon DEF Requested, Answered
<1>6. Mapped
    BY <1>1, Zenon DEF Init, Mapped
<1> QED
    BY <1>2, <1>3, <1>4, <1>5, <1>6, Zenon DEF IInv, SaneUnlessCut

\* The invariant is inductive.
LEMMA NextIInv == IInv /\ [Next]_vars => IInv'
<1>1. SUFFICES ASSUME IInv, [Next]_vars PROVE IInv'
    OBVIOUS
<1>2. ASSUME Sane, NEW c \in Calls, CallMethod(c) PROVE IInv'
    BY <1>1, <1>2, NumberIInv, RegisterCallIInv, SendRequestIInv, ZenonT(30) DEF CallMethod
<1>3. ASSUME Sane, NEW d \in Streams, Receive(d) PROVE IInv'
  <2>1. PacketLen * Cardinality(Calls) \in Nat
      BY Lengths, Offsets, RpcAssumption, FS_CardinalityType, Zenon
  <2>2. PICK n \in 1 .. PacketLen * Cardinality(Calls) : Read(d, n)
      BY <1>3, Zenon DEF Receive
  <2>3. n \in Nat \ {0}
      BY <2>1
  <2> QED
      BY <1>1, <1>3, <2>2, <2>3, ReadIInv, Zenon
<1>4. ASSUME Sane, Answer PROVE IInv'
    BY <1>1, <1>4, DoneCallbackIInv, Zenon DEF Answer
<1>5. CASE UNCHANGED vars
  <2>1. /\ UNCHANGED <<sent, arrived, consumed, delivered, full, cut, burst, aborted>>
        /\ UNCHANGED <<at, id, reg, outstandings, overlapped, working, ran, dropped>>
      BY <1>5, Zenon DEF vars, codecVars, callVars
  <2>2. Stream' /\ SaneUnlessCut'
      BY <1>1, <2>1, Zenon DEF IInv, Stream, Delivered, SaneUnlessCut, Sane, Unserved
  <2>3. TypeOK' /\ \A e \in Streams : Delivered(e)' = Delivered(e)
      BY <1>1, <2>1, Zenon DEF IInv, Numbers, TypeOK, Delivered
  <2>4. "request" \in Streams /\ "response" \in Streams
      BY Directions, Zenon
  <2>5. Numbers'
      BY <1>1, <2>1, <2>3, NumbersKept, ZenonT(30) DEF IInv
  <2>6. Requested' /\ Answered'
      BY <1>1, <2>1, <2>3, <2>4, RequestedKept, Zenon DEF IInv
  <2>7. Mapped'
      BY <1>1, <2>1, <2>3, <2>4, MappedKept, Zenon DEF IInv
  <2> QED
      BY <2>2, <2>5, <2>6, <2>7, Zenon DEF IInv
<1> QED
    BY <1>1, <1>2, <1>3, <1>4, <1>5, Zenon DEF Next

\* The invariant holds in every state.
THEOREM RpcChannelInvariance == Spec => []IInv
BY InitIInv, NextIInv, PTL DEF Spec

\* id_ has counted the calls, and no done is run for an unknown call.
THEOREM RpcTypes == Spec => []TypeOK
<1>1. IInv => TypeOK
    BY DEF IInv, Numbers
<1> QED
    BY <1>1, RpcChannelInvariance, PTL

\* However the bytes are cut into reads, OnMessage delivers the packets sent, in order and
\* each once, as long as it delivered none too early.
THEOREM CodecKeepsOrder == Spec => []PacketsInOrder
<1>1. IInv => PacketsInOrder
  <2>1. SUFFICES ASSUME IInv, full, NEW d \in Streams
                 PROVE  /\ Len(delivered[d]) <= Len(sent[d])
                        /\ delivered[d] = SubSeq(sent[d], 1, Len(delivered[d]))
                        /\ consumed[d] = PacketLen * Len(delivered[d])
                        /\ consumed[d] <= arrived[d]
      BY Zenon DEF PacketsInOrder
  <2>2. /\ delivered[d] \in Seq(Packet) /\ sent[d] \in Seq(Packet)
        /\ Len(delivered[d]) <= Len(sent[d])
        /\ \A i \in 1 .. Len(delivered[d]) : delivered[d][i] = sent[d][i]
      BY <2>1, Zenon DEF IInv, Stream, Delivered
  <2>3. delivered[d] = SubSeq(sent[d], 1, Len(delivered[d]))
      BY <2>2, SMTT(30)
  <2> QED
      BY <2>1, <2>2, <2>3, Zenon DEF IInv, Stream
<1> QED
    BY <1>1, RpcChannelInvariance, PTL

\* Without overlapping threads in CallMethod, every done is run with the response to its
\* own call and at most once, and a call not answered is in the map under its number.
THEOREM OwnResponseOnly == Spec => []OwnResponse
<1>1. IInv => OwnResponse
  <2>1. SUFFICES ASSUME IInv, ~overlapped, NEW c \in Calls
                 PROVE  /\ ran[c] \in {<<>>, <<c>>}
                        /\ at[c] \in {"registered", "sent"} =>
                              (outstandings[reg[c]] = c <=> ran[c] = <<>>)
      BY Zenon DEF OwnResponse
  <2>2. reg[c] \in Ids
    <3>1. Cardinality(Calls) \in Nat
        BY RpcAssumption, FS_CardinalityType, ZenonT(30)
    <3> QED
        BY <2>1, <3>1 DEF IInv, Numbers, TypeOK, Ids
  <2>3. outstandings[reg[c]] = c => ran[c] = <<>>
      BY <2>1, <2>2, RpcAssumption, SMTT(30) DEF IInv, Mapped
  <2> QED
      BY <2>1, <2>3, Zenon DEF IInv, Mapped
<1> QED
    BY <1>1, RpcChannelInvariance, PTL

\* No assertion fails at either end and no packet is delivered early, unless threads
\* overlapped in CallMethod, a read ended in a header or close to the end of a packet, or
\* the server was given a request for a service it has not registered.
THEOREM OnlyCutsHurt == Spec => []SaneUnlessCut
<1>1. IInv => SaneUnlessCut
    BY DEF IInv
<1> QED
    BY <1>1, RpcChannelInvariance, PTL
=============================================================================
