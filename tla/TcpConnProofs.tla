---------------------------- MODULE TcpConnProofs ----------------------------
(***************************************************************************)
(* The safety properties of TcpConn and the facts about Buffer they rest   *)
(* on, proved for any number of bytes sent and received, of requests, and  *)
(* for any least memory of a buffer.                                       *)
(***************************************************************************)
EXTENDS TcpConn, SequenceTheorems, TLAPS

\* A byte is its number.
Byte == Nat

Buffers == [b : Nat, cap : Nat, bytes : Seq(Byte)]

\* What OutputFits says of output_.
Fits(buf) == InBounds(buf) \/ GetSize(buf) < buf.cap

Types ==
    /\ state \in {"HandShakeing", "Connected", "Closed", "Failed"}
    /\ channel \in {"open", "shut", "gone"}
    /\ writing \in BOOLEAN /\ broken \in BOOLEAN
    /\ at \in {"loop", "input", "cleanup", "reading", "closing"}
    /\ output \in Buffers /\ wire \in Seq(Byte) /\ accepted \in Nat
    /\ received \in Nat /\ consumed \in Nat /\ offered \in Nat /\ inbox \in Nat
    /\ stopped \in BOOLEAN

\* Bytes in output_ have a write event to wait for in every state of the connection:
\* SendBuffer, which does not ask for the state, writes at once if there is none.
Writer == channel = "open" /\ ~broken /\ ~IsEmpty(output) => writing

\* User code takes only what it was offered, and only the loop of HandleRead and CleanUp
\* have still to offer.  The loop meets another state than kConnected only if another
\* thread's Shutdown() has set it, and kClosed is final.
Offer ==
    /\ consumed <= offered /\ offered <= received
    /\ at \notin {"input", "cleanup"} => offered = received \/ stopped
    /\ at = "input" => state = "Connected" \/ stopped
    /\ stopped => state = "Closed"

\* statecb_ is called on the way to deleting the channel, after which no event comes.
Cleaned ==
    /\ calls = IF channel = "gone" \/ at = "closing" THEN 1 ELSE 0
    /\ channel = "gone" => at = "loop" /\ revents = {}

Sending == BytesInOrder /\ OutputFits /\ Writer

IInv == Types /\ Sending /\ Offer /\ Cleaned

-----------------------------------------------------------------------------
(* Buffers.                                                                 *)

\* The largest of three numbers.
LEMMA MaxOfThree ==
    ASSUME NEW x \in Nat, NEW y \in Nat, NEW z \in Nat
    PROVE  /\ Max({x, y, z}) \in Nat
           /\ Max({x, y, z}) >= x /\ Max({x, y, z}) >= y /\ Max({x, y, z}) >= z
<1> DEFINE S == {x, y, z}
<1>1. \E m \in S : \A n \in S : m >= n
    OBVIOUS
<1>2. Max(S) \in S /\ \A n \in S : Max(S) >= n
    BY <1>1, Zenon DEF Max
<1> QED
    BY <1>2

\* MakeRoom leaves the contents alone; if they were within the memory, there is room
\* behind them, or there would be if they were moved.
LEMMA MakeRoomFacts ==
    ASSUME NEW buf \in Buffers, NEW len \in Nat
    PROVE  LET new == MakeRoom(buf, len)
           IN  /\ new \in Buffers /\ new.bytes = buf.bytes
               /\ EndOf(new) + len <= new.cap \/ GetSize(buf) + len < new.cap
<1> USE DEF Buffers
<1>1. /\ buf.b \in Nat /\ buf.cap \in Nat /\ GetSize(buf) \in Nat
      /\ EndOf(buf) = buf.b + GetSize(buf)
    BY DEF GetSize, EndOf
<1>2. CASE EndOf(buf) + len <= buf.cap
    BY <1>1, <1>2 DEF MakeRoom
<1>3. CASE EndOf(buf) + len > buf.cap /\ GetSize(buf) + len < buf.cap
    BY <1>1, <1>3 DEF MakeRoom
<1>4. CASE ~(EndOf(buf) + len <= buf.cap) /\ ~(GetSize(buf) + len < buf.cap)
  <2> DEFINE m == Max({Exp, 2 * buf.cap, GetSize(buf) + len})
             new == [buf EXCEPT !.b = 0, !.cap = m]
  <2>1. MakeRoom(buf, len) = Expand(buf, len)
      BY <1>1, <1>4, Zenon DEF MakeRoom
  <2>2. m \in Nat /\ m >= GetSize(buf) + len
    <3>1. Exp \in Nat /\ 2 * buf.cap \in Nat /\ GetSize(buf) + len \in Nat
      <4>1. \A x, y \in Nat : 2 * x \in Nat /\ x + y \in Nat
          OBVIOUS
      <4> QED
          BY <1>1, <4>1, BufferAssumption, Zenon
    <3> QED
        BY <3>1, MaxOfThree, Zenon
  <2> HIDE DEF m
  <2>3. new \in Buffers /\ new.bytes = buf.bytes /\ new.b = 0 /\ new.cap = m
      BY <2>2, Zenon
  <2>4. EndOf(new) + len <= new.cap
      BY <1>1, <2>2, <2>3 DEF EndOf, GetSize
  <2>5. MakeRoom(buf, len) = new
      BY <2>1 DEF Expand, m
  <2> QED
      BY <2>3, <2>4, <2>5, Zenon
<1> QED
    BY <1>1, <1>2, <1>3, <1>4, SMTT(30)

\* AllocRoom and memcpy: the bytes are behind the contents, and past the end of the
\* memory only if they would have fitted behind contents moved to the front.
LEMMA AppendToFacts ==
    ASSUME NEW buf \in Buffers, NEW bytes \in Seq(Byte)
    PROVE  LET new == AppendTo(buf, bytes)
           IN  /\ new \in Buffers /\ new.bytes = buf.bytes \o bytes
               /\ GetSize(new) = GetSize(buf) + Len(bytes)
               /\ Fits(new)
<1> DEFINE room == MakeRoom(buf, Len(bytes))
           new == AppendTo(buf, bytes)
<1>1. Len(bytes) \in Nat
    OBVIOUS
<1>2. /\ room \in Buffers /\ room.bytes = buf.bytes
      /\ EndOf(room) + Len(bytes) <= room.cap \/ GetSize(buf) + Len(bytes) < room.cap
    BY <1>1, MakeRoomFacts, Zenon
<1>3. new = [room EXCEPT !.bytes = room.bytes \o bytes] /\ buf.bytes \o bytes \in Seq(Byte)
    BY DEF AppendTo, Buffers
<1>4. Len(buf.bytes \o bytes) = Len(buf.bytes) + Len(bytes)
    BY DEF Buffers
<1> HIDE DEF room, new
<1>5. /\ new \in Buffers /\ new.bytes = buf.bytes \o bytes
      /\ new.b = room.b /\ new.cap = room.cap
    BY <1>2, <1>3, Zenon DEF Buffers
<1>6. GetSize(new) = GetSize(buf) + Len(bytes)
    BY <1>4, <1>5, Zenon DEF GetSize
<1>7. Fits(new)
    BY <1>1, <1>2, <1>5, <1>6, SMTT(30) DEF Fits, InBounds, EndOf, GetSize, Buffers
<1> QED
    BY <1>5, <1>6, <1>7 DEF new

\* Consume takes bytes from the front, and gives the memory back with the last one.
LEMMA ConsumeFacts ==
    ASSUME NEW buf \in Buffers, NEW n \in 0 .. GetSize(buf), Fits(buf)
    PROVE  LET new == Consume(buf, n)
           IN  /\ new \in Buffers /\ new.bytes = SubSeq(buf.bytes, n + 1, Len(buf.bytes))
               /\ GetSize(new) = GetSize(buf) - n
               /\ Fits(new) /\ (InBounds(buf) => InBounds(new))
               /\ IsEmpty(new) => new = Cleared
<1>1. /\ buf.b \in Nat /\ buf.cap \in Nat /\ buf.bytes \in Seq(Byte) /\ n \in Nat
      /\ GetSize(buf) = Len(buf.bytes) /\ Len(buf.bytes) \in Nat /\ n <= Len(buf.bytes)
    BY DEF Buffers, GetSize
<1>2. CASE n = GetSize(buf)
  <2>1. Consume(buf, n) = Cleared
      BY <1>2, Zenon DEF Consume
  <2>2. SubSeq(buf.bytes, n + 1, Len(buf.bytes)) = <<>>
      BY <1>1, <1>2, SubSeqEmpty, SMTT(30)
  <2>3. /\ Cleared \in Buffers /\ Cleared.bytes = <<>> /\ GetSize(Cleared) = 0
        /\ InBounds(Cleared)
      BY DEF Cleared, Buffers, GetSize, InBounds, EndOf
  <2>4. GetSize(buf) - n = 0
      BY <1>1, <1>2
  <2> QED
      BY <2>1, <2>2, <2>3, <2>4, Zenon DEF Fits
<1>3. CASE n # GetSize(buf)
  <2> DEFINE rest == SubSeq(buf.bytes, n + 1, Len(buf.bytes))
             new == [buf EXCEPT !.b = buf.b + n, !.bytes = rest]
  <2>1. Consume(buf, n) = new
      BY <1>3 DEF Consume
  <2>2. rest \in Seq(Byte) /\ Len(rest) = Len(buf.bytes) - n
    <3>1. \A i \in n + 1 .. Len(buf.bytes) : buf.bytes[i] \in Byte
        BY <1>1, SMTT(30)
    <3> QED
        BY <1>1, <1>3, <3>1, SubSeqProperties, SMTT(30)
  <2> HIDE DEF rest
  <2>3. new \in Buffers /\ new.bytes = rest /\ new.b = buf.b + n /\ new.cap = buf.cap
    <3>1. buf.b + n \in Nat
        BY <1>1, SMTT(30)
    <3> QED
        BY <2>2, <3>1, Zenon DEF Buffers
  <2> HIDE DEF new
  <2>4. GetSize(new) = GetSize(buf) - n
      BY <1>1, <2>2, <2>3, Zenon DEF GetSize
  <2>5. Fits(new) /\ (InBounds(buf) => InBounds(new))
    <3>1. buf.b \in Nat /\ GetSize(buf) \in Nat /\ n \in Nat /\ buf.cap \in Nat
        BY <1>1
    <3>2. EndOf(new) = EndOf(buf)
      <4>1. EndOf(buf) = buf.b + GetSize(buf) /\ EndOf(new) = new.b + GetSize(new)
          BY Zenon DEF EndOf
      <4>2. (buf.b + n) + (GetSize(buf) - n) = buf.b + GetSize(buf)
          BY ONLY <3>1
      <4>3. EndOf(new) = (buf.b + n) + (GetSize(buf) - n)
          BY <2>3, <2>4, <4>1, Zenon
      <4> QED
          BY <4>1, <4>2, <4>3, Zenon
    <3>3. GetSize(buf) < buf.cap => GetSize(new) < new.cap
      <4>1. \A x, y, z \in Nat : x < y => x - z < y
          OBVIOUS
      <4> QED
          BY <2>3, <2>4, <3>1, <4>1, Zenon
    <3> QED
        BY <2>3, <3>2, <3>3, Zenon DEF Fits, InBounds
  <2>6. ~IsEmpty(new)
      BY <1>1, <1>3, <2>4 DEF IsEmpty
  <2> QED
      BY <2>1, <2>3, <2>4, <2>5, <2>6, Zenon DEF rest
<1> QED
    BY <1>2, <1>3

\* Absorb puts the other buffer's bytes behind its own.
LEMMA AbsorbFacts ==
    ASSUME NEW buf \in Buffers, NEW other \in Buffers, Fits(other), ~IsEmpty(other)
    PROVE  LET new == Absorb(buf, other)
           IN  /\ new \in Buffers /\ new.bytes = buf.bytes \o other.bytes
               /\ Fits(new) /\ ~IsEmpty(new)
<1>1. buf.bytes \in Seq(Byte) /\ other.bytes \in Seq(Byte)
    BY DEF Buffers
<1>2. CASE IsEmpty(buf)
  <2>1. buf.bytes = <<>>
      BY <1>1, <1>2, EmptySeq DEF IsEmpty, GetSize
  <2>2. buf.bytes \o other.bytes = other.bytes
      BY <1>1, <2>1, ConcatEmptySeq
  <2> QED
      BY <1>2, <2>2 DEF Absorb
<1>3. CASE ~IsEmpty(buf)
  <2>1. Absorb(buf, other) = AppendTo(buf, other.bytes)
      BY <1>3 DEF Absorb
  <2>2. LET new == AppendTo(buf, other.bytes)
        IN  /\ new \in Buffers /\ new.bytes = buf.bytes \o other.bytes
            /\ GetSize(new) = GetSize(buf) + Len(other.bytes) /\ Fits(new)
      BY <1>1, AppendToFacts, Zenon
  <2>3. GetSize(buf) + Len(other.bytes) # 0
    <3>1. Len(buf.bytes) \in Nat /\ Len(other.bytes) \in Nat /\ Len(buf.bytes) # 0
        BY <1>1, <1>3 DEF IsEmpty, GetSize
    <3>2. \A x, y \in Nat : x # 0 => x + y # 0
        OBVIOUS
    <3> QED
        BY <3>1, <3>2, Zenon DEF GetSize
  <2> QED
      BY <2>1, <2>2, <2>3, Zenon DEF IsEmpty
<1> QED
    BY <1>2, <1>3, Zenon

-----------------------------------------------------------------------------
(* Sequences of bytes.                                                      *)

\* Bytes joined to bytes.
LEMMA Associative ==
    ASSUME NEW s \in Seq(Byte), NEW t \in Seq(Byte), NEW u \in Seq(Byte)
    PROVE  /\ s \o t \in Seq(Byte) /\ Len(s \o t) = Len(s) + Len(t)
           /\ (s \o t) \o u = s \o (t \o u)
<1>1. s \o t \in Seq(Byte) /\ Len(s \o t) = Len(s) + Len(t)
    BY ConcatProperties
<1>2. (s \o t) \o u = s \o (t \o u)
    BY ConcatAssociative, SMTT(30)
<1> QED
    BY <1>1, <1>2, Zenon

Joined(s, t, u) == s \o t \in Seq(Byte) /\ (s \o t) \o u = s \o (t \o u)

\* The order in which bytes are joined does not matter.
LEMMA AllJoined ==
    ASSUME NEW s \in Seq(Byte), NEW t \in Seq(Byte), NEW u \in Seq(Byte)
    PROVE  Joined(s, t, u)
BY Associative, ZenonT(30) DEF Joined

\* Bytes moved from the front of one sequence to the end of another.
LEMMA Moved ==
    ASSUME NEW w \in Seq(Byte), NEW o \in Seq(Byte), NEW n \in 0 .. Len(o)
    PROVE  /\ SubSeq(o, 1, n) \in Seq(Byte) /\ SubSeq(o, n + 1, Len(o)) \in Seq(Byte)
           /\ Len(SubSeq(o, n + 1, Len(o))) = Len(o) - n
           /\ w \o SubSeq(o, 1, n) \in Seq(Byte)
           /\ (w \o SubSeq(o, 1, n)) \o SubSeq(o, n + 1, Len(o)) = w \o o
<1> DEFINE front == SubSeq(o, 1, n)
           back == SubSeq(o, n + 1, Len(o))
<1>1. Len(o) \in Nat /\ n \in Nat /\ n <= Len(o) /\ \A i \in 1 .. Len(o) : o[i] \in Byte
    OBVIOUS
<1>2. front \in Seq(Byte)
    BY <1>1, SubSeqProperties
<1>3. back \in Seq(Byte) /\ Len(back) = Len(o) - n
  <2>1. \A i \in n + 1 .. Len(o) : o[i] \in Byte
      BY <1>1
  <2>2. back \in Seq(Byte) /\ Len(back) = IF n + 1 <= Len(o) THEN Len(o) - (n + 1) + 1 ELSE 0
      BY <1>1, <2>1, SubSeqProperties
  <2> QED
      BY <1>1, <2>2
<1>4. front \o back = o
  <2>1. 1 \in 1 .. Len(o) + 1 /\ n \in 1 - 1 .. Len(o) /\ Len(o) \in n .. Len(o)
      BY <1>1
  <2>2. front \o back = SubSeq(o, 1, Len(o))
      BY <2>1, ConcatAdjacentSubSeq, Zenon
  <2> QED
      BY <2>2, SubSeqFull, Zenon
<1> HIDE DEF front, back
<1>5. back \in Seq(Byte)
    BY <1>3, Zenon
<1>6. w \o front \in Seq(Byte) /\ (w \o front) \o back = w \o (front \o back)
  <2>1. Joined(w, front, back)
      BY <1>2, <1>5, AllJoined, Zenon
  <2> QED
      BY <2>1, Zenon DEF Joined
<1> QED
    BY <1>2, <1>3, <1>4, <1>5, <1>6, Zenon DEF front, back

First(m) == [i \in 1 .. m |-> i]
After(m, k) == [i \in 1 .. k |-> m + i]

\* The next k bytes behind the first m.
LEMMA NextBytes ==
    ASSUME NEW w \in Seq(Byte), NEW o \in Seq(Byte), NEW m \in Nat, NEW k \in Nat,
           w \o o = First(m)
    PROVE  /\ After(m, k) \in Seq(Byte) /\ Len(After(m, k)) = k
           /\ w \o (o \o After(m, k)) = First(m + k)
<1> DEFINE a == First(m)
           b == After(m, k)
           c == First(m + k)
<1>1. a \in Seq(Byte) /\ Len(a) = m /\ \A i \in 1 .. m : a[i] = i
    BY DEF Byte, First, After
<1>2. b \in Seq(Byte) /\ Len(b) = k /\ \A i \in 1 .. k : b[i] = m + i
    BY DEF Byte, First, After
<1>3. c \in Seq(Byte) /\ Len(c) = m + k /\ \A i \in 1 .. m + k : c[i] = i
    BY DEF Byte, First, After
<1>4. w \o o = a
    OBVIOUS
<1> HIDE DEF a, b, c
<1>5. a \o b = c
  <2>1. /\ a \o b \in Seq(Byte) /\ Len(a \o b) = Len(a) + Len(b)
        /\ \A i \in 1 .. Len(a) + Len(b) :
              (a \o b)[i] = IF i <= Len(a) THEN a[i] ELSE b[i - Len(a)]
    <3>1. a \in Seq(Byte) /\ b \in Seq(Byte)
        BY <1>1, <1>2
    <3> QED
        BY <3>1, ConcatProperties
  <2>2. \A i \in 1 .. m + k : (a \o b)[i] = c[i]
    <3> SUFFICES ASSUME NEW i \in 1 .. m + k PROVE (a \o b)[i] = i
        BY <1>3, Zenon
    <3>1. (a \o b)[i] = IF i <= m THEN a[i] ELSE b[i - m]
        BY <1>1, <1>2, <2>1, Zenon
    <3>2. CASE i <= m
        BY <1>1, <3>1, <3>2
    <3>3. CASE ~(i <= m)
      <4>1. i - m \in 1 .. k
          BY <3>3
      <4>2. b[i - m] = m + (i - m)
          BY <1>2, <4>1, Zenon
      <4> QED
          BY <3>1, <3>3, <4>2
    <3> QED
        BY <3>2, <3>3, Zenon
  <2> QED
      BY <1>1, <1>2, <1>3, <2>1, <2>2, SeqEqual, ZenonT(30)
<1>6. (w \o o) \o b = w \o (o \o b)
  <2>1. b \in Seq(Byte)
      BY <1>2
  <2>2. Joined(w, o, b)
      BY <2>1, AllJoined, Zenon
  <2> QED
      BY <2>2, Zenon DEF Joined
<1> QED
    BY <1>2, <1>4, <1>5, <1>6, Zenon DEF b, c

-----------------------------------------------------------------------------
(* Sending.                                                                 *)

\* The bytes a caller wants sent come next.
LEMMA BytesNext ==
    ASSUME Types, BytesInOrder, NEW k \in Nat
    PROVE  /\ Bytes(k) \in Seq(Byte) /\ Len(Bytes(k)) = k
           /\ wire \o (output.bytes \o Bytes(k)) = [i \in 1 .. accepted + k |-> i]
<1>1. wire \in Seq(Byte) /\ output.bytes \in Seq(Byte) /\ accepted \in Nat
    BY DEF Types, Buffers
<1>2. wire \o output.bytes = First(accepted) /\ Bytes(k) = After(accepted, k)
    BY DEF BytesInOrder, First, Bytes, After
<1>3. /\ After(accepted, k) \in Seq(Byte) /\ Len(After(accepted, k)) = k
      /\ wire \o (output.bytes \o After(accepted, k)) = First(accepted + k)
    BY <1>1, <1>2, NextBytes, ZenonT(30)
<1> QED
    BY <1>2, <1>3 DEF First

\* What ISend may write.
LEMMA WrittenFacts ==
    ASSUME NEW bytes \in Seq(Byte), NEW n \in Written(bytes)
    PROVE  n \in 0 .. Len(bytes) /\ (n > 0 => channel = "open" /\ ~broken)
BY DEF Written

\* An empty buffer holds no bytes.
LEMMA EmptyBytes ==
    ASSUME NEW buf \in Buffers, IsEmpty(buf)
    PROVE  buf.bytes = <<>>
BY EmptySeq DEF Buffers, IsEmpty, GetSize

\* SendInLoop: straight to the socket only when output_ is empty.
LEMMA SendInLoopSends ==
    ASSUME Types, Sending, NEW k \in Nat \ {0}, SendInLoop(k), UNCHANGED <<channel, broken>>
    PROVE  /\ output' \in Buffers /\ wire' \in Seq(Byte) /\ accepted' \in Nat
           /\ writing' \in BOOLEAN /\ Sending'
<1> DEFINE B == Bytes(k)
<1>1. /\ output \in Buffers /\ wire \in Seq(Byte) /\ accepted \in Nat /\ writing \in BOOLEAN
      /\ output.bytes \in Seq(Byte) /\ accepted' = accepted + k /\ accepted' \in Nat
    BY DEF Types, Buffers, SendInLoop
<1>2. /\ B \in Seq(Byte) /\ Len(B) = k
      /\ wire \o (output.bytes \o B) = [i \in 1 .. accepted' |-> i]
    BY <1>1, BytesNext, Zenon DEF Sending
<1> HIDE DEF B
<1>3. CASE IsEmpty(output)
  <2>1. PICK n \in Written(B) :
            /\ ISend(B, n)
            /\ output' = AppendRest(output, B, n)
            /\ writing' = (writing \/ WouldBlock(B, n))
      BY <1>3, Zenon DEF SendInLoop, B
  <2>2. n \in 0 .. Len(B) /\ n \in Nat /\ n <= k
      BY <1>2, WrittenFacts
  <2> DEFINE rest == SubSeq(B, n + 1, Len(B))
  <2>3. output.bytes = <<>> /\ output = Cleared /\ GetSize(output) = 0
      BY <1>1, <1>3, EmptyBytes, Zenon DEF Sending, OutputFits, IsEmpty
  <2>4. /\ rest \in Seq(Byte) /\ Len(rest) = k - n
        /\ wire' = wire \o SubSeq(B, 1, n) /\ wire' \in Seq(Byte)
        /\ wire' \o rest = wire \o B
    <3>1. wire' = wire \o SubSeq(B, 1, n)
        BY <2>1 DEF ISend
    <3>2. /\ rest \in Seq(Byte) /\ Len(rest) = Len(B) - n
          /\ wire \o SubSeq(B, 1, n) \in Seq(Byte)
          /\ (wire \o SubSeq(B, 1, n)) \o rest = wire \o B
      <4>1. wire \in Seq(Byte) /\ B \in Seq(Byte) /\ n \in 0 .. Len(B)
          BY <1>1, <1>2, <2>2, Zenon
      <4> QED
          BY ONLY <4>1, Moved, ZenonT(30)
    <3> QED
        BY <1>2, <3>1, <3>2, Zenon
  <2> HIDE DEF rest
  <2>5. /\ output' \in Buffers /\ output'.bytes = rest /\ Fits(output')
        /\ IsEmpty(output') => n = k /\ output' = Cleared
    <3>1. CASE n = k
      <4>1. output' = output
          BY <1>2, <2>1, <3>1, SMTT(30) DEF AppendRest
      <4>2. rest = <<>>
          BY <2>2, <2>4, <3>1, EmptySeq
      <4> QED
          BY <1>1, <2>3, <3>1, <4>1, <4>2, SMTT(30) DEF Sending, OutputFits, Fits, Sound
    <3>2. CASE n # k
      <4>1. output' = AppendTo(output, rest)
          BY <1>2, <2>1, <3>2, Zenon DEF AppendRest, rest
      <4>2. /\ output' \in Buffers /\ output'.bytes = output.bytes \o rest
            /\ GetSize(output') = GetSize(output) + Len(rest) /\ Fits(output')
          BY <1>1, <2>4, <4>1, AppendToFacts, Zenon
      <4>3. output.bytes \o rest = rest
          BY <2>3, <2>4, ConcatEmptySeq, SMTT(30)
      <4>4. ~IsEmpty(output')
          BY <2>2, <2>3, <2>4, <3>2, <4>2, SMTT(30) DEF IsEmpty
      <4> QED
          BY <4>2, <4>3, <4>4, Zenon
    <3> QED
        BY <3>1, <3>2, SMTT(30)
  <2>6. BytesInOrder'
    <3>1. output.bytes \o B = B
        BY <1>2, <2>3, ConcatEmptySeq
    <3> QED
        BY <1>2, <2>4, <2>5, <3>1, Zenon DEF BytesInOrder
  <2>7. OutputFits'
      BY <2>5 DEF OutputFits, Fits, Sound
  <2>8. writing' \in BOOLEAN /\ Writer'
    <3>1. writing' \in BOOLEAN
        BY <1>1, <2>1 DEF WouldBlock
    <3>2. CASE n = k
      <4>1. output' = output
          BY <1>2, <2>1, <3>2 DEF AppendRest
      <4> QED
          BY <1>3, <3>1, <4>1, Zenon DEF Writer
    <3>3. CASE n # k
      <4>1. n < Len(B)
          BY <1>2, <2>2, <3>3, SMTT(30)
      <4> QED
          BY <2>1, <3>1, <4>1, Zenon DEF Writer, WouldBlock
    <3> QED
        BY <3>1, <3>2, <3>3, SMTT(30)
  <2> QED
      BY <1>1, <2>4, <2>5, <2>6, <2>7, <2>8, Zenon DEF Sending
<1>4. CASE ~IsEmpty(output)
  <2>1. output' = AppendTo(output, B) /\ UNCHANGED <<wire, writing>>
      BY <1>4 DEF SendInLoop, B
  <2>2. /\ output' \in Buffers /\ output'.bytes = output.bytes \o B
        /\ GetSize(output') = GetSize(output) + Len(B) /\ Fits(output')
      BY <1>1, <1>2, <2>1, AppendToFacts, Zenon
  <2>3. ~IsEmpty(output')
    <3>1. GetSize(output) \in Nat
        BY <1>1 DEF GetSize
    <3> QED
        BY <1>2, <2>2, <3>1 DEF IsEmpty
  <2>4. BytesInOrder'
      BY <1>2, <2>1, <2>2, Zenon DEF BytesInOrder
  <2>5. OutputFits'
      BY <2>2, <2>3, Zenon DEF OutputFits, Fits, Sound
  <2>6. Writer'
      BY <1>4, <2>1, Zenon DEF Sending, Writer
  <2> QED
      BY <1>1, <2>1, <2>2, <2>4, <2>5, <2>6, ZenonT(30) DEF Sending
<1> QED
    BY <1>3, <1>4

\* HandleWrite, of a connection that is made: output_ goes to the socket.
LEMMA HandleWriteSends ==
    ASSUME Types, Sending, NEW n \in Written(output.bytes), ISend(output.bytes, n),
           output' = Consume(output, n), writing' = ~IsEmpty(output'), UNCHANGED accepted
    PROVE  /\ output' \in Buffers /\ wire' \in Seq(Byte) /\ accepted' \in Nat
           /\ writing' \in BOOLEAN /\ Sending'
<1>1. /\ output \in Buffers /\ wire \in Seq(Byte) /\ accepted \in Nat
      /\ output.bytes \in Seq(Byte) /\ GetSize(output) = Len(output.bytes) /\ Fits(output)
    BY Zenon DEF Types, Buffers, GetSize, Sending, OutputFits, Fits, Sound
<1>2. n \in 0 .. GetSize(output)
    BY <1>1, WrittenFacts
<1>3. /\ output' \in Buffers
      /\ output'.bytes = SubSeq(output.bytes, n + 1, Len(output.bytes))
      /\ Fits(output') /\ (IsEmpty(output') => output' = Cleared)
    BY <1>1, <1>2, ConsumeFacts, Zenon
<1>4. /\ wire' \in Seq(Byte) /\ wire' \o output'.bytes = wire \o output.bytes
  <2>1. n \in 0 .. Len(output.bytes)
      BY <1>1, <1>2
  <2>2. /\ wire \o SubSeq(output.bytes, 1, n) \in Seq(Byte)
        /\ (wire \o SubSeq(output.bytes, 1, n)) \o SubSeq(output.bytes, n + 1, Len(output.bytes))
              = wire \o output.bytes
      BY <1>1, <2>1, Moved, Zenon
  <2> QED
      BY <1>3, <2>2, Zenon DEF ISend
<1>5. BytesInOrder' /\ OutputFits' /\ Writer'
    BY <1>3, <1>4, Zenon DEF Sending, BytesInOrder, OutputFits, Fits, Sound, Writer
<1> QED
    BY <1>1, <1>3, <1>4, <1>5, Zenon DEF Sending

\* A message that is not written yet, in a buffer: what ISend writes of it and what
\* stays in the buffer is the message.
LEMMA ISendFacts ==
    ASSUME NEW w \in Seq(Byte), NEW m \in Buffers, Fits(m), NEW n \in 0 .. GetSize(m)
    PROVE  LET rest == Consume(m, n)
           IN  /\ w \o SubSeq(m.bytes, 1, n) \in Seq(Byte)
               /\ rest \in Buffers /\ Fits(rest)
               /\ (w \o SubSeq(m.bytes, 1, n)) \o rest.bytes = w \o m.bytes
               /\ IsEmpty(rest) => n = GetSize(m) /\ rest = Cleared
               /\ n = GetSize(m) => IsEmpty(rest)
<1>1. m.bytes \in Seq(Byte) /\ GetSize(m) = Len(m.bytes) /\ Len(m.bytes) \in Nat
    BY DEF Buffers, GetSize
<1>2. LET rest == Consume(m, n)
      IN  /\ rest \in Buffers /\ rest.bytes = SubSeq(m.bytes, n + 1, Len(m.bytes))
          /\ GetSize(rest) = GetSize(m) - n /\ Fits(rest)
          /\ IsEmpty(rest) => rest = Cleared
    BY ConsumeFacts
<1>3. n \in 0 .. Len(m.bytes) /\ n \in Nat
    BY <1>1
<1>4. /\ w \o SubSeq(m.bytes, 1, n) \in Seq(Byte)
      /\ (w \o SubSeq(m.bytes, 1, n)) \o SubSeq(m.bytes, n + 1, Len(m.bytes)) = w \o m.bytes
    BY <1>1, <1>3, Moved, Zenon
<1>5. IsEmpty(Consume(m, n)) <=> n = GetSize(m)
    BY <1>1, <1>2, <1>3, SMTT(30) DEF IsEmpty
<1> QED
    BY <1>2, <1>4, <1>5, Zenon

\* SendOutput(): the bytes are put into output_ before anything is written.
LEMMA SendOutputSends ==
    ASSUME Types, Sending, NEW k \in Nat \ {0}, SendBuffer(k, TRUE)
    PROVE  /\ output' \in Buffers /\ wire' \in Seq(Byte) /\ accepted' \in Nat
           /\ writing' \in BOOLEAN /\ Sending'
<1> DEFINE B == Bytes(k)
           m == AppendTo(output, B)
<1>1. /\ output \in Buffers /\ wire \in Seq(Byte) /\ writing \in BOOLEAN
      /\ accepted' = accepted + k /\ accepted' \in Nat /\ GetSize(output) \in Nat
    BY DEF Types, Buffers, SendBuffer, GetSize
<1>2. /\ B \in Seq(Byte) /\ Len(B) = k
      /\ wire \o (output.bytes \o B) = [i \in 1 .. accepted' |-> i]
    BY <1>1, BytesNext, Zenon DEF Sending
<1> HIDE DEF B
<1>3. /\ m \in Buffers /\ m.bytes = output.bytes \o B /\ Fits(m)
      /\ GetSize(m) = GetSize(output) + k /\ ~IsEmpty(m)
  <2>1. /\ m \in Buffers /\ m.bytes = output.bytes \o B /\ Fits(m)
        /\ GetSize(m) = GetSize(output) + k
      BY <1>1, <1>2, AppendToFacts, ZenonT(30)
  <2> QED
      BY <1>1, <2>1 DEF IsEmpty
<1>4. \/ writing /\ output' = m /\ UNCHANGED <<wire, writing>>
      \/ \E n \in Written(m.bytes) :
            ISend(m.bytes, n) /\ output' = Consume(m, n) /\ writing' = (n < GetSize(m))
    BY DEF SendBuffer, B
<1> HIDE DEF m
<1>5. CASE writing /\ output' = m /\ UNCHANGED <<wire, writing>>
    BY <1>1, <1>2, <1>3, <1>5, Zenon DEF Sending, BytesInOrder, OutputFits, Fits, Sound, Writer
<1>6. ASSUME NEW n \in Written(m.bytes), ISend(m.bytes, n), output' = Consume(m, n),
             writing' = (n < GetSize(m))
      PROVE  /\ output' \in Buffers /\ wire' \in Seq(Byte) /\ accepted' \in Nat
             /\ writing' \in BOOLEAN /\ Sending'
  <2>1. n \in 0 .. GetSize(m) /\ GetSize(m) \in Nat
    <3>1. m.bytes \in Seq(Byte) /\ GetSize(m) = Len(m.bytes)
        BY <1>3, Zenon DEF Buffers, GetSize
    <3>2. n \in 0 .. Len(m.bytes)
        BY <3>1, WrittenFacts
    <3> QED
        BY <3>1, <3>2
  <2>2. /\ wire' \in Seq(Byte) /\ output' \in Buffers /\ Fits(output')
        /\ wire' \o output'.bytes = wire \o m.bytes
        /\ IsEmpty(output') => output' = Cleared
        /\ n = GetSize(m) => IsEmpty(output')
      BY <1>1, <1>3, <1>6, <2>1, ISendFacts, Zenon DEF ISend
  <2>3. BytesInOrder' /\ OutputFits'
      BY <1>2, <1>3, <2>2, Zenon DEF BytesInOrder, OutputFits, Fits, Sound
  <2>4. writing' \in BOOLEAN /\ Writer'
    <3>1. ~IsEmpty(output') => n < GetSize(m)
        BY <2>1, <2>2
    <3>2. writing' \in BOOLEAN
        BY <1>6
    <3>3. n < GetSize(m) => writing'
        BY <1>6, Zenon
    <3> QED
        BY <3>1, <3>2, <3>3, Zenon DEF Writer
  <2> QED
      BY <1>1, <2>2, <2>3, <2>4, Zenon DEF Sending
<1> QED
    BY <1>4, <1>5, <1>6, ZenonT(30)

\* Send(Buffer&): the message goes behind what is in output_, and straight to the socket
\* only when there is no write event, hence nothing in output_ that could be written.
LEMMA SendOtherSends ==
    ASSUME Types, Sending, NEW k \in Nat \ {0}, SendBuffer(k, FALSE)
    PROVE  /\ output' \in Buffers /\ wire' \in Seq(Byte) /\ accepted' \in Nat
           /\ writing' \in BOOLEAN /\ Sending'
<1> DEFINE B == Bytes(k)
           m == AppendTo(Cleared, B)
           Keep(rest) == output' = IF IsEmpty(rest) THEN output ELSE Absorb(output, rest)
<1>1. /\ output \in Buffers /\ wire \in Seq(Byte) /\ writing \in BOOLEAN
      /\ accepted' = accepted + k /\ accepted' \in Nat /\ UNCHANGED <<channel, broken>>
      /\ output.bytes \in Seq(Byte)
    BY SMTT(30) DEF Types, Buffers, SendBuffer
<1>2. /\ B \in Seq(Byte) /\ Len(B) = k
      /\ wire \o (output.bytes \o B) = [i \in 1 .. accepted' |-> i]
    BY <1>1, BytesNext, Zenon DEF Sending
<1> HIDE DEF B
<1>3. m \in Buffers /\ m.bytes = B /\ Fits(m) /\ GetSize(m) = k /\ ~IsEmpty(m)
  <2>1. Cleared \in Buffers /\ Cleared.bytes = <<>> /\ GetSize(Cleared) = 0
      BY EmptySeq DEF Cleared, Buffers, GetSize
  <2>2. m \in Buffers /\ m.bytes = <<>> \o B /\ Fits(m) /\ GetSize(m) = 0 + k
      BY <1>2, <2>1, AppendToFacts, Zenon
  <2>3. <<>> \o B = B
      BY <1>2, ConcatEmptySeq, ZenonT(30)
  <2> QED
      BY <2>2, <2>3, SMTT(30) DEF IsEmpty
<1>4. \/ writing /\ Keep(m) /\ UNCHANGED <<wire, writing>>
      \/ /\ ~writing
         /\ \E n \in Written(m.bytes) :
               ISend(m.bytes, n) /\ Keep(Consume(m, n)) /\ writing' = (n < GetSize(m))
    BY DEF SendBuffer, B
<1> HIDE DEF m
<1>5. CASE writing /\ Keep(m) /\ UNCHANGED <<wire, writing>>
  <2>1. output' = Absorb(output, m)
      BY <1>3, <1>5, Zenon
  <2>2. /\ output' \in Buffers /\ output'.bytes = output.bytes \o B
        /\ Fits(output') /\ ~IsEmpty(output')
      BY <1>1, <1>3, <2>1, AbsorbFacts, Zenon
  <2> QED
      BY <1>1, <1>2, <1>5, <2>2, Zenon DEF Sending, BytesInOrder, OutputFits, Fits, Sound, Writer
<1>6. ASSUME ~writing, NEW n \in Written(m.bytes), ISend(m.bytes, n), Keep(Consume(m, n)),
             writing' = (n < GetSize(m))
      PROVE  /\ output' \in Buffers /\ wire' \in Seq(Byte) /\ accepted' \in Nat
             /\ writing' \in BOOLEAN /\ Sending'
  <2> DEFINE rest == Consume(m, n)
  <2>1. n \in 0 .. GetSize(m) /\ n \in Nat /\ (n > 0 => channel = "open" /\ ~broken)
      BY <1>2, <1>3, WrittenFacts
  <2>2. /\ wire' \in Seq(Byte) /\ rest \in Buffers /\ Fits(rest)
        /\ wire' \o rest.bytes = wire \o B
        /\ IsEmpty(rest) <=> n = k
        /\ rest.bytes \in Seq(Byte)
      BY <1>1, <1>3, <1>6, <2>1, ISendFacts, Zenon DEF ISend, Buffers
  <2>3. channel = "open" /\ ~broken => output.bytes = <<>> /\ output = Cleared
      BY <1>1, <1>6, EmptyBytes, Zenon DEF Sending, Writer, OutputFits
  <2>4. output' = IF IsEmpty(rest) THEN output ELSE Absorb(output, rest)
      BY <1>6, Zenon
  <2>5. n = 0 => wire' = wire
    <3>1. SubSeq(m.bytes, 1, 0) = <<>>
        BY SubSeqEmpty
    <3> QED
        BY <1>1, <1>6, <3>1, ConcatEmptySeq, Zenon DEF ISend
  <2>6. n = 0 => rest.bytes = B
    <3>1. n = 0 => rest.bytes = SubSeq(B, 1, Len(B))
        BY <1>3, <2>1, ConsumeFacts, SMTT(30)
    <3> QED
        BY <1>2, <3>1, SubSeqFull, ZenonT(30)
  <2> HIDE DEF rest
  <2>7. CASE IsEmpty(rest)
    <3>1. output' = output /\ n = k /\ output.bytes = <<>> /\ output = Cleared
        BY <2>1, <2>2, <2>3, <2>4, <2>7, SMTT(30)
    <3>2. rest.bytes = <<>>
        BY <2>2, <2>7, EmptyBytes, Zenon
    <3>3. output.bytes \o B = B
        BY <1>2, <3>1, ConcatEmptySeq, Zenon
    <3>4. BytesInOrder'
        BY <1>2, <2>2, <3>1, <3>2, <3>3, ZenonT(30) DEF BytesInOrder
    <3>5. writing' \in BOOLEAN /\ OutputFits' /\ Writer'
        BY <1>1, <1>6, <3>1, SMTT(30) DEF Sending, OutputFits, Sound, Writer
    <3> QED
        BY <1>1, <2>2, <3>1, <3>4, <3>5, ZenonT(30) DEF Sending
  <2>8. CASE ~IsEmpty(rest)
    <3>1. /\ output' \in Buffers /\ output'.bytes = output.bytes \o rest.bytes
          /\ Fits(output') /\ ~IsEmpty(output')
        BY <1>1, <2>2, <2>4, <2>8, AbsorbFacts, Zenon
    <3>2. BytesInOrder'
      <4>1. CASE n = 0
          BY <1>2, <2>5, <2>6, <3>1, <4>1, Zenon DEF BytesInOrder
      <4>2. CASE n # 0
        <5>1. output.bytes = <<>>
            BY <2>1, <2>3, <4>2, SMTT(30)
        <5>2. output.bytes \o B = B /\ output.bytes \o rest.bytes = rest.bytes
            BY <1>2, <2>2, <5>1, ConcatEmptySeq, Zenon
        <5> QED
            BY <1>2, <2>2, <3>1, <5>2, ZenonT(30) DEF BytesInOrder
      <4> QED
          BY <4>1, <4>2
    <3>3. writing' = TRUE
      <4>1. n # k
          BY <2>2, <2>8, Zenon
      <4>2. n < GetSize(m)
          BY <1>3, <2>1, <4>1
      <4> QED
          BY <1>6, <4>2, Zenon
    <3> QED
        BY <1>1, <2>2, <3>1, <3>2, <3>3, Zenon DEF Sending, OutputFits, Fits, Sound, Writer
  <2> QED
      BY <2>7, <2>8, Zenon
<1> QED
    BY <1>4, <1>5, <1>6, ZenonT(30)

\* What does not send keeps the bytes, and a connection that is no longer open or is
\* broken stays so.
LEMMA SendingKept ==
    ASSUME Sending, UNCHANGED <<output, wire, accepted, writing>>,
           broken => broken', channel' = "open" => channel = "open"
    PROVE  Sending'
BY Zenon DEF Sending, BytesInOrder, OutputFits, Sound, Writer

-----------------------------------------------------------------------------
(* The actions.                                                             *)

\* Send writes what it can, and queues the rest with the write event on.
LEMMA SendIInv ==
    ASSUME IInv, NEW k \in 1 .. MaxSend,
           Send(k) \/ SendBuffer(k, TRUE) \/ SendBuffer(k, FALSE)
    PROVE  IInv'
<1>1. k \in Nat \ {0} /\ Types /\ Sending
    BY TcpConnAssumption DEF IInv
<1>2. /\ UNCHANGED <<state, channel, revents, at, received, consumed, offered, stopped, inbox,
                     broken, calls>>
      /\ SendInLoop(k) \/ SendBuffer(k, TRUE) \/ SendBuffer(k, FALSE)
    BY Zenon DEF Send, SendBuffer, readVars, peerVars
<1>3. /\ output' \in Buffers /\ wire' \in Seq(Byte) /\ accepted' \in Nat
      /\ writing' \in BOOLEAN /\ Sending'
    BY <1>1, <1>2, SendInLoopSends, SendOutputSends, SendOtherSends, Zenon
<1>4. Types'
    BY <1>1, <1>2, <1>3, Zenon DEF Types
<1>5. Offer' /\ Cleaned'
    BY <1>2, Zenon DEF IInv, Offer, Cleaned
<1> QED
    BY <1>3, <1>4, <1>5, Zenon DEF IInv

\* The channel is closed, the connection shut down, or a request made; no callback runs.
LEMMA CloseIInv ==
    ASSUME IInv,
           Close \/ Shutdown \/ ConnectTimeout \/ \E r \in Requests : Request(r)
    PROVE  IInv'
<1>1. /\ UNCHANGED <<writing, revents, at, output, wire, accepted, received, consumed, offered,
                     inbox, calls>>
      /\ state' \in {state, "Closed"} /\ (broken' = broken \/ broken' = TRUE)
      /\ channel' = channel \/ (channel = "open" /\ channel' = "shut")
    BY DEF Close, Shutdown, ConnectTimeout, Request, CloseInLoop, sendVars, readVars, peerVars
<1>5. \/ UNCHANGED <<state, stopped>>
      \/ state' = "Closed" /\ at # "input" /\ UNCHANGED stopped
      \/ state' = "Closed" /\ stopped' = (stopped \/ at = "input")
    BY Zenon DEF Close, Shutdown, ConnectTimeout, Request, UserCode, readVars
<1>6. stopped' \in BOOLEAN
    BY <1>5, Zenon DEF IInv, Types
<1>2. Types'
    BY <1>1, <1>6, ZenonT(30) DEF IInv, Types
<1>3. Sending'
  <2>1. broken => broken'
      BY <1>1, Zenon
  <2>2. channel' = "open" => channel = "open"
      BY <1>1, Zenon
  <2> QED
      BY <1>1, <2>1, <2>2, SendingKept, Zenon DEF IInv
<1>4. Offer' /\ Cleaned'
  <2>1. Offer'
    <3>1. CASE UNCHANGED <<state, stopped>>
        BY <1>1, <3>1, Zenon DEF IInv, Offer
    <3>2. CASE state' = "Closed" /\ at # "input" /\ UNCHANGED stopped
        BY <1>1, <3>2, Zenon DEF IInv, Offer
    <3>3. CASE state' = "Closed" /\ stopped' = (stopped \/ at = "input")
        BY <1>1, <3>3, Zenon DEF IInv, Offer
    <3> QED
        BY <1>5, <3>1, <3>2, <3>3
  <2>2. Cleaned'
      BY <1>1, Zenon DEF IInv, Cleaned
  <2> QED
      BY <2>1, <2>2
<1> QED
    BY <1>2, <1>3, <1>4, ZenonT(30) DEF IInv

\* The loop thread executes a request.
LEMMA RunRequestIInv ==
    ASSUME IInv, RunRequest
    PROVE  IInv'
<1>1. UNCHANGED <<state, revents, at, received, consumed, offered, stopped, inbox, calls>>
    BY DEF RunRequest, readVars, peerVars
<1>2. CASE SendInLoop(1) /\ UNCHANGED <<channel, broken>>
  <2>1. /\ output' \in Buffers /\ wire' \in Seq(Byte) /\ accepted' \in Nat
        /\ writing' \in BOOLEAN /\ Sending'
      BY <1>2, SendInLoopSends, SMTT(30) DEF IInv
  <2>2. Types'
      BY <1>1, <1>2, <2>1, Zenon DEF IInv, Types
  <2>3. Offer' /\ Cleaned'
      BY <1>1, <1>2, Zenon DEF IInv, Offer, Cleaned
  <2> QED
      BY <2>1, <2>2, <2>3, Zenon DEF IInv
<1>3. CASE /\ UNCHANGED <<writing, sendVars>> /\ (broken' = broken \/ broken' = TRUE)
           /\ channel' = channel \/ (channel = "open" /\ channel' = "shut")
  <2>1. Types'
      BY <1>1, <1>3, ZenonT(30) DEF IInv, Types, sendVars
  <2>2. Sending'
    <3>1. broken => broken'
        BY <1>3, Zenon
    <3>2. channel' = "open" => channel = "open"
        BY <1>3, Zenon
    <3> QED
        BY <1>3, <3>1, <3>2, SendingKept DEF IInv, sendVars
  <2>3. Offer' /\ Cleaned'
      BY <1>1, <1>3, Zenon DEF IInv, Offer, Cleaned
  <2> QED
      BY <2>1, <2>2, <2>3, Zenon DEF IInv
<1> QED
    BY <1>2, <1>3, Zenon DEF RunRequest, CloseInLoop

\* HandleRead enters its loop, or CleanUp begins.
LEMMA HandleReadIInv ==
    ASSUME IInv, HandleRead
    PROVE  IInv'
<1>1. /\ UNCHANGED <<channel, writing, output, accepted, wire, broken, calls, inbox, readVars>>
      /\ at = "loop" /\ revents # {} /\ channel # "gone"
    BY DEF HandleRead, sendVars, peerVars, IInv, Cleaned
<1>2. \/ state' = "Connected" /\ at' = "input" /\ state \in {"HandShakeing", "Connected"}
      \/ state' = "Failed" /\ at' = "cleanup" /\ state = "HandShakeing"
      \/ UNCHANGED <<state, at>>
    BY Zenon DEF HandleRead, HandShakeFails
<1>3. Types'
    BY <1>1, <1>2, Zenon DEF IInv, Types, readVars
<1>4. Offer'
    BY <1>1, <1>2 DEF IInv, Offer, readVars
<1>5. Cleaned'
    BY <1>1, <1>2, Zenon DEF IInv, Cleaned
<1> QED
    BY <1>1, <1>3, <1>4, <1>5, SendingKept, Zenon DEF IInv

\* The loop of HandleRead ends with all that was read offered, in CleanUp, or because
\* another thread's Shutdown() has set the state.
LEMMA ReadRoundIInv ==
    ASSUME IInv, ReadRound
    PROVE  IInv'
<1>1. /\ UNCHANGED <<state, channel, writing, revents, output, accepted, wire, broken, calls,
                     stopped>>
      /\ at = "input"
    BY DEF ReadRound, sendVars
<1>2. /\ received \in Nat /\ consumed \in Nat /\ offered \in Nat /\ inbox \in Nat
      /\ consumed <= offered /\ offered <= received
      /\ state = "Connected" \/ stopped
    BY <1>1, Zenon DEF IInv, Types, Offer
<1>3. Sending' /\ channel # "gone"
  <2>1. channel # "gone"
      BY <1>1, Zenon DEF IInv, Cleaned
  <2> QED
      BY <1>1, <2>1, SendingKept, Zenon DEF IInv
<1>4. at' \in {"input", "loop", "cleanup"}
    BY <1>1, Zenon DEF ReadRound, ReadSome, ReadAgain, ReadEnd, ReadStops
<1>5. Cleaned'
    BY <1>1, <1>3, <1>4, Zenon DEF IInv, Cleaned
<1>6. CASE ReadSome
  <2>1. received' \in Nat /\ inbox' \in Nat /\ received <= received'
      BY <1>2, <1>6 DEF ReadSome
  <2>2. offered <= received'
      BY <1>2, <2>1
  <2>3. UNCHANGED <<at, consumed, offered>>
      BY <1>6, Zenon DEF ReadSome
  <2>4. Types' /\ Offer'
      BY <1>1, <2>1, <2>2, <2>3, Zenon DEF IInv, Types, Offer
  <2> QED
      BY <1>3, <1>5, <2>4, Zenon DEF IInv
<1>7. CASE ReadAgain
  <2>1. /\ at' = "loop" /\ UNCHANGED <<received, inbox>> /\ consumed' \in consumed .. received
        /\ offered' = IF received > consumed THEN received ELSE offered
      BY <1>7, Zenon DEF ReadAgain
  <2>2. offered' = received /\ consumed' \in Nat /\ consumed' <= received
      BY <1>2, <2>1, SMTT(30)
  <2>3. received <= received
      BY <1>2
  <2>4. Types' /\ Offer'
      BY <1>1, <1>2, <2>1, <2>2, <2>3, Zenon DEF IInv, Types, Offer
  <2> QED
      BY <1>3, <1>5, <2>4, Zenon DEF IInv
<1>8. CASE ReadEnd \/ ReadStops
  <2>1. /\ UNCHANGED <<received, consumed, offered, inbox>>
        /\ at' = "cleanup" \/ (at' = "loop" /\ stopped)
      BY <1>2, <1>8, Zenon DEF ReadEnd, ReadStops
  <2>2. Types' /\ Offer'
      BY <1>1, <1>2, <2>1, Zenon DEF IInv, Types, Offer
  <2> QED
      BY <1>3, <1>5, <2>2, Zenon DEF IInv
<1> QED
    BY <1>6, <1>7, <1>8, Zenon DEF ReadRound

\* HandleWrite writes from the front of output_.
LEMMA HandleWriteIInv ==
    ASSUME IInv, HandleWrite
    PROVE  IInv'
<1>1. /\ UNCHANGED <<channel, received, consumed, offered, stopped, inbox, broken, calls>>
      /\ at = "loop" /\ revents # {} /\ channel # "gone"
    BY Zenon DEF HandleWrite, readVars, peerVars, IInv, Cleaned
<1>2. CASE /\ UNCHANGED <<writing, sendVars>>
           /\ state' = state \/ (state = "HandShakeing" /\ state' \in {"Connected", "Failed"})
           /\ at' \in {at, "cleanup"}
  <2>1. Types' /\ Offer'
      BY <1>1, <1>2, Zenon DEF IInv, Types, Offer, sendVars
  <2>2. Cleaned'
      BY <1>1, <1>2, Zenon DEF IInv, Cleaned
  <2> QED
      BY <1>1, <1>2, <2>1, <2>2, SendingKept, Zenon DEF IInv, sendVars
<1>3. CASE /\ \E n \in Written(output.bytes) :
                 /\ ISend(output.bytes, n)
                 /\ output' = Consume(output, n)
                 /\ writing' = ~IsEmpty(output')
           /\ UNCHANGED <<state, at, accepted>>
  <2>1. /\ output' \in Buffers /\ wire' \in Seq(Byte) /\ accepted' \in Nat
        /\ writing' \in BOOLEAN /\ Sending'
      BY <1>3, HandleWriteSends, Zenon DEF IInv
  <2>2. Types' /\ Offer'
      BY <1>1, <1>3, <2>1, Zenon DEF IInv, Types, Offer
  <2>3. Cleaned'
      BY <1>1, <1>3 DEF IInv, Cleaned
  <2> QED
      BY <2>1, <2>2, <2>3, Zenon DEF IInv
<1> QED
    BY <1>2, <1>3, Zenon DEF HandleWrite, HandShakeDone, HandShakeFails

\* CleanUp offers what is left, calls statecb_ and deletes the channel.
LEMMA CleanUpIInv ==
    ASSUME IInv, CleanUpRead \/ CleanUpState \/ CleanUpEnd
    PROVE  IInv'
<1>1. UNCHANGED <<writing, output, wire, accepted, received, consumed, stopped, inbox, broken>>
    BY Zenon DEF CleanUpRead, CleanUpState, CleanUpEnd, sendVars, readVars, peerVars
<1>2. /\ received \in Nat /\ consumed \in Nat /\ offered \in Nat
      /\ consumed <= offered /\ offered <= received 
      /\ at \notin {"input", "cleanup"} => offered = received \/ stopped
    BY Zenon DEF IInv, Types, Offer
<1>3. CASE CleanUpRead
  <2>1. /\ at = "cleanup" /\ at' = "reading" /\ offered' = received
        /\ UNCHANGED <<state, channel, calls>>
      BY <1>3, Zenon DEF CleanUpRead
  <2>2. Types' /\ Offer'
      BY <1>1, <1>2, <2>1 DEF IInv, Types, Offer
  <2>3. Cleaned'
      BY <2>1, Zenon DEF IInv, Cleaned
  <2> QED
      BY <1>1, <2>1, <2>2, <2>3, SendingKept, Zenon DEF IInv
<1>4. CASE CleanUpState
  <2>1. /\ at = "reading" \/ (at = "cleanup" /\ received - consumed = 0)
        /\ at' = "closing" /\ calls' = calls + 1
        /\ state' = "Closed" \/ (state = "HandShakeing" /\ state' = "Failed")
        /\ UNCHANGED <<channel, revents, offered>>
      BY <1>4, Zenon DEF CleanUpState, InputSize, readVars
  <2>2. offered = received \/ stopped
      BY <1>2, <2>1, SMTT(30)
  <2>3. Types' /\ Offer'
      BY <1>1, <1>2, <2>1, <2>2, Zenon DEF IInv, Types, Offer
  <2>4. Cleaned'
      BY <2>1 DEF IInv, Cleaned
  <2> QED
      BY <1>1, <2>1, <2>3, <2>4, SendingKept, Zenon DEF IInv
<1>5. CASE CleanUpEnd
  <2>1. /\ at = "closing" /\ at' = "loop" /\ channel' = "gone" /\ revents' = {}
        /\ UNCHANGED <<state, offered, calls>>
      BY <1>5, Zenon DEF CleanUpEnd, readVars
  <2>2. Types' /\ Offer'
      BY <1>1, <1>2, <2>1, Zenon DEF IInv, Types, Offer
  <2>3. Cleaned'
      BY <2>1 DEF IInv, Cleaned
  <2> QED
      BY <1>1, <2>1, <2>2, <2>3, SendingKept, Zenon DEF IInv
<1> QED
    BY <1>3, <1>4, <1>5, Zenon

\* The poller reports events, and the peer and the kernel do what they do.
LEMMA PeerIInv ==
    ASSUME IInv, Poll \/ PeerStep \/ UNCHANGED vars
    PROVE  IInv'
<1>1. /\ UNCHANGED <<state, channel, writing, at, output, wire, accepted, received, consumed,
                     offered, stopped, calls>>
      /\ UNCHANGED revents \/ channel # "gone"
      /\ broken' = broken \/ broken' = TRUE
      /\ inbox' \in {inbox, inbox + 1, 0}
  <2>1. CASE Poll
      BY <2>1, Zenon DEF Poll, sendVars, readVars, peerVars
  <2>2. CASE LinkUp
    <3>1. broken' = (broken \/ link' = "refused") /\ broken \in BOOLEAN
        BY <2>2 DEF LinkUp, IInv, Types
    <3>2. broken' = broken \/ broken' = TRUE
        BY <3>1, Zenon
    <3> QED
        BY <2>2, <3>2, Zenon DEF LinkUp, connVars, sendVars, readVars
  <2>3. CASE PeerSends \/ PeerCloses \/ PeerResets \/ PeerReads
      BY <2>3, Zenon DEF PeerSends, PeerCloses, PeerResets, PeerReads, connVars, sendVars,
                         readVars, peerVars
  <2>4. CASE UNCHANGED vars
      BY <2>4 DEF vars, connVars, sendVars, readVars, peerVars
  <2> QED
      BY <2>1, <2>2, <2>3, <2>4, Zenon DEF PeerStep
<1>2. broken => broken'
    BY <1>1, Zenon
<1>3. Types'
  <2>1. broken' \in BOOLEAN
      BY <1>1, Zenon DEF IInv, Types
  <2>2. inbox' \in Nat
      BY <1>1 DEF IInv, Types
  <2> QED
      BY <1>1, <2>1, <2>2, Zenon DEF IInv, Types
<1>4. Sending'
    BY <1>1, <1>2, SendingKept, Zenon DEF IInv
<1>5. Offer' /\ Cleaned'
    BY <1>1 DEF IInv, Offer, Cleaned
<1> QED
    BY <1>3, <1>4, <1>5, Zenon DEF IInv

-----------------------------------------------------------------------------
\* Nothing is sent or received.
LEMMA InitIInv == Init => IInv
<1> SUFFICES ASSUME Init PROVE IInv
    BY Zenon
<1>1. Cleared \in Buffers /\ Cleared.bytes = <<>> /\ <<>> \in Seq(Byte) /\ InBounds(Cleared)
    BY EmptySeq DEF Cleared, Buffers, InBounds, EndOf, GetSize
<1>2. Types
    BY <1>1, Zenon DEF Init, Types
<1>3. BytesInOrder
  <2>1. wire \o output.bytes = <<>>
      BY <1>1, ConcatEmptySeq, Zenon DEF Init
  <2>2. [i \in 1 .. 0 |-> i] = <<>>
      OBVIOUS
  <2> QED
      BY <2>1, <2>2, Zenon DEF Init, BytesInOrder
<1>4. OutputFits /\ Writer
    BY <1>1, Zenon DEF Init, OutputFits, Sound, Writer
<1>5. Offer /\ Cleaned
    BY DEF Init, Offer, Cleaned
<1> QED
    BY <1>2, <1>3, <1>4, <1>5, Zenon DEF IInv, Sending

\* The invariant is inductive.
LEMMA NextIInv == IInv /\ [Next]_vars => IInv'
<1> SUFFICES ASSUME IInv, [Next]_vars PROVE IInv'
    OBVIOUS
<1>1. CASE LoopStep
    BY <1>1, PeerIInv, HandleReadIInv, ReadRoundIInv, HandleWriteIInv, CleanUpIInv,
       RunRequestIInv, Zenon
       DEF LoopStep
<1>2. CASE ConnectTimeout \/ UserStep
    BY <1>2, CloseIInv, SendIInv, Zenon DEF UserStep
<1>3. CASE PeerStep \/ Idle \/ UNCHANGED vars
    BY <1>3, PeerIInv DEF Idle
<1> QED
    BY <1>1, <1>2, <1>3, Zenon DEF Next

\* The inductive invariant holds in every state a connection reaches.
THEOREM TcpConnInvariance == Spec => []IInv
BY InitIInv, NextIInv, PTL DEF Spec

\* Every byte accepted by Send(message), Send(Buffer&) or SendOutput() is on the wire or
\* in output_, in the order of the calls, however the socket takes them.
THEOREM BytesKeepOrder == Spec => []BytesInOrder
<1>1. IInv => BytesInOrder
    BY Zenon DEF IInv, Sending
<1> QED
    BY <1>1, TcpConnInvariance, PTL

\* As long as the connection stands, what is left in output_ has a write event.
THEOREM WriteEventOn == Spec => []OutputHasWriter
<1>1. IInv => OutputHasWriter
    BY Zenon DEF IInv, Sending, Writer, OutputHasWriter
<1> QED
    BY <1>1, TcpConnInvariance, PTL

\* MakeRoom's MoveHead() that moves nothing is the only way for output_ to outgrow its
\* memory, and an empty output_ has none.
THEOREM OnlyMoveHeadOverruns == Spec => []OutputFits
<1>1. IInv => OutputFits
    BY Zenon DEF IInv, Sending
<1> QED
    BY <1>1, TcpConnInvariance, PTL

\* readcb_ has been called for every byte read when the loop thread is done with an
\* event, unless another thread's Shutdown() closed the connection during the loop of
\* HandleRead.
THEOREM AllInputOffered == Spec => []InputOffered
<1>1. IInv => InputOffered
    BY Zenon DEF IInv, Offer, InputOffered
<1> QED
    BY <1>1, TcpConnInvariance, PTL

\* CleanUp calls statecb_ once, and no channel is deleted without it.
THEOREM OneCleanUp == Spec => []CleanedUpOnce
<1>1. IInv => CleanedUpOnce
    BY DEF IInv, Cleaned, CleanedUpOnce
<1> QED
    BY <1>1, TcpConnInvariance, PTL
=============================================================================
