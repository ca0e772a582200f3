------------------------------- MODULE Buffer -------------------------------
(***************************************************************************)
(* jnet::Buffer (net/buffer.h, net/buffer.cc): cap bytes of memory, of     *)
(* which those from b on hold the contents.  The operations are operators  *)
(* on a buffer's value; TcpConn's output_ is one.  Bytes written past the  *)
(* end of the memory leave a value that is not InBounds.                   *)
(***************************************************************************)
EXTENDS Integers, Sequences, FiniteSetsExt

CONSTANT Exp    \* exp_: the least memory a buffer takes

ASSUME BufferAssumption == Exp \in Nat \ {0}

\* A buffer without memory: a new one, and one after Clear().
Cleared == [b |-> 0, cap |-> 0, bytes |-> <<>>]

GetSize(buf) == Len(buf.bytes)

IsEmpty(buf) == GetSize(buf) = 0

\* e_
EndOf(buf) == buf.b + GetSize(buf)

InBounds(buf) == EndOf(buf) <= buf.cap

\* Mutant: the new memory is twice the old, whatever is to be put in.
ExpandTwice(buf, len) == [buf EXCEPT !.b = 0, !.cap = Max({Exp, 2 * buf.cap})]

\* New memory, with the contents at its beginning.
Expand(buf, len) ==
    [buf EXCEPT !.b = 0, !.cap = Max({Exp, 2 * buf.cap, GetSize(buf) + len})]

\* MakeRoom(len): there is room behind the contents; or there would be if they were
\* moved to the front, and MoveHead() does nothing; or the memory is too small.
MakeRoom(buf, len) ==
    CASE EndOf(buf) + len <= buf.cap -> buf
      [] EndOf(buf) + len > buf.cap /\ GetSize(buf) + len < buf.cap -> buf
      [] OTHER -> Expand(buf, len)

\* AllocRoom(len) and the memcpy into it.
AppendTo(buf, bytes) == [MakeRoom(buf, Len(bytes)) EXCEPT !.bytes = @ \o bytes]

\* The memory is given back with the last byte.
Consume(buf, n) ==
    IF n = GetSize(buf) THEN Cleared
    ELSE [buf EXCEPT !.b = @ + n, !.bytes = SubSeq(@, n + 1, Len(@))]

\* Absorb(other), another buffer: an empty buffer takes over its memory.
Absorb(buf, other) == IF IsEmpty(buf) THEN other ELSE AppendTo(buf, other.bytes)
=============================================================================
