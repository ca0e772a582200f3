------------------------------- MODULE RaftLog -------------------------------
(***************************************************************************)
(* jraft::RaftLog (raft/raft_log.cc) over a Storage (raft/storage.cc): the *)
(* file of log entries, the index of offsets and terms that is kept in     *)
(* memory, and a process that may crash between two writes or within one   *)
(* and loads the file when it starts again.  The log is used directly and  *)
(* by Raft::AppendEntries (raft/raft.cc), a follower's handler, which      *)
(* Node::AppendEntries does not call yet.                                  *)
(*                                                                         *)
(* The file is a sequence of cells of eight bytes, and offsets count       *)
(* cells: the first index, then for each entry a header of two cells (the  *)
(* term and the length) and its contents.  A cell is a number, which Load  *)
(* takes for what it expects; one that was never written reads as zero.    *)
(* pwrite may fail, or write some of the cells only, which Append takes    *)
(* for success; a cell is written as a whole.                              *)
(***************************************************************************)
EXTENDS Integers, Sequences, FiniteSets

CONSTANTS Terms,       \* terms of entries
          Lens,        \* lengths of serialized entries, in cells
          FirstIndices,\* what SetFirstIndex is called with
          MaxAppends,  \* bound: entries appended
          MaxTruncates,\* bound: calls of Truncate
          MaxFaults,   \* bound: crashes and short writes
          Word         \* bound: the values of an unsigned number (2^64 in the code)

ASSUME RaftLogAssumption ==
    /\ Terms \subseteq Nat \ {0} /\ Lens \subseteq Nat \ {0}
    /\ FirstIndices \subseteq Nat \ {0}
    /\ MaxAppends \in Nat /\ MaxTruncates \in Nat /\ MaxFaults \in Nat /\ Word \in Nat

\* Indices stay far below the largest number.
ASSUME WordAssumption ==
    \A first \in FirstIndices \cup Terms \cup {0} : first + MaxAppends + 3 < Word

VARIABLES
    file,        \* the Storage
    firstIndex,  \* firstIndex_
    bytes,       \* bytes_
    index,       \* offset_term_
    at,          \* "new"; "idle"; "header": Append has written the header;
                 \* "emptied", "set": in Truncate; "down"
    cur,         \* the entry being appended, or the index being truncated
    todo,        \* the terms of the entries that AppendEntries has yet to append
    (* History. *)
    log,         \* what the index stands for: the entries appended, Torn for those
                 \* that a crash or a short write left incomplete
    appends, truncates,
    faults,      \* crashes and short writes
    want,        \* what AppendEntries, the last to use the log, was asked for
    headed,      \* the file begins with the first index
    skewed       \* the index is not the file's: Truncate was called for an entry that
                 \* has others after it, or a header was written in part

memory == <<firstIndex, bytes, index>>
history == <<log, want, appends, truncates, faults, headed, skewed>>
vars == <<file, memory, at, cur, todo, history>>

Torn == [id |-> 0, term |-> 0, len |-> 0]
HeaderLen == 2

NoRequest == [prev |-> 0, term |-> 0, n |-> -1]

Header(e) == <<e.term, e.len>>
Content(e) == [j \in 1 .. e.len |-> 100 * e.id + j]

Init ==
    /\ file = <<>> /\ firstIndex = -1 /\ bytes = 0 /\ index = <<>>
    /\ at = "new" /\ cur = Torn /\ todo = <<>>
    /\ log = <<>> /\ want = NoRequest /\ appends = 0 /\ truncates = 0 /\ faults = 0
    /\ headed = FALSE /\ skewed = FALSE

-----------------------------------------------------------------------------
(* Storage.                                                                 *)

CellAt(f, off) == IF off + 1 \in 1 .. Len(f) THEN f[off + 1] ELSE 0

\* pwrite(cells) at off.
Put(f, off, cells) ==
    LET end == off + Len(cells)
    IN  [i \in 1 .. (IF end > Len(f) THEN end ELSE Len(f)) |->
            IF i \in off + 1 .. end THEN cells[i - off] ELSE CellAt(f, i - 1)]

FileSize(f) == Len(f)

\* ftruncate(off), which may extend the file.
Cut(f, off) == [i \in 1 .. off |-> CellAt(f, i - 1)]

-----------------------------------------------------------------------------
(* What Load makes of a file, and Get and ValidIndex of the index.          *)

\* The loop of Load: bytes_ after one round, and after k rounds.
Round(f, off) ==
    IF off >= FileSize(f) THEN off ELSE off + HeaderLen + CellAt(f, off + 1)

Visited(f) ==
    LET off[k \in 0 .. FileSize(f)] == IF k = 0 THEN 1 ELSE Round(f, off[k - 1])
    IN  off

Rounds(f) ==
    CHOOSE n \in 0 .. FileSize(f) :
        /\ Visited(f)[n] >= FileSize(f)
        /\ \A k \in 0 .. n - 1 : Visited(f)[k] < FileSize(f)

\* Load: a read past the end of the file is no error and leaves firstIndex_ as it is.
Loaded(f) ==
    [firstIndex |-> IF f = <<>> THEN -1 ELSE f[1],
     bytes |-> Visited(f)[Rounds(f)],
     index |-> [i \in 1 .. Rounds(f) |->
                   [off |-> Visited(f)[i - 1], term |-> CellAt(f, Visited(f)[i - 1])]]]

\* A signed number that is made unsigned.
Unsigned(n) == IF n < 0 THEN n + Word ELSE n

\* Mutant: a comparison of signed numbers.
ValidIndexSigned(i) == index # <<>> /\ i - firstIndex < Len(index)

\* ValidIndex: the difference becomes unsigned.
ValidIndex(i) == index # <<>> /\ Unsigned(i - firstIndex) < Len(index)

LastIndex == Len(index) + firstIndex - 1

ContainLog(i, term) == ValidIndex(i) /\ index[i - firstIndex + 1].term = term

\* Get: the cells that it reads into buf.  What it makes of them is left out: buf is
\* handed to ParseFromString as a C string, which ends at a zero byte in or behind it.
GetBuf(i) ==
    LET off == index[i - firstIndex + 1].off
    IN  [j \in 1 .. CellAt(file, off + 1) |-> CellAt(file, off + HeaderLen + j - 1)]

-----------------------------------------------------------------------------
(* The operations, step by step where they write to the file.               *)

\* Mutant: bytes_ is not advanced.
WriteFirstOnly(i) ==
    file' = Put(file, bytes, <<i>>) /\ firstIndex' = i /\ headed' = TRUE /\ UNCHANGED bytes

\* SetFirstIndex, when its write does not fail.
WriteFirst(i) ==
    file' = Put(file, bytes, <<i>>) /\ firstIndex' = i /\ headed' = TRUE /\ bytes' = bytes + 1

\* SetFirstIndex on a new log.
SetFirstIndex(i) ==
    /\ at = "new"
    /\ WriteFirst(i)
    /\ at' = "idle"
    /\ UNCHANGED <<index, cur, todo, log, want, appends, truncates, faults, skewed>>

\* A new log used without a first index, as Raft does, or one it could not be written to.
StartWithout ==
    /\ at = "new"
    /\ at' = "idle"
    /\ UNCHANGED <<file, memory, cur, todo, history>>

\* Append is called for e, by AppendEntries if it has entries left.
Calls(e) ==
    /\ at = "idle" /\ appends < MaxAppends /\ e.id = appends + 1
    /\ todo # <<>> => e.term = Head(todo)

\* The system writes k of n cells.
Writes(k, n) ==
    \/ k = n /\ UNCHANGED faults
    \/ k < n /\ faults < MaxFaults /\ faults' = faults + 1

\* Append: k cells of the header are written, which is not an error if any is.
AppendHeader(e, k) ==
    /\ Calls(e)
    /\ Writes(k, HeaderLen) /\ file' = Put(file, bytes, SubSeq(Header(e), 1, k))
    /\ at' = "header" /\ cur' = e /\ appends' = e.id
    /\ IF todo = <<>> THEN want' = NoRequest /\ UNCHANGED todo
       ELSE todo' = Tail(todo) /\ UNCHANGED want
    /\ skewed' = (skewed \/ k < HeaderLen)
    /\ UNCHANGED <<memory, log, truncates, headed>>

\* Append's early return when the header cannot be written; its caller is not told.
HeaderFails(e) ==
    /\ Calls(e)
    /\ appends' = e.id /\ want' = NoRequest
    /\ todo' = IF todo = <<>> THEN todo ELSE Tail(todo)
    /\ UNCHANGED <<file, memory, at, cur, log, truncates, faults, headed, skewed>>

\* Mutant: bytes_ does not count the header.
AdvanceByContent == bytes' = bytes + cur.len

\* Mutant: one cell more.
AdvanceTooFar == bytes' = bytes + HeaderLen + cur.len + 1

\* bytes_ += len + sizeof(header)
Advance == bytes' = bytes + HeaderLen + cur.len

\* Append: k cells of the contents are written, and the index has the entry.
AppendContent(k) ==
    /\ at = "header" /\ k \in 1 .. cur.len
    /\ Writes(k, cur.len)
    /\ file' = Put(file, bytes + HeaderLen, SubSeq(Content(cur), 1, k))
    /\ index' = Append(index, [off |-> bytes, term |-> cur.term])
    /\ Advance
    /\ at' = "idle" /\ log' = Append(log, IF k = cur.len THEN cur ELSE Torn) /\ cur' = Torn
    /\ UNCHANGED <<firstIndex, todo, want, appends, truncates, headed, skewed>>

\* Append's early return when the contents cannot be written.
AppendFails ==
    /\ at = "header"
    /\ at' = "idle" /\ cur' = Torn /\ want' = NoRequest
    /\ UNCHANGED <<file, memory, todo, log, appends, truncates, faults, headed, skewed>>

\* vector::erase of element i.
Erased(s, i) == [j \in 1 .. Len(s) - 1 |-> IF j < i THEN s[j] ELSE s[j + 1]]

\* The end of Truncate: the file is cut at the entry, and that entry, no other, is
\* erased from the index.
CutAt(i) ==
    LET off == index[i - firstIndex + 1].off
    IN  /\ file' = Cut(file, off) /\ bytes' = off
        /\ index' = Erased(index, i - firstIndex + 1)
        /\ at' = "idle" /\ cur' = Torn
        /\ log' = Erased(log, i - firstIndex + 1)
        /\ skewed' = (skewed \/ i - firstIndex + 1 < Len(index))
        /\ headed' = (headed /\ off > 0)

\* Truncate of an entry that is not the first.
Truncate(i) ==
    /\ at = "idle" /\ todo = <<>> /\ ValidIndex(i) /\ i > firstIndex
    /\ truncates < MaxTruncates /\ truncates' = truncates + 1
    /\ CutAt(i) /\ want' = NoRequest
    /\ UNCHANGED <<firstIndex, todo, appends, faults>>

\* Truncate of the first entry: the file is emptied, the first index written again,
\* and the rest follows.
TruncateFirst(i) ==
    /\ at = "idle" /\ todo = <<>> /\ ValidIndex(i) /\ i <= firstIndex
    /\ truncates < MaxTruncates /\ truncates' = truncates + 1
    /\ file' = <<>> /\ bytes' = 0 /\ headed' = FALSE
    /\ at' = "emptied" /\ cur' = i /\ want' = NoRequest
    /\ UNCHANGED <<firstIndex, index, todo, log, appends, faults, skewed>>

TruncateSet ==
    /\ at = "emptied"
    /\ WriteFirst(cur)
    /\ at' = "set"
    /\ UNCHANGED <<index, cur, todo, log, want, appends, truncates, faults, skewed>>

\* SetFirstIndex fails, and Truncate goes on.
TruncateSetFails ==
    /\ at = "emptied"
    /\ at' = "set"
    /\ UNCHANGED <<file, memory, cur, todo, history>>

TruncateRest ==
    /\ at = "set"
    /\ CutAt(cur)
    /\ UNCHANGED <<firstIndex, todo, want, appends, truncates, faults>>

\* Mutant: the entry before the new ones is taken for the first of them.
InsertAtPrev(prev) == prev

InsertIndex(prev) == prev + 1

\* Raft::AppendEntries with n entries, up to its loop: a request that is not refused
\* (for its term, or because the entry before the new ones is not the leader's), and
\* what is in the place of the first new entry goes unless it has the request's term.
\* (commitIndex_, which the handler sets at its end, has no part in the log.)
AppendEntries(prev, prevTerm, term, n) ==
    LET i == InsertIndex(prev)
    IN  /\ at = "idle" /\ todo = <<>> /\ appends + n <= MaxAppends
        /\ ContainLog(prev, prevTerm)
        /\ todo' = [j \in 1 .. n |-> term]
        /\ want' = IF ContainLog(i, term) THEN NoRequest
                   ELSE [prev |-> prev, term |-> term, n |-> n]
        /\ IF ValidIndex(i) /\ ~ContainLog(i, term)
           THEN truncates < MaxTruncates /\ truncates' = truncates + 1 /\ CutAt(i)
           ELSE UNCHANGED <<file, bytes, index, at, cur, log, truncates, headed, skewed>>
        /\ UNCHANGED <<firstIndex, appends, faults>>

-----------------------------------------------------------------------------
(* Crashes.                                                                 *)

\* The process is gone, and f is in the file.
Down(f) ==
    /\ file' = f /\ at' = "down" /\ cur' = Torn /\ todo' = <<>> /\ want' = NoRequest
    /\ firstIndex' = -1 /\ bytes' = 0 /\ index' = <<>>
    /\ faults < MaxFaults /\ faults' = faults + 1
    /\ UNCHANGED <<log, truncates, headed, skewed>>

\* A crash between two writes.
Crash == at \notin {"new", "down"} /\ Down(file) /\ UNCHANGED appends

\* A crash within the write of an entry's contents.
CrashInContent(k) ==
    /\ at = "header" /\ k \in 1 .. cur.len
    /\ Down(Put(file, bytes + HeaderLen, SubSeq(Content(cur), 1, k)))
    /\ UNCHANGED appends

\* A crash within the write of an entry's header.
CrashInHeader(e) ==
    /\ Calls(e)
    /\ Down(Put(file, bytes, SubSeq(Header(e), 1, 1)))
    /\ appends' = e.id

\* The process starts, again or for the first time, and calls Load.
Load ==
    /\ at \in {"new", "down"}
    /\ LET l == Loaded(file)
       IN  /\ firstIndex' = l.firstIndex /\ bytes' = l.bytes /\ index' = l.index
           /\ log' = [i \in 1 .. Len(l.index) |-> IF i <= Len(log) THEN log[i] ELSE Torn]
    /\ at' = "idle"
    /\ UNCHANGED <<file, cur, todo, want, appends, truncates, faults, headed, skewed>>

-----------------------------------------------------------------------------
Entries == [id : 1 .. MaxAppends, term : Terms, len : Lens]

Indices == -3 .. MaxAppends + 3

Next ==
    \/ \E i \in FirstIndices : SetFirstIndex(i)
    \/ StartWithout \/ Load
    \/ \E e \in Entries : HeaderFails(e) \/ CrashInHeader(e)
    \/ \E e \in Entries, k \in 1 .. HeaderLen : AppendHeader(e, k)
    \/ AppendFails
    \/ \E i \in Indices : Truncate(i) \/ TruncateFirst(i)
    \/ TruncateSet \/ TruncateSetFails \/ TruncateRest
    \/ \E prev \in Indices, prevTerm, term \in Terms, n \in 0 .. MaxAppends :
          AppendEntries(prev, prevTerm, term, n)
    \/ Crash
    \/ \E len \in Lens : \E k \in 1 .. len : AppendContent(k) \/ CrashInContent(k)

Spec == Init /\ [][Next]_vars

-----------------------------------------------------------------------------
\* The file begins with a first index, no entry but the last was truncated, and every
\* header was written as a whole: what the other properties need.
Sound == headed /\ ~skewed

\* Between two operations the memory is what Load would build from the file, but for
\* one entry more at the end whose contents could not be written.
ReloadAgrees ==
    at = "idle" /\ Sound =>
        LET l == Loaded(file)
        IN  /\ l.firstIndex = firstIndex
            /\ Len(l.index) \in {Len(index), Len(index) + 1}
            /\ \A i \in 1 .. Len(index) : l.index[i] = index[i]
            /\ Len(l.index) = Len(index) => l.bytes = bytes

\* An entry that Append wrote as a whole is in the index with its term, and Get reads its
\* contents into buf, whatever was appended or truncated, failed, was written in part or
\* was interrupted by a crash after it.  (Nothing is said of the LogEntry that Get makes
\* of buf, nor of Term(), which returns 0 for every valid index.)
EntriesKept ==
    at = "idle" /\ Sound =>
        /\ Len(log) = Len(index)
        /\ \A i \in 1 .. Len(log) : log[i] # Torn =>
              /\ ContainLog(firstIndex + i - 1, log[i].term)
              /\ GetBuf(firstIndex + i - 1) = Content(log[i])

\* A crash or a short write leaves at most one incomplete entry behind, which the index
\* or Load takes for one.
OneTornPerFault ==
    at = "idle" /\ Sound => Cardinality({i \in 1 .. Len(log) : log[i] = Torn}) <= faults

\* A request that AppendEntries carried through has its entries where it asked for them:
\* right after the entry it named, with the leader's term, and nothing after them, also
\* when an entry of another term was in their place.  (Not so for a request that comes
\* again: its entries are appended once more.)
AppendedWhereAsked ==
    at = "idle" /\ todo = <<>> /\ want # NoRequest /\ Sound =>
        /\ LastIndex = want.prev + want.n
        /\ \A j \in 1 .. want.n : ContainLog(want.prev + j, want.term)

\* The unsigned comparison of ValidIndex accepts the indices from FirstIndex() to
\* LastIndex() and no other, those below the first index included.
ValidExact ==
    \A i \in Indices : ValidIndex(i) <=> i \in firstIndex .. LastIndex
=============================================================================
