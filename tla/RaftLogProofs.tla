---------------------------- MODULE RaftLogProofs ----------------------------
(***************************************************************************)
(* The safety properties of RaftLog, proved for any terms, lengths of      *)
(* entries and first indices, and any number of appends, truncations,      *)
(* failed and short writes and crashes.                                    *)
(***************************************************************************)
EXTENDS RaftLog, FiniteSetTheorems, WellFoundedInduction, TLAPS

\* What a first index can be: one that was set or, in a file without one, a term or
\* what Truncate made of it.
Firsts ==
    {n \in Int : n >= -3 /\ \E first \in FirstIndices \cup Terms \cup {0} : n <= first}

Slot == [off : Nat, term : Nat]
Request == [prev : Int, term : Terms, n : Nat]

\* Only the first cell may be negative.
Files == {f \in Seq(Int) : \A i \in 2 .. Len(f) : f[i] \in Nat}

Proper(f) == f \in Files /\ (f # <<>> => f[1] \in Firsts)

Types ==
    /\ Proper(file) /\ firstIndex \in Firsts
    /\ bytes \in Nat /\ index \in Seq(Slot)
    /\ at \in {"new", "idle", "header", "emptied", "set", "down"}
    /\ (at = "header" => cur \in Entries) /\ (at \in {"emptied", "set"} => cur \in Firsts)
    /\ todo \in Seq(Terms) /\ log \in Seq(Entries \cup {Torn})
    /\ want \in Request \cup {NoRequest}
    /\ appends \in 0 .. MaxAppends /\ faults \in Nat /\ headed \in BOOLEAN

\* What an operation has done so far, and where the first entry is.
Stages ==
    /\ at = "new" => file = <<>> /\ bytes = 0 /\ index = <<>> /\ log = <<>> /\ ~headed
    /\ at = "emptied" => file = <<>> /\ bytes = 0 /\ index # <<>> /\ ~headed
    /\ at \in {"emptied", "set"} => cur <= firstIndex
    /\ at = "set" =>
          /\ index # <<>>
          /\ (file = <<cur>> /\ bytes = 1 /\ firstIndex = cur) \/ (file = <<>> /\ ~headed)
    /\ at \notin {"idle", "header"} => want = NoRequest
    /\ at # "down" => Len(log) = Len(index)
    /\ at \in {"idle", "header"} /\ index = <<>> => bytes \in {0, 1}
    /\ index # <<>> => index[1].off \in {0, 1}

End(f, slot) == slot.off + HeaderLen + CellAt(f, slot.off + 1)

\* The entries of idx follow each other in f, from the first index up to b.
Disk(f, idx, b) ==
    /\ idx = <<>> => b = 1
    /\ idx # <<>> => idx[1].off = 1 /\ b = End(f, idx[Len(idx)])
    /\ \A i \in 1 .. Len(idx) - 1 : idx[i + 1].off = End(f, idx[i])
    /\ \A i \in 1 .. Len(idx) :
          /\ 1 <= idx[i].off /\ idx[i].off < Len(f) /\ End(f, idx[i]) <= b
          /\ idx[i].term = CellAt(f, idx[i].off)
    /\ \A i, j \in 1 .. Len(idx) : i < j => End(f, idx[i]) <= idx[j].off

\* The entry is in the file.
EntryAt(f, off, e) ==
    /\ CellAt(f, off) = e.term /\ CellAt(f, off + 1) = e.len
    /\ \A j \in 1 .. e.len : CellAt(f, off + HeaderLen + j - 1) = Content(e)[j]

Written(f, idx, entries) ==
    \A i \in 1 .. Len(entries) :
        entries[i] # Torn => EntryAt(f, idx[i].off, entries[i])

Torns(entries) == {i \in 1 .. Len(entries) : entries[i] = Torn}

\* A file with a first index, in use: behind the last entry there is at most the header
\* of one that could not be written.
InUse ==
    headed /\ at \in {"idle", "header"} =>
        /\ file # <<>> /\ file[1] = firstIndex
        /\ Disk(file, index, bytes) /\ Written(file, index, log)
        /\ Len(index) <= appends /\ Cardinality(Torns(log)) <= faults
        /\ Len(file) > bytes => Len(file) = bytes + HeaderLen /\ Len(index) < appends
        /\ at = "header" =>
              /\ Len(file) = bytes + HeaderLen
              /\ CellAt(file, bytes) = cur.term /\ CellAt(file, bytes + 1) = cur.len

\* After a crash: what Load will find.
Found ==
    headed /\ at = "down" =>
        LET l == Loaded(file)
        IN  /\ file # <<>> /\ Disk(file, l.index, l.bytes) /\ Len(file) <= l.bytes
            /\ Len(l.index) <= appends
            /\ l.index # <<>> =>
                  /\ Len(l.index) \in {Len(log), Len(log) + 1}
                  /\ Written(file, l.index, log) /\ Cardinality(Torns(log)) < faults

\* The entries that AppendEntries has yet to append.
Remaining == Len(todo) + (IF at = "header" THEN 1 ELSE 0)

Asked ==
    headed /\ at \in {"idle", "header"} /\ want # NoRequest =>
        /\ Remaining <= want.n /\ \A j \in 1 .. Len(todo) : todo[j] = want.term
        /\ at = "header" => cur.term = want.term
        /\ firstIndex <= want.prev /\ LastIndex + Remaining = want.prev + want.n
        /\ \A j \in 1 .. want.n - Remaining :
              index[want.prev + j - firstIndex + 1].term = want.term

\* Once an entry in the middle was truncated, or a header written in part, nothing is left
\* to say.
Good == Types /\ Stages /\ InUse /\ Found /\ Asked

IInv == skewed \in BOOLEAN /\ (~skewed => Good)

-----------------------------------------------------------------------------
(* What Load computes.                                                      *)

\* Some numbers have a least one.
LEMMA Least ==
    ASSUME NEW S, S \subseteq Nat, S # {}
    PROVE  \E x \in S : \A y \in S : x <= y
<1>1. IsWellFoundedOn(OpToRel(<, Nat), Nat)
    BY NatLessThanWellFounded, Zenon
<1>2. \E x \in S : \A y \in S : ~(<<y, x>> \in OpToRel(<, Nat))
    BY <1>1, WFMin, Zenon
<1>3. \A x, y \in Nat : <<y, x>> \in OpToRel(<, Nat) <=> y < x
    BY DEF OpToRel
<1>4. \E x \in S : \A y \in S : ~(y < x)
    BY <1>2, <1>3, Zenon
<1> QED
    BY <1>4

\* The offsets after any number of rounds are well defined.
LEMMA OffsetsExist ==
    ASSUME NEW f, NEW n \in Nat
    PROVE  \E g : g = [k \in 0 .. n |-> IF k = 0 THEN 1 ELSE Round(f, g[k - 1])]
<1> DEFINE Def(m, g) == [k \in 0 .. m |-> IF k = 0 THEN 1 ELSE Round(f, g[k - 1])]
<1> DEFINE S == {m \in Nat : ~ \E g : g = Def(m, g)}
<1> SUFFICES ASSUME S # {}
             PROVE  FALSE
    BY Zenon
<1>1. PICK m \in S : \A y \in S : m <= y
    BY Least, Zenon
<1>2. CASE m = 0
    <2> DEFINE g == [k \in 0 .. 0 |-> 1]
    <2>1. g = Def(0, g)
        OBVIOUS
    <2> QED
        BY <2>1, <1>1, <1>2, Zenon
<1>3. CASE m # 0
    <2>1. m - 1 \in Nat /\ m - 1 \notin S
        <3>1. S \subseteq Nat
            OBVIOUS
        <3> HIDE DEF S
        <3> QED
            BY <3>1, <1>1, <1>3
    <2>2. PICK g : g = Def(m - 1, g)
        BY <2>1
    <2> DEFINE h == Def(m, g)
    <2>3. ASSUME NEW k \in 0 .. m, k # 0
          PROVE  h[k - 1] = g[k - 1]
        <3>1. m \in Nat /\ k - 1 \in 0 .. m - 1 /\ k - 1 \in 0 .. m
            BY <2>3, <1>1
        <3>2. h[k - 1] = IF k - 1 = 0 THEN 1 ELSE Round(f, g[k - 1 - 1])
            BY <3>1
        <3>3. g[k - 1] = IF k - 1 = 0 THEN 1 ELSE Round(f, g[k - 1 - 1])
            BY <3>1, <2>2, Zenon
        <3> QED
            BY <3>2, <3>3
    <2>4. h = Def(m, h)
        BY <2>3, Zenon
    <2> QED
        BY <2>4, <1>1, Zenon
<1> QED
    BY <1>2, <1>3

\* One round after the other.
LEMMA VisitedIs ==
    ASSUME NEW f, FileSize(f) \in Nat
    PROVE  /\ Visited(f)[0] = 1
           /\ \A k \in 1 .. FileSize(f) : Visited(f)[k] = Round(f, Visited(f)[k - 1])
<1> DEFINE Def(g) == [k \in 0 .. FileSize(f) |-> IF k = 0 THEN 1 ELSE Round(f, g[k - 1])]
<1>1. \E g : g = Def(g)
    BY OffsetsExist, Zenon
<1>2. Visited(f) = CHOOSE g : g = Def(g)
    BY DEF Visited
<1> HIDE DEF Def
<1>3. Visited(f) = Def(Visited(f))
    BY <1>1, <1>2
<1> QED
    BY <1>3 DEF Def

\* Cells of a file.
LEMMA Cell ==
    ASSUME NEW f \in Files
    PROVE  /\ FileSize(f) = Len(f) /\ Len(f) \in Nat
           /\ \A off \in Nat : CellAt(f, off) \in Int
           /\ \A off \in Nat \ {0} : CellAt(f, off) \in Nat
BY DEF Files, FileSize, CellAt

\* Load's offsets are positive, grow, and get past the end of the file.
LEMMA OffsetsGrow ==
    ASSUME NEW f \in Files
    PROVE  \A k \in 0 .. Len(f) :
              /\ Visited(f)[k] \in Nat \ {0}
              /\ Visited(f)[k] >= Len(f) \/ Visited(f)[k] >= k
<1> DEFINE V == Visited(f)
<1> DEFINE P(k) == V[k] \in Nat \ {0} /\ (V[k] >= Len(f) \/ V[k] >= k)
<1> DEFINE S == {k \in 0 .. Len(f) : ~P(k)}
<1> SUFFICES ASSUME S # {}
             PROVE  FALSE
    OBVIOUS
<1>1. V[0] = 1 /\ \A k \in 1 .. Len(f) : V[k] = Round(f, V[k - 1])
    BY Cell, VisitedIs
<1>2. S \subseteq Nat
    BY Cell
<1>3. PICK k \in S : \A y \in S : k <= y
    BY <1>2, Least, Zenon
<1> HIDE DEF V
<1>4. CASE k = 0
    BY <1>1, <1>3, <1>4
<1>5. CASE k # 0
    <2>1. k \in 1 .. Len(f) /\ k - 1 \in 0 .. Len(f)
        BY <1>3, <1>5, Cell
    <2>2. P(k - 1)
        <3>1. k - 1 \notin S
            <4> HIDE DEF S
            <4> QED
                BY <1>2, <1>3, <2>1
        <3> QED
            BY <3>1, <2>1
    <2>3. V[k] = Round(f, V[k - 1])
        BY <1>1, <2>1
    <2>4. P(k)
        <3>1. CellAt(f, V[k - 1] + 1) \in Nat
            BY <2>2, Cell, SMTT(30)
        <3>2. V[k] = IF V[k - 1] >= Len(f) THEN V[k - 1]
                     ELSE V[k - 1] + 2 + CellAt(f, V[k - 1] + 1)
            BY <2>3, Cell, Zenon DEF Round, HeaderLen
        <3>3. Len(f) \in Nat
            BY Cell
        <3> QED
            BY ONLY <3>1, <3>2, <3>3, <2>1, <2>2, SMTT(30)
    <2> QED
        BY <2>4, <1>3
<1> QED
    BY <1>4, <1>5

\* Load ends.
LEMMA RoundsIs ==
    ASSUME NEW f \in Files
    PROVE  /\ Rounds(f) \in 0 .. Len(f)
           /\ Visited(f)[Rounds(f)] >= Len(f)
           /\ \A k \in 0 .. Rounds(f) - 1 : Visited(f)[k] < Len(f)
<1> DEFINE V == Visited(f)
<1> DEFINE S == {k \in 0 .. Len(f) : V[k] >= Len(f)}
<1>1. Len(f) \in S /\ S \subseteq Nat
    BY Cell, OffsetsGrow
<1>2. PICK n \in S : \A y \in S : n <= y
    BY <1>1, Least, Zenon
<1>3. \A k \in 0 .. n - 1 : V[k] < Len(f)
    <2> SUFFICES ASSUME NEW k \in 0 .. n - 1
                 PROVE  V[k] < Len(f)
        OBVIOUS
    <2>1. k \in 0 .. Len(f) /\ ~(n <= k)
        BY <1>2, Cell
    <2>2. V[k] \in Nat
        BY <2>1, OffsetsGrow
    <2> QED
        BY <2>1, <2>2, <1>2, Cell, SMTT(30)
<1>4. \E m \in 0 .. FileSize(f) :
          /\ Visited(f)[m] >= FileSize(f)
          /\ \A k \in 0 .. m - 1 : Visited(f)[k] < FileSize(f)
    BY <1>2, <1>3, Cell, Zenon
<1> QED
    BY <1>4, Cell, Zenon DEF Rounds

\* The types of what Load computes, and the place of its first entry.
LEMMA LoadTypes ==
    ASSUME NEW f \in Files
    PROVE  LET l == Loaded(f)
           IN  /\ l.index \in Seq(Slot) /\ l.bytes \in Nat \ {0}
               /\ l.firstIndex = IF f = <<>> THEN -1 ELSE f[1]
               /\ IF l.index = <<>> THEN l.bytes = 1 ELSE l.index[1].off = 1
<1> DEFINE V == Visited(f)
           n == Rounds(f)
           Element(i) == [off |-> V[i - 1], term |-> CellAt(f, V[i - 1])]
           idx == [i \in 1 .. n |-> Element(i)]
<1>1. n \in Nat /\ V[0] = 1 /\ \A k \in 0 .. n : V[k] \in Nat \ {0}
    BY Cell, VisitedIs, OffsetsGrow, RoundsIs, SMTT(30)
<1>2. Loaded(f) = [firstIndex |-> IF f = <<>> THEN -1 ELSE f[1],
                   bytes |-> V[n], index |-> idx]
    BY DEF Loaded
<1> HIDE DEF V, n
<1>3. \A i \in 1 .. n : Element(i) \in Slot
    <2> SUFFICES ASSUME NEW i \in 1 .. n
                 PROVE  Element(i) \in Slot
        OBVIOUS
    <2>1. V[i - 1] \in Nat \ {0}
        BY <1>1
    <2>2. CellAt(f, V[i - 1]) \in Nat
        BY <2>1, Cell, Zenon
    <2> QED
        BY <2>1, <2>2 DEF Slot
<1> HIDE DEF Element
<1>4. idx \in Seq(Slot) /\ Len(idx) = n
    BY <1>1, <1>3
<1>5. n # 0 => idx[1].off = 1
    BY <1>1 DEF Element
<1>6. idx = <<>> <=> n = 0
    BY <1>1, <1>4
<1> QED
    BY <1>1, <1>2, <1>4, <1>5, <1>6

-----------------------------------------------------------------------------
(* Files.                                                                   *)

\* What pwrite leaves in a file.
LEMMA PutIs ==
    ASSUME NEW f \in Files, NEW off \in Nat, NEW cells \in Seq(Int)
    PROVE  LET g == Put(f, off, cells)
           IN  /\ g \in Seq(Int)
               /\ Len(g) = IF off + Len(cells) > Len(f) THEN off + Len(cells) ELSE Len(f)
               /\ \A o \in Nat : CellAt(g, o) = IF o \in off .. off + Len(cells) - 1
                                                THEN cells[o - off + 1] ELSE CellAt(f, o)
<1> DEFINE end == off + Len(cells)
           n == IF end > Len(f) THEN end ELSE Len(f)
           At(i) == IF i \in off + 1 .. end THEN cells[i - off] ELSE CellAt(f, i - 1)
           g == [i \in 1 .. n |-> At(i)]
<1>1. end \in Nat /\ n \in Nat /\ Len(f) \in Nat /\ end <= n /\ Len(f) <= n
    BY Cell
<1>2. ASSUME NEW i \in 1 .. n PROVE At(i) \in Int
  <2>1. CASE i \in off + 1 .. end
    <3>1. i - off \in 1 .. Len(cells)
        BY <2>1
    <3> QED
        BY <2>1, <3>1
  <2>2. CASE i \notin off + 1 .. end
      BY <2>2, <1>1, Cell
  <2> QED
      BY <2>1, <2>2
<1>3. g \in Seq(Int) /\ Len(g) = n /\ \A i \in 1 .. n : g[i] = At(i)
  <2> HIDE DEF n, At
  <2> QED
      BY <1>1, <1>2
<1>4. Put(f, off, cells) = g
    BY DEF Put
<1>5. ASSUME NEW o \in Nat
      PROVE  CellAt(g, o) = IF o \in off .. off + Len(cells) - 1
                            THEN cells[o - off + 1] ELSE CellAt(f, o)
  <2>1. o + 1 \in off + 1 .. end <=> o \in off .. off + Len(cells) - 1
      OBVIOUS
  <2>2. CASE o + 1 \in 1 .. n
    <3>1. CellAt(g, o) = At(o + 1)
      <4> HIDE DEF n, At, g
      <4> QED
          BY <2>2, <1>3, Zenon DEF CellAt
    <3>2. o + 1 - off = o - off + 1 /\ o + 1 - 1 = o
        OBVIOUS
    <3> QED
        BY <3>1, <3>2, <2>1
  <2>3. CASE o + 1 \notin 1 .. n
    <3>1. CellAt(g, o) = 0
      <4> HIDE DEF n, At, g
      <4> QED
          BY <2>3, <1>3, Zenon DEF CellAt
    <3>2. o + 1 \notin 1 .. Len(f) /\ o + 1 \notin off + 1 .. end
        BY <2>3, <1>1
    <3> QED
        BY <3>1, <3>2, <2>1, Zenon DEF CellAt
  <2> QED
      BY <2>2, <2>3
<1> HIDE DEF g
<1> QED
    BY <1>3, <1>4, <1>5, Zenon

\* What ftruncate leaves in a file.
LEMMA CutIs ==
    ASSUME NEW f \in Files, NEW off \in Nat
    PROVE  /\ Cut(f, off) \in Seq(Int) /\ Len(Cut(f, off)) = off
           /\ \A o \in Nat : CellAt(Cut(f, off), o) = IF o < off THEN CellAt(f, o) ELSE 0
<1> DEFINE g == [i \in 1 .. off |-> CellAt(f, i - 1)]
<1>1. \A i \in 1 .. off : CellAt(f, i - 1) \in Int
    BY Cell
<1>2. g \in Seq(Int) /\ Len(g) = off /\ \A i \in 1 .. off : g[i] = CellAt(f, i - 1)
    BY <1>1
<1>3. Cut(f, off) = g
    BY DEF Cut
<1> HIDE DEF g
<1>4. ASSUME NEW o \in Nat PROVE CellAt(g, o) = IF o < off THEN CellAt(f, o) ELSE 0
  <2>1. o + 1 - 1 = o /\ (o + 1 \in 1 .. off <=> o < off)
      OBVIOUS
  <2> QED
      BY <2>1, <1>2 DEF CellAt
<1> QED
    BY <1>2, <1>3, <1>4

\* The cells of a file tell whether it is one.
LEMMA FileIs ==
    ASSUME NEW f \in Seq(Int), \A o \in Nat \ {0} : CellAt(f, o) \in Nat
    PROVE  f \in Files /\ (f # <<>> => f[1] = CellAt(f, 0))
<1>1. ASSUME NEW i \in 2 .. Len(f) PROVE f[i] \in Nat
  <2>1. CellAt(f, i - 1) \in Nat /\ i - 1 + 1 = i /\ i \in 1 .. Len(f)
      OBVIOUS
  <2> QED
      BY <2>1 DEF CellAt
<1> QED
    BY <1>1 DEF Files, CellAt

\* The ends of entries.
LEMMA EndIs ==
    ASSUME NEW f \in Files, NEW idx \in Seq(Slot), NEW i \in 1 .. Len(idx)
    PROVE  /\ idx[i].off \in Nat /\ idx[i].term \in Nat
           /\ CellAt(f, idx[i].off + 1) \in Nat /\ End(f, idx[i]) \in Nat
           /\ End(f, idx[i]) = idx[i].off + 2 + CellAt(f, idx[i].off + 1)
<1>1. idx[i] \in Slot
    OBVIOUS
<1>2. idx[i].off \in Nat /\ idx[i].term \in Nat
    BY <1>1 DEF Slot
<1>3. idx[i].off + 1 \in Nat \ {0}
    BY <1>2
<1>4. CellAt(f, idx[i].off + 1) \in Nat
    BY <1>3, Cell, Zenon
<1> QED
    BY <1>2, <1>4, SMTT(30) DEF End, HeaderLen

\* Entries stay in a file whose cells, as far as they reach, stay.
LEMMA DiskSame ==
    ASSUME NEW f \in Files, NEW g \in Files, NEW idx \in Seq(Slot), NEW b \in Nat,
           Disk(f, idx, b), \A o \in 0 .. b - 1 : CellAt(g, o) = CellAt(f, o),
           \A i \in 1 .. Len(idx) : idx[i].off < Len(g)
    PROVE  Disk(g, idx, b)
<1>1. ASSUME NEW i \in 1 .. Len(idx)
      PROVE  End(g, idx[i]) = End(f, idx[i]) /\ CellAt(g, idx[i].off) = CellAt(f, idx[i].off)
  <2>1. /\ idx[i].off \in Nat /\ End(f, idx[i]) \in Nat
        /\ End(f, idx[i]) = idx[i].off + 2 + CellAt(f, idx[i].off + 1)
        /\ CellAt(f, idx[i].off + 1) \in Nat
      BY EndIs
  <2>2. End(f, idx[i]) <= b
      BY DEF Disk
  <2>3. idx[i].off \in 0 .. b - 1 /\ idx[i].off + 1 \in 0 .. b - 1
      BY <2>1, <2>2, SMTT(30)
  <2> QED
      BY <2>3, Zenon DEF End
<1>2. \A i \in 1 .. Len(idx) - 1 : i \in 1 .. Len(idx) /\ i + 1 \in 1 .. Len(idx)
    OBVIOUS
<1>3. idx # <<>> => Len(idx) \in 1 .. Len(idx)
    OBVIOUS
<1> QED
    BY <1>1, <1>2, <1>3, Zenon DEF Disk

\* So do their contents.
LEMMA WrittenSame ==
    ASSUME NEW f \in Files, NEW g \in Files, NEW idx \in Seq(Slot), NEW b \in Nat,
           Disk(g, idx, b), \A o \in 0 .. b - 1 : CellAt(g, o) = CellAt(f, o),
           NEW entries \in Seq(Entries \cup {Torn}), Len(entries) <= Len(idx),
           Written(f, idx, entries)
    PROVE  Written(g, idx, entries)
<1> SUFFICES ASSUME NEW i \in 1 .. Len(entries), entries[i] # Torn
             PROVE  EntryAt(g, idx[i].off, entries[i])
    BY DEF Written
<1> DEFINE off == idx[i].off
           e == entries[i]
<1>1. i \in 1 .. Len(idx) /\ EntryAt(f, off, e)
    BY DEF Written
<1>2. e \in Entries
    OBVIOUS
<1>3. e.len \in Nat
    BY <1>2, RaftLogAssumption, Zenon DEF Entries
<1>4. /\ off \in Nat /\ End(g, idx[i]) = off + 2 + CellAt(g, off + 1)
      /\ CellAt(g, off + 1) \in Nat /\ End(g, idx[i]) <= b
    BY <1>1, EndIs, Zenon DEF Disk
<1> HIDE DEF off, e
<1>5. CellAt(g, off + 1) = e.len
  <2>1. off + 1 \in 0 .. b - 1
      BY <1>4
  <2> QED
      BY <1>1, <2>1, Zenon DEF EntryAt
<1>6. off + 2 + e.len <= b
    BY <1>4, <1>5
<1>7. off \in 0 .. b - 1 /\ off + 1 \in 0 .. b - 1
    BY <1>3, <1>4, <1>6
<1>8. \A j \in 1 .. e.len : off + HeaderLen + j - 1 \in 0 .. b - 1
    BY <1>3, <1>4, <1>6, SMTT(30) DEF HeaderLen
<1>9. EntryAt(g, off, e)
    BY <1>1, <1>7, <1>8, Zenon DEF EntryAt
<1> QED
    BY <1>9 DEF off, e

\* An entry whose header begins where the others end.
LEMMA DiskAppend ==
    ASSUME NEW f \in Files, NEW idx \in Seq(Slot), NEW b \in Nat, Disk(f, idx, b), b < Len(f)
    PROVE  LET slot == [off |-> b, term |-> CellAt(f, b)]
           IN  /\ slot \in Slot /\ Append(idx, slot) \in Seq(Slot)
               /\ b + 2 + CellAt(f, b + 1) \in Nat
               /\ Disk(f, Append(idx, slot), b + 2 + CellAt(f, b + 1))
<1> DEFINE slot == [off |-> b, term |-> CellAt(f, b)]
           new == Append(idx, slot)
           n == Len(idx)
           c == CellAt(f, b + 1)
<1>1. 1 <= b
  <2>1. CASE idx = <<>>
      BY <2>1 DEF Disk
  <2>2. CASE idx # <<>>
    <3>1. n \in 1 .. Len(idx)
        BY <2>2
    <3>2. b = End(f, idx[n])
        BY <2>2 DEF Disk
    <3> QED
        BY <3>1, <3>2, EndIs, SMTT(30)
  <2> QED
      BY <2>1, <2>2, Zenon
<1>2. c \in Nat /\ CellAt(f, b) \in Nat
    BY <1>1, Cell, SMTT(30)
<1>3. slot \in Slot /\ slot.off = b /\ slot.term = CellAt(f, b)
    BY <1>2, Zenon DEF Slot
<1>4. End(f, slot) = b + 2 + c
    BY <1>3, Zenon DEF End, HeaderLen
<1> HIDE DEF slot, c
<1>5. /\ new \in Seq(Slot) /\ Len(new) = n + 1 /\ n \in Nat /\ new[n + 1] = slot
      /\ \A i \in 1 .. n : new[i] = idx[i]
    BY <1>3
<1> HIDE DEF new
<1>6. \A i \in 1 .. n : /\ idx[i].off \in Nat /\ End(f, idx[i]) \in Nat
                        /\ 1 <= idx[i].off /\ idx[i].off < Len(f) /\ End(f, idx[i]) <= b
                        /\ idx[i].term = CellAt(f, idx[i].off)
    BY EndIs, Zenon DEF Disk
<1>7. new # <<>> /\ new[1].off = 1 /\ b + 2 + c = End(f, new[Len(new)])
    BY <1>3, <1>4, <1>5 DEF Disk
<1>8. ASSUME NEW i \in 1 .. Len(new) - 1 PROVE new[i + 1].off = End(f, new[i])
  <2>1. CASE i = n
    <3>1. n # 0 /\ idx # <<>>
        BY <1>5, <2>1
    <3> QED
        BY <1>3, <1>5, <2>1, <3>1 DEF Disk
  <2>2. CASE i # n
    <3>1. i \in 1 .. n - 1 /\ i \in 1 .. n /\ i + 1 \in 1 .. n
        BY <1>5, <2>2
    <3> QED
        BY <1>5, <3>1, Zenon DEF Disk
  <2> QED
      BY <2>1, <2>2, Zenon
<1>9. ASSUME NEW i \in 1 .. Len(new)
      PROVE  /\ 1 <= new[i].off /\ new[i].off < Len(f) /\ End(f, new[i]) <= b + 2 + c
             /\ new[i].term = CellAt(f, new[i].off)
  <2>1. CASE i = n + 1
      BY <1>1, <1>2, <1>3, <1>4, <1>5, <2>1, SMTT(30)
  <2>2. CASE i \in 1 .. n
      BY <1>2, <1>5, <1>6, <2>2, SMTT(30)
  <2> QED
      BY <1>5, <2>1, <2>2
<1>10. ASSUME NEW i \in 1 .. Len(new), NEW j \in 1 .. Len(new), i < j
       PROVE  End(f, new[i]) <= new[j].off
  <2>1. i \in 1 .. n
      BY <1>5, <1>10
  <2>2. CASE j = n + 1
      BY <1>3, <1>5, <1>6, <2>1, <2>2, Zenon
  <2>3. CASE j \in 1 .. n
      BY <1>5, <1>10, <2>1, <2>3, Zenon DEF Disk
  <2> QED
      BY <1>5, <2>2, <2>3
<1>11. Disk(f, new, b + 2 + c)
    BY <1>7, <1>8, <1>9, <1>10, Zenon DEF Disk
<1> QED
    BY <1>2, <1>3, <1>5, <1>11 DEF c, slot, new

\* What vector::erase of the last element leaves.
LEMMA ErasedLast ==
    ASSUME NEW S, NEW s \in Seq(S), s # <<>>
    PROVE  LET t == Erased(s, Len(s))
           IN  /\ t \in Seq(S) /\ Len(t) = Len(s) - 1 /\ Len(s) \in Nat \ {0}
               /\ \A i \in 1 .. Len(s) - 1 : t[i] = s[i]
<1> DEFINE n == Len(s)
           t == [j \in 1 .. n - 1 |-> IF j < n THEN s[j] ELSE s[j + 1]]
<1>1. n \in Nat \ {0} /\ \A i \in 1 .. n : s[i] \in S
    OBVIOUS
<1>2. \A j \in 1 .. n - 1 : (IF j < n THEN s[j] ELSE s[j + 1]) = s[j] /\ s[j] \in S
    BY <1>1
<1>3. t = [j \in 1 .. n - 1 |-> s[j]]
    BY <1>2
<1>4. Erased(s, n) = t
    BY DEF Erased
<1> HIDE DEF n
<1> QED
    BY <1>1, <1>2, <1>3, <1>4 DEF n

\* The last entry is cut off.
LEMMA DiskFront ==
    ASSUME NEW f \in Files, NEW idx \in Seq(Slot), NEW b \in Nat, Disk(f, idx, b), idx # <<>>,
           NEW g \in Files, Len(g) = idx[Len(idx)].off,
           \A o \in Nat : o < Len(g) => CellAt(g, o) = CellAt(f, o)
    PROVE  Disk(g, Erased(idx, Len(idx)), Len(g))
<1> DEFINE n == Len(idx)
           front == Erased(idx, n)
           off == idx[n].off
<1>1. /\ front \in Seq(Slot) /\ Len(front) = n - 1 /\ n \in Nat \ {0}
      /\ \A i \in 1 .. n - 1 : front[i] = idx[i]
    BY ErasedLast, Zenon
<1>2. n \in 1 .. Len(idx) /\ off \in Nat /\ off = Len(g)
    BY <1>1, EndIs, SMTT(30)
<1> HIDE DEF front, n, off
<1>3. ASSUME NEW i \in 1 .. n - 1
      PROVE  /\ idx[i].off \in Nat /\ 1 <= idx[i].off /\ End(f, idx[i]) <= off
             /\ End(f, idx[i]) = idx[i].off + 2 + CellAt(f, idx[i].off + 1)
             /\ CellAt(f, idx[i].off + 1) \in Nat
             /\ idx[i].term = CellAt(f, idx[i].off)
  <2>1. i \in 1 .. Len(idx) /\ i < n
      BY <1>1 DEF n
  <2> QED
      BY <1>2, <2>1, EndIs, Zenon DEF Disk, off
<1>4. ASSUME NEW i \in 1 .. n - 1
      PROVE  /\ idx[i].off < off /\ End(g, idx[i]) = End(f, idx[i])
             /\ CellAt(g, idx[i].off) = CellAt(f, idx[i].off)
  <2>1. /\ idx[i].off \in Nat /\ idx[i].off < Len(g)
        /\ idx[i].off + 1 \in Nat /\ idx[i].off + 1 < Len(g)
    <3>1. PICK o, c \in Nat : o = idx[i].off /\ c = CellAt(f, idx[i].off + 1)
        BY <1>3, Zenon
    <3>2. o \in Nat /\ o + 2 + c <= off
        BY <1>3, <3>1
    <3>3. o < Len(g) /\ o + 1 < Len(g)
        BY <1>2, <3>2
    <3> QED
        BY <3>1, <3>2, <3>3, SMTT(30)
  <2> QED
      BY <1>2, <2>1, Zenon DEF End
<1> SUFFICES Disk(g, front, Len(g))
    BY Zenon DEF front, n
<1>5. CASE n = 1
  <2>1. off = 1 /\ front = <<>>
      BY <1>1, <1>5, SMTT(30) DEF Disk, n, off
  <2> QED
      BY <1>1, <1>2, <1>5, <2>1, SMTT(30) DEF Disk
<1>6. CASE n # 1
  <2>1. n - 1 \in 1 .. n - 1 /\ n - 1 \in 1 .. Len(idx) - 1 /\ 1 \in 1 .. n - 1 /\ n - 1 + 1 = n
      BY <1>1, <1>6 DEF n
  <2>2. idx[n].off = End(f, idx[n - 1])
      BY <2>1, Zenon DEF Disk
  <2>3. front # <<>> /\ front[1].off = 1 /\ Len(g) = End(g, front[Len(front)])
      BY <1>1, <1>2, <1>4, <2>1, <2>2 DEF Disk, off
  <2>4. ASSUME NEW i \in 1 .. Len(front) - 1
        PROVE  front[i + 1].off = End(g, front[i])
    <3>1. i \in 1 .. n - 1 /\ i + 1 \in 1 .. n - 1 /\ i \in 1 .. Len(idx) - 1
        BY <1>1 DEF n
    <3> QED
        BY <1>1, <1>4, <3>1, Zenon DEF Disk
  <2>5. ASSUME NEW i \in 1 .. Len(front)
        PROVE  /\ 1 <= front[i].off /\ front[i].off < Len(g) /\ End(g, front[i]) <= Len(g)
               /\ front[i].term = CellAt(g, front[i].off)
      BY <1>1, <1>2, <1>3, <1>4, Zenon
  <2>6. ASSUME NEW i \in 1 .. Len(front), NEW j \in 1 .. Len(front), i < j
        PROVE  End(g, front[i]) <= front[j].off
    <3>1. i \in 1 .. n - 1 /\ j \in 1 .. n - 1 /\ i \in 1 .. Len(idx) /\ j \in 1 .. Len(idx)
        BY <1>1 DEF n
    <3> QED
        BY <1>1, <1>4, <2>6, <3>1, SMTT(30) DEF Disk
  <2> QED
      BY <2>3, <2>4, <2>5, <2>6, Zenon DEF Disk
<1> QED
    BY <1>5, <1>6, Zenon

\* Load rebuilds the index of a file that ends with its last entry, or within it.
LEMMA LoadIs ==
    ASSUME NEW f \in Files, NEW idx \in Seq(Slot), NEW b \in Nat, Disk(f, idx, b), Len(f) <= b
    PROVE  Loaded(f).index = idx /\ Loaded(f).bytes = b
<1> DEFINE V == Visited(f)
           r == Rounds(f)
           n == Len(idx)
           W(k) == IF k < n THEN idx[k + 1].off ELSE b
           S == {k \in 0 .. r : k <= n /\ V[k] # W(k)}
<1>1. /\ r \in 0 .. Len(f) /\ V[r] >= Len(f) /\ \A k \in 0 .. r - 1 : V[k] < Len(f)
      /\ V[0] = 1 /\ \A k \in 1 .. Len(f) : V[k] = Round(f, V[k - 1])
      /\ \A k \in 0 .. r : V[k] \in Nat
    BY Cell, VisitedIs, RoundsIs, OffsetsGrow, SMTT(30)
<1>2. n \in Nat /\ Len(f) \in Nat /\ FileSize(f) = Len(f)
    BY Cell
<1> HIDE DEF V, r
<1>3. S = {}
  <2>1. SUFFICES ASSUME S # {} PROVE FALSE
      BY Zenon
  <2>2. S \subseteq Nat
      BY <1>1, <1>2
  <2>3. PICK k \in S : \A y \in S : k <= y
      BY <2>1, <2>2, Least, Zenon
  <2>4. k \in 0 .. r /\ k <= n /\ V[k] # W(k)
      BY <2>3
  <2>5. k # 0
    <3>1. W(0) = 1
        BY <1>2 DEF Disk
    <3> QED
        BY <1>1, <2>4, <3>1, SMTT(30)
  <2>6. k - 1 \in 0 .. r /\ k - 1 <= n /\ k - 1 < n /\ k \in 1 .. Len(f) /\ k - 1 \in 0 .. r - 1
      BY <1>1, <1>2, <2>4, <2>5, SMTT(30)
  <2>7. V[k - 1] = W(k - 1)
    <3>1. k - 1 \notin S
      <4> HIDE DEF S
      <4> QED
          BY <1>1, <2>2, <2>3, <2>6, SMTT(30)
    <3> QED
        BY <2>6, <3>1, Zenon
  <2>8. W(k - 1) = idx[k].off /\ k \in 1 .. n
      BY <1>1, <1>2, <2>4, <2>5, <2>6, SMTT(30)
  <2>9. V[k] = Round(f, V[k - 1]) /\ V[k - 1] < Len(f)
      BY <1>1, <2>6, Zenon
  <2>10. V[k] = End(f, idx[k])
      BY <1>1, <1>2, <2>6, <2>7, <2>8, <2>9, SMTT(30) DEF Round, End
  <2>11. End(f, idx[k]) = W(k)
    <3>1. CASE k = n
        BY <2>8, <3>1, SMTT(30) DEF Disk
    <3>2. CASE k # n
      <4>1. k \in 1 .. Len(idx) - 1 /\ k < n
          BY <1>2, <2>8, <3>2, SMTT(30)
      <4> QED
          BY <4>1, Zenon DEF Disk
    <3> QED
        BY <3>1, <3>2, Zenon
  <2> QED
      BY <2>4, <2>10, <2>11, Zenon
<1>4. \A k \in 0 .. r : k <= n => V[k] = W(k)
    BY <1>3, Zenon
<1>5. r = n
  <2>1. CASE r < n
    <3>1. V[r] = idx[r + 1].off /\ r + 1 \in 1 .. Len(idx)
        BY <1>1, <1>2, <1>4, <2>1, SMTT(30)
    <3>2. V[r] < Len(f)
        BY <3>1, Zenon DEF Disk
    <3> QED
        BY <1>1, <1>2, <3>2, SMTT(30)
  <2>2. CASE n < r
    <3>1. V[n] = b /\ n \in 0 .. r - 1
        BY <1>1, <1>2, <1>4, <2>2, SMTT(30)
    <3> QED
        BY <1>1, <1>2, <3>1, SMTT(30)
  <2> QED
      BY <1>1, <1>2, <2>1, <2>2, SMTT(30)
<1>6. Loaded(f).bytes = b
  <2>1. V[r] = b /\ Loaded(f).bytes = V[r]
      BY <1>1, <1>2, <1>4, <1>5, SMTT(30) DEF Loaded, V, r
  <2> QED
      BY <2>1, Zenon
<1>7. Loaded(f).index = [i \in 1 .. n |-> [off |-> V[i - 1], term |-> CellAt(f, V[i - 1])]]
    BY <1>5, Zenon DEF Loaded, V, r
<1>8. ASSUME NEW i \in 1 .. n
      PROVE  [off |-> V[i - 1], term |-> CellAt(f, V[i - 1])] = idx[i]
  <2>1. i - 1 \in 0 .. r /\ i - 1 < n /\ i - 1 + 1 = i
      BY <1>2, <1>5
  <2>2. V[i - 1] = idx[i].off
      BY <1>4, <2>1, SMTT(30)
  <2>3. idx[i].term = CellAt(f, idx[i].off)
      BY Zenon DEF Disk
  <2>4. idx[i] \in Slot
      OBVIOUS
  <2>5. idx[i] = [off |-> idx[i].off, term |-> idx[i].term]
      BY <2>4 DEF Slot
  <2> QED
      BY <2>2, <2>3, <2>5, Zenon
<1>9. Loaded(f).index = [i \in 1 .. n |-> idx[i]]
    BY <1>7, <1>8, Zenon
<1>10. idx = [i \in 1 .. n |-> idx[i]]
    OBVIOUS
<1> QED
    BY <1>6, <1>9, <1>10, Zenon

\* Entries that are left out, or taken for incomplete.
LEMMA WrittenPart ==
    ASSUME NEW f, NEW idx, NEW entries, Written(f, idx, entries), NEW idx2, NEW entries2,
           \A i \in 1 .. Len(entries2) :
               \/ entries2[i] = Torn
               \/ i \in 1 .. Len(entries) /\ entries2[i] = entries[i] /\ idx2[i] = idx[i]
    PROVE  Written(f, idx2, entries2)
BY DEF Written

\* An entry more.
LEMMA WrittenAppend ==
    ASSUME NEW f, NEW idx \in Seq(Slot), NEW entries \in Seq(Entries \cup {Torn}),
           Written(f, idx, entries), Len(entries) = Len(idx), NEW slot \in Slot,
           NEW e \in Entries \cup {Torn}, e # Torn => EntryAt(f, slot.off, e)
    PROVE  Written(f, Append(idx, slot), Append(entries, e))
<1> DEFINE idx2 == Append(idx, slot)
           entries2 == Append(entries, e)
<1>1. /\ Len(entries2) = Len(idx) + 1 /\ Len(idx) \in Nat
      /\ idx2[Len(idx) + 1] = slot /\ entries2[Len(idx) + 1] = e
      /\ \A i \in 1 .. Len(idx) : idx2[i] = idx[i] /\ entries2[i] = entries[i]
    OBVIOUS
<1> HIDE DEF idx2, entries2
<1>2. ASSUME NEW i \in 1 .. Len(entries2), entries2[i] # Torn
      PROVE  EntryAt(f, idx2[i].off, entries2[i])
  <2>1. CASE i = Len(idx) + 1
      BY <1>1, <1>2, <2>1, Zenon
  <2>2. CASE i \in 1 .. Len(idx)
      BY <1>1, <1>2, <2>2, Zenon DEF Written
  <2> QED
      BY <1>1, <2>1, <2>2, SMTT(30)
<1>3. Written(f, idx2, entries2)
    BY <1>2 DEF Written
<1> QED
    BY <1>3, Zenon DEF idx2, entries2

\* The incomplete entries can be counted.
LEMMA TornsFinite ==
    ASSUME NEW entries, Len(entries) \in Nat
    PROVE  IsFiniteSet(Torns(entries)) /\ Cardinality(Torns(entries)) \in Nat
<1>1. IsFiniteSet(1 .. Len(entries))
    BY FS_Interval
<1>2. Torns(entries) \subseteq 1 .. Len(entries)
    BY DEF Torns
<1> QED
    BY <1>1, <1>2, FS_Subset, FS_CardinalityType, Zenon

\* Fewer of them.
LEMMA TornsPart ==
    ASSUME NEW entries, Len(entries) \in Nat, NEW entries2,
           \A i \in 1 .. Len(entries2) :
               entries2[i] = Torn => i \in 1 .. Len(entries) /\ entries[i] = Torn
    PROVE  Cardinality(Torns(entries2)) <= Cardinality(Torns(entries))
<1>1. Torns(entries2) \subseteq Torns(entries)
    BY Zenon DEF Torns
<1> QED
    BY <1>1, TornsFinite, FS_Subset, Zenon

\* One more.
LEMMA TornsMore ==
    ASSUME NEW entries, Len(entries) \in Nat, NEW entries2, Len(entries2) \in Nat, NEW n,
           \A i \in 1 .. Len(entries2) :
               entries2[i] = Torn => i = n \/ (i \in 1 .. Len(entries) /\ entries[i] = Torn)
    PROVE  Cardinality(Torns(entries2)) <= Cardinality(Torns(entries)) + 1
<1>1. Torns(entries2) \subseteq Torns(entries) \cup {n}
    BY DEF Torns
<1>2. /\ IsFiniteSet(Torns(entries) \cup {n})
      /\ Cardinality(Torns(entries) \cup {n}) <= Cardinality(Torns(entries)) + 1
      /\ Cardinality(Torns(entries) \cup {n}) \in Nat
  <2>1. IsFiniteSet(Torns(entries)) /\ Cardinality(Torns(entries)) \in Nat
      BY TornsFinite, Zenon
  <2> DEFINE T == Torns(entries)
  <2> HIDE DEF T
  <2>2. /\ IsFiniteSet(T \cup {n})
        /\ Cardinality(T \cup {n}) = IF n \in T THEN Cardinality(T) ELSE Cardinality(T) + 1
      BY <2>1, FS_AddElement, Zenon DEF T
  <2> QED
      BY <2>1, <2>2 DEF T
<1>3. Cardinality(Torns(entries2)) <= Cardinality(Torns(entries) \cup {n})
    BY <1>1, <1>2, FS_Subset
<1> QED
    BY <1>2, <1>3, TornsFinite

\* First indices.
LEMMA FirstsAre ==
    /\ FirstIndices \subseteq Firsts /\ Terms \subseteq Firsts /\ -1 \in Firsts /\ 0 \in Firsts
    /\ \A n \in Firsts : n \in Int /\ n >= -3 /\ n + MaxAppends + 3 < Word
    /\ \A n \in Firsts, i \in Int : -3 <= i /\ i <= n => i \in Firsts
<1>1. FirstIndices \subseteq Nat /\ Terms \subseteq Nat /\ MaxAppends \in Nat /\ Word \in Nat
    BY RaftLogAssumption
<1>2. \A n \in Firsts : n \in Int /\ n >= -3 /\ n + MaxAppends + 3 < Word
    BY <1>1, WordAssumption DEF Firsts
<1>3. \A n \in Firsts, i \in Int : -3 <= i /\ i <= n => i \in Firsts
    BY <1>1 DEF Firsts
<1>4. FirstIndices \subseteq Firsts /\ Terms \subseteq Firsts /\ -1 \in Firsts /\ 0 \in Firsts
    BY <1>1 DEF Firsts
<1> QED
    BY <1>2, <1>3, <1>4

\* Entries.
LEMMA EntryIs ==
    ASSUME NEW e \in Entries
    PROVE  /\ e.id \in 1 .. MaxAppends /\ e.term \in Terms /\ e.len \in Nat \ {0} /\ e # Torn
           /\ e.term \in Nat /\ e.len \in Lens
           /\ Header(e) \in Seq(Nat) /\ Len(Header(e)) = 2
           /\ Header(e)[1] = e.term /\ Header(e)[2] = e.len
           /\ Content(e) \in Seq(Nat) /\ Len(Content(e)) = e.len
<1>1. e.id \in 1 .. MaxAppends /\ e.term \in Terms /\ e.len \in Lens
    BY DEF Entries
<1>2. e.term \in Nat /\ e.len \in Nat \ {0} /\ e.id \in Nat
  <2>1. Terms \subseteq Nat /\ Lens \subseteq Nat \ {0} /\ MaxAppends \in Nat
      BY RaftLogAssumption
  <2>2. e.id \in Nat
      BY <1>1, <2>1
  <2> QED
      BY <1>1, <2>1, <2>2, Zenon
<1>3. e # Torn
  <2>1. Torn.id = 0
      BY DEF Torn
  <2> QED
      BY <1>1, <2>1, RaftLogAssumption, SMTT(30)
<1>4. Content(e) \in Seq(Nat) /\ Len(Content(e)) = e.len
  <2>1. \A j \in 1 .. e.len : 100 * e.id + j \in Nat
      BY <1>2
  <2> QED
      BY <1>2, <2>1 DEF Content
<1>5. /\ Header(e) \in Seq(Nat) /\ Len(Header(e)) = 2
      /\ Header(e)[1] = e.term /\ Header(e)[2] = e.len
    BY <1>2 DEF Header
<1> QED
    BY <1>1, <1>2, <1>3, <1>4, <1>5, Zenon

\* What is written to a file leaves a file.
LEMMA PutProper ==
    ASSUME NEW f, Proper(f), NEW off \in Nat, NEW cells \in Seq(Nat), cells # <<>>,
           off = 0 => cells[1] \in Firsts
    PROVE  Proper(Put(f, off, cells))
<1> DEFINE g == Put(f, off, cells)
<1>1. f \in Files /\ cells \in Seq(Int) /\ Len(cells) \in Nat \ {0}
      /\ \A i \in 1 .. Len(cells) : cells[i] \in Nat
    BY DEF Proper
<1>2. /\ g \in Seq(Int)
      /\ \A o \in Nat : CellAt(g, o) = IF o \in off .. off + Len(cells) - 1
                                       THEN cells[o - off + 1] ELSE CellAt(f, o)
    BY <1>1, PutIs, ZenonT(30)
<1> HIDE DEF g
<1>3. ASSUME NEW o \in Nat \ {0} PROVE CellAt(g, o) \in Nat
  <2>1. CASE o \in off .. off + Len(cells) - 1
    <3>1. o - off + 1 \in 1 .. Len(cells)
        BY <1>1, <2>1
    <3> QED
        BY <1>1, <1>2, <2>1, <3>1, Zenon
  <2>2. CASE o \notin off .. off + Len(cells) - 1
      BY <1>1, <1>2, <2>2, Cell, Zenon
  <2> QED
      BY <2>1, <2>2, Zenon
<1>4. g \in Files /\ (g # <<>> => g[1] = CellAt(g, 0))
    BY <1>2, <1>3, FileIs, Zenon
<1>5. CellAt(g, 0) \in Firsts
  <2>1. CASE off = 0
    <3>1. 0 \in Nat /\ 0 \in off .. off + Len(cells) - 1 /\ 0 - off + 1 = 1
        BY <1>1, <2>1
    <3>2. CellAt(g, 0) = cells[0 - off + 1]
        BY <1>2, <3>1, Zenon
    <3> QED
        BY <2>1, <3>1, <3>2
  <2>2. CASE off # 0
    <3>1. CellAt(g, 0) = CellAt(f, 0)
        BY <1>1, <1>2, <2>2
    <3>2. CellAt(f, 0) \in Firsts
      <4>1. CASE f = <<>>
          BY <4>1, FirstsAre DEF CellAt
      <4>2. CASE f # <<>>
          BY <1>1, <4>2 DEF CellAt, Proper, Files
      <4> QED
          BY <4>1, <4>2, Zenon
    <3> QED
        BY <3>1, <3>2, Zenon
  <2> QED
      BY <2>1, <2>2
<1> QED
    BY <1>4, <1>5, Zenon DEF Proper, g

\* So does what is cut off.
LEMMA CutProper ==
    ASSUME NEW f, Proper(f), NEW off \in Nat
    PROVE  Proper(Cut(f, off))
<1> DEFINE g == Cut(f, off)
<1>1. f \in Files /\ (f # <<>> => f[1] \in Firsts)
    BY Zenon DEF Proper
<1>2. /\ g \in Seq(Int)
      /\ \A o \in Nat : CellAt(g, o) = IF o < off THEN CellAt(f, o) ELSE 0
    BY <1>1, CutIs, Zenon
<1> HIDE DEF g
<1>3. ASSUME NEW o \in Nat \ {0} PROVE CellAt(g, o) \in Nat
  <2>1. CellAt(f, o) \in Nat /\ CellAt(g, o) = IF o < off THEN CellAt(f, o) ELSE 0
      BY <1>1, <1>2, Cell, Zenon
  <2> QED
      BY <2>1
<1>4. g \in Files /\ (g # <<>> => g[1] = CellAt(g, 0))
    BY <1>2, <1>3, FileIs, Zenon
<1>5. CellAt(f, 0) \in Firsts
  <2>1. CASE f = <<>>
      BY <2>1, FirstsAre DEF CellAt
  <2>2. CASE f # <<>>
      BY <1>1, <2>2 DEF CellAt, Files
  <2> QED
      BY <2>1, <2>2, Zenon
<1>6. CellAt(g, 0) \in Firsts
    BY <1>2, <1>5, FirstsAre, Zenon
<1> QED
    BY <1>4, <1>6, Zenon DEF Proper, g

\* The first cell of an empty file.
LEMMA PutFirst ==
    ASSUME NEW i \in Int
    PROVE  Put(<<>>, 0, <<i>>) = <<i>>
<1>1. Len(<<i>>) = 1 /\ Len(<<>>) = 0 /\ <<i>>[1] = i
    OBVIOUS
<1>2. Put(<<>>, 0, <<i>>) =
          [k \in 1 .. 1 |-> IF k \in 1 .. 1 THEN <<i>>[k - 0] ELSE CellAt(<<>>, k - 1)]
    BY <1>1 DEF Put
<1>3. \A k \in 1 .. 1 : (IF k \in 1 .. 1 THEN <<i>>[k - 0] ELSE CellAt(<<>>, k - 1)) = i
    OBVIOUS
<1>4. Put(<<>>, 0, <<i>>) = [k \in 1 .. 1 |-> i]
    BY <1>2, <1>3, Zenon
<1> QED
    BY <1>4

\* The indices that are valid.
LEMMA ValidIs ==
    ASSUME firstIndex \in Firsts, index \in Seq(Slot), Len(index) <= MaxAppends,
           NEW i \in Int, i >= -3
    PROVE  ValidIndex(i) <=> i \in firstIndex .. LastIndex
<1> DEFINE n == Len(index)
           d == i - firstIndex
<1>1. firstIndex \in Int /\ firstIndex + MaxAppends + 3 < Word /\ n \in Nat /\ d \in Int
      /\ MaxAppends \in Nat /\ Word \in Nat /\ n <= MaxAppends
    BY FirstsAre, RaftLogAssumption
<1>2. (index = <<>> <=> n = 0) /\ LastIndex = n + firstIndex - 1
    BY DEF LastIndex
<1>3. ValidIndex(i) <=> n # 0 /\ (IF d < 0 THEN d + Word ELSE d) < n
    BY <1>2, Zenon DEF ValidIndex, Unsigned
<1> HIDE DEF n
<1>4. CASE d < 0
  <2>1. ~ValidIndex(i)
      BY <1>1, <1>3, <1>4
  <2> QED
      BY <1>1, <1>4, <2>1
<1>5. CASE d >= 0
  <2>1. ValidIndex(i) <=> n # 0 /\ d < n
      BY <1>1, <1>3, <1>5
  <2>2. i \in firstIndex .. LastIndex <=> d < n
      BY <1>1, <1>2, <1>5
  <2>3. d < n => n # 0
      BY <1>1, <1>5
  <2> QED
      BY <2>1, <2>2, <2>3, Zenon
<1> QED
    BY <1>1, <1>4, <1>5

-----------------------------------------------------------------------------
(* The operations keep the invariant.                                       *)

\* A file of the first index alone.
LEMMA OnlyFirst ==
    ASSUME NEW i \in Firsts
    PROVE  /\ Proper(<<i>>) /\ Len(<<i>>) = 1 /\ <<i>> # <<>> /\ <<i>>[1] = i
           /\ Disk(<<i>>, <<>>, 1) /\ Written(<<i>>, <<>>, <<>>) /\ Cardinality(Torns(<<>>)) = 0
<1>1. i \in Int
    BY FirstsAre
<1>2. Proper(<<i>>)
    BY <1>1 DEF Proper, Files
<1>3. Disk(<<i>>, <<>>, 1) /\ Written(<<i>>, <<>>, <<>>)
    BY DEF Disk, Written
<1>4. Torns(<<>>) = {}
    BY DEF Torns
<1> QED
    BY <1>1, <1>2, <1>3, <1>4, FS_EmptySet, Zenon

\* A new log gets its first index.
LEMMA SetFirstIndexGood ==
    ASSUME Good, NEW i \in FirstIndices, SetFirstIndex(i)
    PROVE  Good'
<1>1. /\ at = "new" /\ at' = "idle" /\ firstIndex' = i /\ headed' /\ bytes' = bytes + 1
      /\ file' = Put(file, bytes, <<i>>)
      /\ UNCHANGED <<index, cur, todo, log, want, appends, truncates, faults, skewed>>
    BY DEF SetFirstIndex, WriteFirst
<1>2. /\ file = <<>> /\ bytes = 0 /\ index = <<>> /\ log = <<>> /\ want = NoRequest
      /\ appends \in Nat /\ faults \in Nat
    BY <1>1, RaftLogAssumption DEF Good, Stages, Types
<1>3. i \in Firsts /\ i \in Int
    BY FirstsAre, Zenon
<1>4. file' = <<i>> /\ bytes' = 1
    BY <1>1, <1>2, <1>3, PutFirst, SMTT(30)
<1>5. /\ Proper(file') /\ Len(file') = 1 /\ file' # <<>> /\ file'[1] = i
      /\ Disk(file', <<>>, 1) /\ Written(file', <<>>, <<>>) /\ Cardinality(Torns(<<>>)) = 0
    BY <1>3, <1>4, OnlyFirst, Zenon
<1>6. Types'
    BY <1>1, <1>3, <1>4, <1>5, SMTT(30) DEF Good, Types
<1>7. Stages'
    BY <1>1, <1>2, <1>4, Zenon DEF Stages
<1>8. InUse'
  <2>1. /\ Len(index') <= appends' /\ Cardinality(Torns(log')) <= faults'
        /\ ~(Len(file') > bytes') /\ at' # "header"
    <3>1. Cardinality(Torns(log')) = 0
        BY <1>1, <1>2, <1>5, Zenon
    <3>2. Len(index') = 0
        BY <1>1, <1>2, Zenon
    <3>3. ~(Len(file') > bytes')
        BY <1>4
    <3> QED
        BY <1>1, <1>2, <3>1, <3>2, <3>3, SMTT(30)
  <2>2. file' # <<>> /\ file'[1] = firstIndex' /\ index' = <<>> /\ log' = <<>>
      BY <1>1, <1>2, <1>5, Zenon
  <2>3. Disk(file', index', bytes') /\ Written(file', index', log')
      BY <1>4, <1>5, <2>2, Zenon
  <2> QED
      BY <2>1, <2>2, <2>3, Zenon DEF InUse
<1>9. Found' /\ Asked'
    BY <1>1, <1>2, Zenon DEF Found, Asked
<1> QED
    BY <1>6, <1>7, <1>8, <1>9 DEF Good

\* A log without one.
LEMMA StartWithoutGood ==
    ASSUME Good, StartWithout
    PROVE  Good'
<1>1. at = "new" /\ at' = "idle" /\ UNCHANGED <<file, memory, cur, todo, history>>
    BY Zenon DEF StartWithout
<1>2. /\ bytes = 0 /\ index = <<>> /\ log = <<>> /\ want = NoRequest /\ ~headed
    BY <1>1, Zenon DEF Good, Stages
<1>3. Types' /\ Stages'
    BY <1>1, <1>2 DEF Good, Types, Stages, memory, history
<1>4. InUse' /\ Found' /\ Asked'
    BY <1>1, <1>2, Zenon DEF InUse, Found, Asked, history
<1> QED
    BY <1>3, <1>4, Zenon DEF Good

\* Load finds the entries, and takes what a crash left of one for an entry.
LEMMA LoadGood ==
    ASSUME Good, Load
    PROVE  Good'
<1> DEFINE l == Loaded(file)
           n == Len(l.index)
<1>1. /\ at \in {"new", "down"} /\ at' = "idle"
      /\ firstIndex' = l.firstIndex /\ bytes' = l.bytes /\ index' = l.index
      /\ log' = [i \in 1 .. n |-> IF i <= Len(log) THEN log[i] ELSE Torn]
      /\ UNCHANGED <<file, cur, todo, want, appends, truncates, faults, headed, skewed>>
    BY Zenon DEF Load
<1>2. /\ Proper(file) /\ file \in Files /\ log \in Seq(Entries \cup {Torn})
      /\ faults \in Nat /\ appends \in Nat
    BY RaftLogAssumption DEF Good, Types, Proper
<1>3. /\ l.index \in Seq(Slot) /\ l.bytes \in Nat \ {0}
      /\ l.firstIndex = IF file = <<>> THEN -1 ELSE file[1]
      /\ IF l.index = <<>> THEN l.bytes = 1 ELSE l.index[1].off = 1
    BY <1>2, LoadTypes, Zenon
<1>4. want = NoRequest /\ (at = "new" => ~headed)
    BY <1>1 DEF Good, Stages
<1>5. Found
    BY Zenon DEF Good
<1> HIDE DEF l
<1>6. n \in Nat /\ Len(log) \in Nat /\ (l.index = <<>> <=> n = 0)
    BY <1>2, <1>3, SMTT(30)
<1> HIDE DEF n
<1>7. /\ log' \in Seq(Entries \cup {Torn}) /\ Len(log') = n
      /\ \A i \in 1 .. n : log'[i] = IF i <= Len(log) THEN log[i] ELSE Torn
  <2>1. \A i \in 1 .. n : (IF i <= Len(log) THEN log[i] ELSE Torn) \in Entries \cup {Torn}
      BY <1>2, <1>6, SMTT(30)
  <2> QED
      BY <1>1, <1>6, <2>1
<1>8. l.firstIndex \in Firsts
    BY <1>2, <1>3, FirstsAre, Zenon DEF Proper
<1>9. Types'
    BY <1>1, <1>3, <1>7, <1>8, Zenon DEF Good, Types
<1>10. Stages'
    BY <1>1, <1>3, <1>4, <1>7, Zenon DEF Stages, n
<1>11. InUse'
  <2> SUFFICES ASSUME headed PROVE InUse'
      BY <1>1, Zenon DEF InUse
  <2>1. at = "down"
      BY <1>1, <1>4, Zenon
  <2>2. /\ file # <<>> /\ Disk(file, l.index, l.bytes) /\ Len(file) <= l.bytes
        /\ n <= appends
        /\ n # 0 => /\ n \in {Len(log), Len(log) + 1}
                    /\ Written(file, l.index, log) /\ Cardinality(Torns(log)) < faults
      BY <1>5, <1>6, <2>1, Zenon DEF Found, l, n
  <2>3. Written(file, l.index, log') /\ Cardinality(Torns(log')) <= faults
    <3>1. CASE n = 0
      <4>1. Torns(log') = {} /\ Written(file, l.index, log')
          BY <1>7, <3>1, SMTT(30) DEF Torns, Written
      <4> QED
          BY <1>2, <4>1, FS_EmptySet, SMTT(30)
    <3>2. CASE n # 0
      <4>1. \A i \in 1 .. Len(log') :
                log'[i] = Torn \/ (i \in 1 .. Len(log) /\ log'[i] = log[i])
          BY <1>6, <1>7, SMTT(30)
      <4>2. Written(file, l.index, log')
          BY <2>2, <3>2, <4>1, WrittenPart, Zenon
      <4>3. \A i \in 1 .. Len(log') : log'[i] = Torn =>
                i = Len(log) + 1 \/ (i \in 1 .. Len(log) /\ log[i] = Torn)
          BY <1>6, <1>7, <2>2, <3>2, SMTT(30)
      <4>4. Cardinality(Torns(log')) <= Cardinality(Torns(log)) + 1
          BY <1>6, <1>7, <4>3, TornsMore, Zenon
      <4>5. Cardinality(Torns(log')) \in Nat /\ Cardinality(Torns(log)) \in Nat
          BY <1>6, <1>7, TornsFinite, Zenon
      <4> QED
          BY <1>2, <2>2, <3>2, <4>2, <4>4, <4>5, SMTT(30)
    <3> QED
        BY <3>1, <3>2, Zenon
  <2>4. ~(Len(file) > l.bytes)
      BY <1>2, <1>3, <2>2, Cell, SMTT(30)
  <2> QED
      BY <1>1, <1>3, <2>2, <2>3, <2>4, Zenon DEF InUse, n
<1>12. Found' /\ Asked'
    BY <1>1, <1>4, Zenon DEF Found, Asked
<1> QED
    BY <1>9, <1>10, <1>11, <1>12, Zenon DEF Good

\* Entries end behind the first index.
LEMMA DiskPositive ==
    ASSUME NEW f \in Files, NEW idx \in Seq(Slot), NEW b \in Nat, Disk(f, idx, b)
    PROVE  1 <= b
<1>1. CASE idx = <<>>
    BY <1>1, SMTT(30) DEF Disk
<1>2. CASE idx # <<>>
  <2>1. Len(idx) \in 1 .. Len(idx) /\ b = End(f, idx[Len(idx)])
      BY <1>2, SMTT(30) DEF Disk
  <2> QED
      BY <2>1, EndIs, SMTT(30)
<1> QED
    BY <1>1, <1>2, Zenon

\* What is written behind the entries leaves them.
LEMMA PutBehind ==
    ASSUME NEW f, Proper(f), f # <<>>, NEW idx \in Seq(Slot), NEW b \in Nat, Disk(f, idx, b),
           NEW entries \in Seq(Entries \cup {Torn}), Len(entries) <= Len(idx),
           Written(f, idx, entries), NEW off \in Nat, b <= off,
           NEW cells \in Seq(Nat), cells # <<>>
    PROVE  LET g == Put(f, off, cells)
           IN  /\ Proper(g) /\ g # <<>> /\ g[1] = f[1]
               /\ Disk(g, idx, b) /\ Written(g, idx, entries)
<1> DEFINE g == Put(f, off, cells)
<1>1. /\ f \in Files /\ cells \in Seq(Int) /\ Len(cells) \in Nat \ {0}
      /\ Len(f) \in Nat \ {0} /\ f[1] = CellAt(f, 0)
    BY SMTT(30) DEF Proper, Files, CellAt
<1>2. 1 <= b
    BY <1>1, DiskPositive
<1>3. /\ Len(g) = IF off + Len(cells) > Len(f) THEN off + Len(cells) ELSE Len(f)
      /\ \A o \in Nat : CellAt(g, o) = IF o \in off .. off + Len(cells) - 1
                                       THEN cells[o - off + 1] ELSE CellAt(f, o)
    BY <1>1, PutIs, SMTT(30)
<1>4. Proper(g)
    BY <1>2, PutProper
<1> HIDE DEF g
<1>5. \A o \in 0 .. b - 1 : CellAt(g, o) = CellAt(f, o)
    BY <1>3
<1>6. Len(g) \in Nat /\ Len(f) <= Len(g) /\ g # <<>> /\ g \in Files
    BY <1>1, <1>3, <1>4, SMTT(30) DEF Proper, Files
<1>7. g[1] = f[1]
  <2>1. g[1] = CellAt(g, 0)
      BY <1>6, SMTT(30) DEF CellAt, Files
  <2> QED
      BY <1>1, <1>2, <1>5, <2>1, SMTT(30)
<1>8. \A i \in 1 .. Len(idx) : idx[i].off < Len(g)
  <2> SUFFICES ASSUME NEW i \in 1 .. Len(idx)
               PROVE  idx[i].off < Len(g)
      BY Zenon
  <2>1. idx[i].off < Len(f) /\ idx[i].off \in Nat
      BY <1>1, EndIs, Zenon DEF Disk
  <2> QED
      BY <1>1, <1>6, <2>1, SMTT(30)
<1>9. Disk(g, idx, b)
    BY <1>1, <1>5, <1>6, <1>8, DiskSame, Zenon
<1>10. Written(g, idx, entries)
    BY <1>1, <1>5, <1>6, <1>9, WrittenSame, Zenon
<1> QED
    BY <1>4, <1>6, <1>7, <1>9, <1>10, Zenon DEF g

\* What Load finds in a file that ends with its last entry, or within one that follows.
LEMMA DownFinds ==
    ASSUME NEW f \in Files, NEW idx \in Seq(Slot), NEW b \in Nat, Disk(f, idx, b),
           NEW entries \in Seq(Entries \cup {Torn}), Len(entries) = Len(idx),
           Written(f, idx, entries), NEW m \in Nat, Len(idx) <= m,
           Len(f) > b => Len(idx) < m /\ Len(f) <= b + 2 + CellAt(f, b + 1)
    PROVE  LET l == Loaded(f)
           IN  /\ Disk(f, l.index, l.bytes) /\ Len(f) <= l.bytes /\ Len(l.index) <= m
               /\ Len(l.index) \in {Len(entries), Len(entries) + 1}
               /\ Written(f, l.index, entries)
<1>1. Len(f) \in Nat
    BY Cell, Zenon
<1>2. CASE Len(f) <= b
  <2>1. Loaded(f).index = idx /\ Loaded(f).bytes = b
      BY <1>2, LoadIs, Zenon
  <2> QED
      BY <1>2, <2>1, Zenon
<1>3. CASE Len(f) > b
  <2> DEFINE slot == [off |-> b, term |-> CellAt(f, b)]
             new == Append(idx, slot)
             c == b + 2 + CellAt(f, b + 1)
  <2>1. slot \in Slot /\ new \in Seq(Slot) /\ c \in Nat /\ Disk(f, new, c)
      BY <1>1, <1>3, DiskAppend, ZenonT(30)
  <2>2. Len(new) = Len(idx) + 1 /\ \A i \in 1 .. Len(idx) : new[i] = idx[i]
      BY <2>1
  <2>3. Len(f) <= c
      BY <1>3, Zenon
  <2> HIDE DEF new, slot, c
  <2>4. Loaded(f).index = new /\ Loaded(f).bytes = c
      BY <2>1, <2>3, LoadIs, Zenon
  <2>5. Written(f, new, entries)
      BY <2>2, WrittenPart, Zenon
  <2>6. Len(new) <= m
      BY <1>3, <2>2
  <2> QED
      BY <2>1, <2>2, <2>3, <2>4, <2>5, <2>6, Zenon
<1> QED
    BY <1>1, <1>2, <1>3

\* What is known of a file with a first index that is in use.
LEMMA Using ==
    ASSUME Good, headed, at \in {"idle", "header"}
    PROVE  /\ Proper(file) /\ file \in Files /\ file # <<>> /\ file[1] = firstIndex
           /\ Len(file) \in Nat /\ index \in Seq(Slot) /\ bytes \in Nat
           /\ log \in Seq(Entries \cup {Torn}) /\ Len(log) = Len(index)
           /\ Disk(file, index, bytes) /\ Written(file, index, log)
           /\ appends \in Nat /\ Len(index) \in Nat /\ Len(index) <= appends
           /\ faults \in Nat /\ Cardinality(Torns(log)) \in Nat
           /\ Cardinality(Torns(log)) <= faults
           /\ Len(file) > bytes => Len(file) = bytes + 2 /\ Len(index) < appends
<1>1. /\ Proper(file) /\ index \in Seq(Slot) /\ bytes \in Nat
      /\ log \in Seq(Entries \cup {Torn}) /\ appends \in Nat /\ faults \in Nat
    BY RaftLogAssumption DEF Good, Types
<1>2. Len(log) = Len(index)
    BY Zenon DEF Good, Stages
<1>3. /\ file # <<>> /\ file[1] = firstIndex
      /\ Disk(file, index, bytes) /\ Written(file, index, log)
      /\ Len(index) <= appends /\ Cardinality(Torns(log)) <= faults
      /\ Len(file) > bytes => Len(file) = bytes + 2 /\ Len(index) < appends
    BY Zenon DEF Good, InUse, HeaderLen
<1>4. file \in Files /\ Len(file) \in Nat
    BY <1>1, Cell, Zenon DEF Proper
<1>5. Len(index) \in Nat /\ Cardinality(Torns(log)) \in Nat
    BY <1>1, TornsFinite, SMTT(30)
<1> QED
    BY <1>1, <1>2, <1>3, <1>4, <1>5, ZenonT(30)

\* The header of an entry, or the first cell of it, is written behind the entries.
LEMMA PutHeader ==
    ASSUME Good, headed, at = "idle", NEW e \in Entries, NEW k \in 1 .. 2
    PROVE  LET g == Put(file, bytes, SubSeq(Header(e), 1, k))
           IN  /\ Proper(g) /\ g # <<>> /\ g[1] = firstIndex
               /\ Disk(g, index, bytes) /\ Written(g, index, log)
               /\ Len(g) \in {bytes + k, bytes + 2}
               /\ k = 2 => CellAt(g, bytes) = e.term /\ CellAt(g, bytes + 1) = e.len
<1> DEFINE cells == SubSeq(Header(e), 1, k)
           g == Put(file, bytes, cells)
<1>1. /\ cells \in Seq(Nat) /\ cells \in Seq(Int) /\ Len(cells) = k /\ cells # <<>>
      /\ cells[1] = e.term /\ (k = 2 => cells[2] = e.len)
    BY EntryIs, SMTT(30)
<1> HIDE DEF cells
<1>2. /\ Proper(file) /\ file # <<>> /\ file[1] = firstIndex /\ file \in Files
      /\ index \in Seq(Slot) /\ bytes \in Nat /\ Len(file) \in Nat
      /\ log \in Seq(Entries \cup {Torn}) /\ Len(log) = Len(index) /\ Len(index) \in Nat
      /\ Disk(file, index, bytes) /\ Written(file, index, log)
      /\ Len(file) > bytes => Len(file) = bytes + 2
    BY Using
<1>3. /\ Proper(g) /\ g # <<>> /\ g[1] = file[1]
      /\ Disk(g, index, bytes) /\ Written(g, index, log)
    BY <1>1, <1>2, PutBehind
<1>4. /\ Len(g) = IF bytes + k > Len(file) THEN bytes + k ELSE Len(file)
      /\ \A o \in Nat : CellAt(g, o) = IF o \in bytes .. bytes + k - 1
                                       THEN cells[o - bytes + 1] ELSE CellAt(file, o)
  <2>1. /\ Len(g) = IF bytes + Len(cells) > Len(file) THEN bytes + Len(cells) ELSE Len(file)
        /\ \A o \in Nat : CellAt(g, o) = IF o \in bytes .. bytes + Len(cells) - 1
                                         THEN cells[o - bytes + 1] ELSE CellAt(file, o)
      BY <1>1, <1>2, PutIs, ZenonT(30)
  <2> QED
      BY <1>1, <2>1, Zenon
<1> HIDE DEF g
<1>5. Len(g) \in {bytes + k, bytes + 2}
    BY <1>2, <1>4
<1>6. ASSUME k = 2 PROVE CellAt(g, bytes) = e.term /\ CellAt(g, bytes + 1) = e.len
  <2>1. /\ bytes \in bytes .. bytes + k - 1 /\ bytes + 1 \in bytes .. bytes + k - 1
        /\ bytes - bytes + 1 = 1 /\ bytes + 1 - bytes + 1 = 2 /\ bytes + 1 \in Nat
      BY <1>2, <1>6, SMTT(30)
  <2>2. CellAt(g, bytes) = cells[1] /\ CellAt(g, bytes + 1) = cells[2]
      BY <1>2, <1>4, <2>1, SMTT(30)
  <2> QED
      BY <1>1, <1>6, <2>2
<1> QED
    BY <1>2, <1>3, <1>5, <1>6, Zenon DEF g, cells

\* Append writes a header.
LEMMA AppendHeaderGood ==
    ASSUME Good, NEW e \in Entries, NEW k \in 1 .. HeaderLen, AppendHeader(e, k), ~skewed'
    PROVE  Good'
<1>1. /\ at = "idle" /\ e.id = appends + 1 /\ (todo # <<>> => e.term = Head(todo))
      /\ file' = Put(file, bytes, Header(e))
      /\ at' = "header" /\ cur' = e /\ appends' = e.id
      /\ IF todo = <<>> THEN want' = NoRequest /\ UNCHANGED todo
         ELSE todo' = Tail(todo) /\ UNCHANGED want
      /\ UNCHANGED <<firstIndex, bytes, index, log, truncates, faults, headed>>
  <2>1. k = 2 /\ SubSeq(Header(e), 1, 2) = Header(e) /\ UNCHANGED faults
    <3>1. ~(k < 2) /\ k \in 1 .. 2
        BY Zenon DEF AppendHeader, HeaderLen
    <3>2. k = 2
        BY <3>1
    <3>3. SubSeq(Header(e), 1, 2) = Header(e)
        BY EntryIs, SMTT(30)
    <3>4. UNCHANGED faults
        BY <3>1, Zenon DEF AppendHeader, Writes, HeaderLen
    <3> QED
        BY <3>2, <3>3, <3>4
  <2> QED
      BY <2>1, Zenon DEF AppendHeader, Calls, memory
<1>2. /\ e.id \in 1 .. MaxAppends /\ e.term \in Terms /\ e.term \in Firsts
      /\ Header(e) \in Seq(Nat) /\ Len(Header(e)) = 2 /\ Header(e)[1] = e.term
      /\ Header(e) = SubSeq(Header(e), 1, 2)
    BY EntryIs, FirstsAre, SMTT(30)
<1>3. /\ Proper(file) /\ bytes \in Nat /\ todo \in Seq(Terms) /\ appends \in Nat
      /\ want \in Request \cup {NoRequest}
    BY RaftLogAssumption, SMTT(30) DEF Good, Types
<1>4. Types'
  <2>1. Proper(file')
      BY <1>1, <1>2, <1>3, PutProper, SMTT(30)
  <2>2. todo' \in Seq(Terms) /\ want' \in Request \cup {NoRequest}
      BY <1>1, <1>3, SMTT(30)
  <2>3. appends' \in 0 .. MaxAppends
      BY <1>1, <1>2, RaftLogAssumption, SMTT(30)
  <2> QED
      BY <1>1, <2>1, <2>2, <2>3, Zenon DEF Good, Types
<1>5. Stages'
    BY <1>1, Zenon DEF Good, Stages
<1>6. InUse'
  <2> SUFFICES ASSUME headed PROVE InUse'
      BY <1>1, Zenon DEF InUse
  <2>1. /\ file' # <<>> /\ file'[1] = firstIndex
        /\ Disk(file', index, bytes) /\ Written(file', index, log)
        /\ Len(file') = bytes + 2
        /\ CellAt(file', bytes) = e.term /\ CellAt(file', bytes + 1) = e.len
    <3>1. 2 \in 1 .. 2
        OBVIOUS
    <3> QED
        BY <1>1, <1>2, <3>1, PutHeader, ZenonT(30)
  <2>2. /\ Len(index) <= appends' /\ Len(index) < appends'
        /\ Cardinality(Torns(log)) <= faults
      BY <1>1, Using
  <2> QED
      BY <1>1, <2>1, <2>2, Zenon DEF InUse, HeaderLen
<1>7. Found'
    BY <1>1, Zenon DEF Found
<1>8. Asked'
  <2> SUFFICES ASSUME headed, want' # NoRequest PROVE Asked'
      BY <1>1, Zenon DEF Asked
  <2>1. todo # <<>> /\ want' = want /\ todo' = Tail(todo)
      BY <1>1, Zenon
  <2>2. /\ Len(todo) \in Nat \ {0} /\ Len(todo') = Len(todo) - 1 /\ Head(todo) = todo[1]
        /\ \A j \in 1 .. Len(todo') : todo'[j] = todo[j + 1] /\ j + 1 \in 1 .. Len(todo)
      BY <1>3, <2>1, SMTT(30)
  <2>3. Remaining = Len(todo) /\ Remaining' = Len(todo)
      BY <1>1, <2>2, SMTT(30) DEF Remaining
  <2>4. /\ Remaining <= want.n /\ \A j \in 1 .. Len(todo) : todo[j] = want.term
        /\ firstIndex <= want.prev /\ LastIndex + Remaining = want.prev + want.n
        /\ \A j \in 1 .. want.n - Remaining :
              index[want.prev + j - firstIndex + 1].term = want.term
      BY <1>1, <2>1, ZenonT(30) DEF Good, Asked
  <2>5. e.term = want.term /\ \A j \in 1 .. Len(todo') : todo'[j] = want.term
      BY <1>1, <2>1, <2>2, <2>4, SMTT(30)
  <2>6. LastIndex' = LastIndex
      BY <1>1, Zenon DEF LastIndex
  <2> QED
      BY <1>1, <2>1, <2>3, <2>4, <2>5, <2>6, Zenon DEF Asked
<1> QED
    BY <1>4, <1>5, <1>6, <1>7, <1>8, SMTT(30) DEF Good

\* A crash, and what Load will find in the file.
LEMMA DownGood ==
    ASSUME Good, NEW f, Proper(f), Down(f), appends' \in 0 .. MaxAppends,
           headed =>
               /\ f # <<>> /\ Disk(f, Loaded(f).index, Loaded(f).bytes)
               /\ Len(f) <= Loaded(f).bytes /\ Len(Loaded(f).index) <= appends'
               /\ Loaded(f).index # <<>> =>
                     /\ Len(Loaded(f).index) \in {Len(log), Len(log) + 1}
                     /\ Written(f, Loaded(f).index, log)
                     /\ Cardinality(Torns(log)) < faults + 1
    PROVE  Good'
<1>1. /\ file' = f /\ at' = "down" /\ cur' = Torn /\ todo' = <<>> /\ want' = NoRequest
      /\ firstIndex' = -1 /\ bytes' = 0 /\ index' = <<>> /\ faults' = faults + 1
      /\ UNCHANGED <<log, truncates, headed, skewed>>
    BY Zenon DEF Down
<1>2. Types'
  <2>1. -1 \in Firsts /\ faults' \in Nat /\ todo' \in Seq(Terms) /\ index' \in Seq(Slot)
      BY <1>1, FirstsAre, SMTT(30) DEF Good, Types
  <2> QED
      BY <1>1, <2>1, ZenonT(30) DEF Good, Types
<1>3. Stages'
    BY <1>1, Zenon DEF Stages
<1>4. InUse' /\ Asked'
    BY <1>1, Zenon DEF InUse, Asked
<1>5. Found'
    BY <1>1, Zenon DEF Found
<1> QED
    BY <1>2, <1>3, <1>4, <1>5, Zenon DEF Good

\* A crash between two writes.
LEMMA CrashGood ==
    ASSUME Good, Crash
    PROVE  Good'
<1>1. at \notin {"new", "down"} /\ Down(file) /\ appends' = appends
    BY Zenon DEF Crash
<1>2. /\ Proper(file) /\ appends \in 0 .. MaxAppends /\ appends \in Nat /\ faults \in Nat
      /\ at \in {"idle", "header", "emptied", "set"}
    BY <1>1, RaftLogAssumption, SMTT(30) DEF Good, Types
<1>3. CASE headed /\ at \in {"idle", "header"}
  <2>1. /\ file \in Files /\ file # <<>> /\ index \in Seq(Slot) /\ bytes \in Nat
        /\ log \in Seq(Entries \cup {Torn}) /\ Len(log) = Len(index)
        /\ Disk(file, index, bytes) /\ Written(file, index, log) /\ Len(index) <= appends
        /\ Len(file) > bytes => Len(file) = bytes + 2 /\ Len(index) < appends
        /\ Cardinality(Torns(log)) < faults + 1
      BY <1>3, Using
  <2>2. CellAt(file, bytes + 1) \in Nat
      BY <2>1, Cell
  <2>3. Len(file) > bytes =>
            Len(index) < appends /\ Len(file) <= bytes + 2 + CellAt(file, bytes + 1)
      BY <2>1, <2>2, SMTT(30)
  <2>4. /\ Disk(file, Loaded(file).index, Loaded(file).bytes)
        /\ Len(file) <= Loaded(file).bytes /\ Len(Loaded(file).index) <= appends
        /\ Len(Loaded(file).index) \in {Len(log), Len(log) + 1}
        /\ Written(file, Loaded(file).index, log)
      BY <1>2, <2>1, <2>3, DownFinds, Zenon
  <2> QED
      BY <1>1, <1>2, <2>1, <2>4, DownGood, Zenon
<1>4. CASE headed /\ at = "set"
  <2>1. file = <<cur>> /\ cur \in Firsts
      BY <1>4, Zenon DEF Good, Stages, Types
  <2>2. /\ file # <<>> /\ Disk(file, <<>>, 1) /\ Len(file) = 1 /\ file \in Files
        /\ <<>> \in Seq(Slot)
      BY <1>2, <2>1, OnlyFirst DEF Proper
  <2>3. Loaded(file).index = <<>> /\ Loaded(file).bytes = 1
    <3>1. PICK idx \in Seq(Slot) : idx = <<>>
        BY <2>2, Zenon
    <3>2. PICK b \in Nat : b = 1
        OBVIOUS
    <3>3. Disk(file, idx, b) /\ Len(file) <= b
        BY <2>2, <3>1, <3>2, SMTT(30)
    <3>4. Loaded(file).index = idx /\ Loaded(file).bytes = b
        BY <2>2, <3>3, LoadIs, Zenon
    <3> QED
        BY <3>1, <3>2, <3>4, Zenon
  <2>4. /\ Len(Loaded(file).index) <= appends /\ Len(file) <= Loaded(file).bytes
        /\ Disk(file, Loaded(file).index, Loaded(file).bytes)
      BY <1>2, <2>2, <2>3, SMTT(30)
  <2> QED
      BY <1>1, <1>2, <2>2, <2>3, <2>4, DownGood, Zenon
<1>5. CASE ~headed
    BY <1>1, <1>2, <1>5, DownGood, SMTT(30)
<1>6. at = "emptied" => ~headed
    BY DEF Good, Stages
<1> QED
    BY <1>2, <1>3, <1>4, <1>5, <1>6, Zenon

\* A crash within the write of a header.
LEMMA CrashInHeaderGood ==
    ASSUME Good, NEW e \in Entries, CrashInHeader(e)
    PROVE  Good'
<1> DEFINE f == Put(file, bytes, SubSeq(Header(e), 1, 1))
<1>1. at = "idle" /\ e.id = appends + 1 /\ Down(f) /\ appends' = e.id
    BY Zenon DEF CrashInHeader, Calls
<1>2. /\ Proper(file) /\ bytes \in Nat /\ appends \in Nat
      /\ e.id \in 1 .. MaxAppends /\ MaxAppends \in Nat /\ appends' \in 0 .. MaxAppends
    BY <1>1, EntryIs, RaftLogAssumption, SMTT(30) DEF Good, Types
<1>3. Proper(f)
  <2>1. /\ SubSeq(Header(e), 1, 1) \in Seq(Nat) /\ SubSeq(Header(e), 1, 1) # <<>>
        /\ SubSeq(Header(e), 1, 1)[1] = e.term
      BY EntryIs
  <2>2. e.term \in Firsts
      BY EntryIs, FirstsAre, SMTT(30)
  <2> QED
      BY <1>2, <2>1, <2>2, PutProper, Zenon
<1>4. CASE headed
  <2>1. /\ f # <<>> /\ Disk(f, index, bytes) /\ Written(f, index, log)
        /\ Len(f) \in {bytes + 1, bytes + 2}
    <3>1. 1 \in 1 .. 2
        BY SMTT(30)
    <3> QED
        BY <1>1, <1>4, <3>1, PutHeader, Zenon
  <2> HIDE DEF f
  <2>2. /\ index \in Seq(Slot) /\ log \in Seq(Entries \cup {Torn})
        /\ Len(log) = Len(index) /\ Len(index) \in Nat /\ Len(index) < appends'
        /\ Cardinality(Torns(log)) < faults + 1
      BY <1>1, <1>4, Using, SMTT(30)
  <2>3. f \in Files /\ CellAt(f, bytes + 1) \in Nat
    <3>1. f \in Files /\ bytes + 1 \in Nat \ {0}
        BY <1>2, <1>3, SMTT(30) DEF Proper
    <3> QED
        BY <3>1, Cell, Zenon
  <2>4. /\ Len(index) <= appends' /\ appends' \in Nat
        /\ Len(f) > bytes => Len(index) < appends' /\ Len(f) <= bytes + 2 + CellAt(f, bytes + 1)
      BY <1>2, <2>1, <2>2, <2>3, SMTT(30)
  <2>5. /\ Disk(f, Loaded(f).index, Loaded(f).bytes)
        /\ Len(f) <= Loaded(f).bytes /\ Len(Loaded(f).index) <= appends'
        /\ Len(Loaded(f).index) \in {Len(log), Len(log) + 1}
        /\ Written(f, Loaded(f).index, log)
      BY <1>2, <2>1, <2>2, <2>3, <2>4, DownFinds, Zenon
  <2> QED
      BY <1>1, <1>2, <1>3, <2>1, <2>2, <2>5, DownGood, SMTT(30)
<1>5. CASE ~headed
  <2> HIDE DEF f
  <2> QED
      BY <1>1, <1>2, <1>3, <1>5, DownGood, Zenon
<1> QED
    BY <1>4, <1>5, Zenon

\* The contents of an entry, or a part of them, are written behind its header.
LEMMA PutContent ==
    ASSUME Good, headed, at = "header", NEW k \in 1 .. cur.len
    PROVE  LET g == Put(file, bytes + HeaderLen, SubSeq(Content(cur), 1, k))
           IN  /\ g # <<>> /\ g[1] = firstIndex
               /\ Disk(g, index, bytes) /\ Written(g, index, log)
               /\ Len(g) = bytes + 2 + k
               /\ CellAt(g, bytes) = cur.term /\ CellAt(g, bytes + 1) = cur.len
               /\ \A j \in 1 .. k : CellAt(g, bytes + 2 + j - 1) = Content(cur)[j]
<1> DEFINE cells == SubSeq(Content(cur), 1, k)
           off == bytes + 2
           g == Put(file, off, cells)
<1>1. cur \in Entries
    BY DEF Good, Types
<1>2. cur.len \in Nat /\ Content(cur) \in Seq(Nat) /\ Len(Content(cur)) = cur.len
    BY <1>1, EntryIs
<1>3. /\ cells \in Seq(Nat) /\ cells \in Seq(Int) /\ Len(cells) = k /\ cells # <<>>
      /\ \A j \in 1 .. k : cells[j] = Content(cur)[j]
  <2>1. PICK c \in Seq(Nat) : c = Content(cur) /\ k \in 1 .. Len(c)
      BY <1>2, Zenon
  <2>2. SubSeq(c, 1, k) \in Seq(Nat) /\ Len(SubSeq(c, 1, k)) = k
      BY <2>1
  <2>3. \A j \in 1 .. k : SubSeq(c, 1, k)[j] = c[j]
      BY <2>1
  <2>4. cells \in Seq(Nat) /\ Len(cells) = k /\ \A j \in 1 .. k : cells[j] = Content(cur)[j]
      BY <2>1, <2>2, <2>3, Zenon
  <2> HIDE DEF cells
  <2>5. cells \in Seq(Int) /\ cells # <<>>
      BY <2>4
  <2> QED
      BY <2>4, <2>5, Zenon
<1> HIDE DEF cells
<1>4. /\ Proper(file) /\ file # <<>> /\ file[1] = firstIndex /\ file \in Files
      /\ index \in Seq(Slot) /\ bytes \in Nat
      /\ log \in Seq(Entries \cup {Torn}) /\ Len(log) = Len(index) /\ Len(index) \in Nat
      /\ Disk(file, index, bytes) /\ Written(file, index, log)
    BY Using
<1>5. /\ Len(file) = bytes + 2
      /\ CellAt(file, bytes) = cur.term /\ CellAt(file, bytes + 1) = cur.len
    BY Zenon DEF Good, InUse, HeaderLen
<1>6. off \in Nat /\ bytes <= off /\ Len(log) <= Len(index)
    BY <1>4, SMTT(30)
<1>7. /\ g # <<>> /\ g[1] = file[1]
      /\ Disk(g, index, bytes) /\ Written(g, index, log)
  <2> HIDE DEF off
  <2> QED
      BY <1>3, <1>4, <1>6, PutBehind, SMTT(30)
<1>8. /\ Len(g) = IF off + Len(cells) > Len(file) THEN off + Len(cells) ELSE Len(file)
      /\ \A o \in Nat : CellAt(g, o) = IF o \in off .. off + Len(cells) - 1
                                       THEN cells[o - off + 1] ELSE CellAt(file, o)
  <2> HIDE DEF off
  <2> QED
      BY <1>3, <1>4, <1>6, PutIs, ZenonT(30)
<1>9. Put(file, bytes + HeaderLen, cells) = g
    BY DEF HeaderLen
<1> HIDE DEF g
<1>10. Len(g) = bytes + 2 + k
  <2>1. Len(g) = IF bytes + 2 + k > bytes + 2 THEN bytes + 2 + k ELSE bytes + 2
      BY <1>3, <1>5, <1>8, Zenon
  <2>2. bytes \in Nat /\ k \in Nat /\ k > 0
      BY <1>2, <1>4, SMTT(30)
  <2>3. bytes + 2 + k > bytes + 2
      BY <2>2
  <2> QED
      BY <2>1, <2>3, Zenon
<1>11. CellAt(g, bytes) = cur.term /\ CellAt(g, bytes + 1) = cur.len
  <2>1. /\ bytes \notin off .. off + Len(cells) - 1 /\ bytes + 1 \in Nat
        /\ bytes + 1 \notin off .. off + Len(cells) - 1
      BY <1>3, <1>4
  <2> QED
      BY <1>4, <1>5, <1>8, <2>1, ZenonT(30)
<1>12. ASSUME NEW j \in 1 .. k PROVE CellAt(g, bytes + 2 + j - 1) = Content(cur)[j]
  <2>1. PICK o \in Nat : o = bytes + 2 + j - 1
      BY <1>4
  <2>2. o \in off .. off + Len(cells) - 1 /\ o - off + 1 = j
      BY <1>3, <1>4, <2>1
  <2>3. CellAt(g, o) = cells[o - off + 1]
      BY <1>8, <2>2, Zenon
  <2> QED
      BY <1>3, <2>1, <2>2, <2>3, SMTT(30)
<1> QED
    BY <1>4, <1>7, <1>9, <1>10, <1>11, <1>12, ZenonT(30) DEF cells

\* What is written of an entry's contents leaves a file.
LEMMA ContentProper ==
    ASSUME Good, at = "header", NEW k \in 1 .. cur.len
    PROVE  Proper(Put(file, bytes + HeaderLen, SubSeq(Content(cur), 1, k)))
<1>1. cur \in Entries /\ Proper(file) /\ bytes \in Nat
    BY DEF Good, Types
<1>2. cur.len \in Nat /\ Content(cur) \in Seq(Nat) /\ Len(Content(cur)) = cur.len
    BY <1>1, EntryIs
<1>3. SubSeq(Content(cur), 1, k) \in Seq(Nat) /\ SubSeq(Content(cur), 1, k) # <<>>
    BY <1>2, SMTT(30)
<1>4. bytes + HeaderLen \in Nat /\ bytes + HeaderLen # 0
    BY <1>1 DEF HeaderLen
<1> QED
    BY <1>1, <1>3, <1>4, PutProper, Zenon

\* A crash within the write of the contents.
LEMMA CrashInContentGood ==
    ASSUME Good, NEW k, CrashInContent(k)
    PROVE  Good'
<1> DEFINE f == Put(file, bytes + HeaderLen, SubSeq(Content(cur), 1, k))
<1>1. at = "header" /\ k \in 1 .. cur.len /\ Down(f) /\ appends' = appends
    BY Zenon DEF CrashInContent
<1>2. cur \in Entries /\ bytes \in Nat /\ appends \in 0 .. MaxAppends /\ appends \in Nat
    BY <1>1, RaftLogAssumption, SMTT(30) DEF Good, Types
<1>3. Proper(f) /\ cur.len \in Nat
    BY <1>1, <1>2, ContentProper, EntryIs, Zenon
<1>4. CASE headed
  <2>1. /\ f # <<>> /\ Disk(f, index, bytes) /\ Written(f, index, log)
        /\ Len(f) = bytes + 2 + k /\ CellAt(f, bytes + 1) = cur.len
      BY <1>1, <1>4, PutContent, Zenon
  <2> HIDE DEF f
  <2>2. /\ index \in Seq(Slot) /\ log \in Seq(Entries \cup {Torn})
        /\ Len(log) = Len(index) /\ Len(index) \in Nat /\ Len(index) <= appends
        /\ Cardinality(Torns(log)) < faults + 1
      BY <1>1, <1>4, Using
  <2>3. Len(index) < appends
    <3>1. Len(file) = bytes + 2 /\ (Len(file) > bytes => Len(index) < appends)
        BY <1>1, <1>4, Zenon DEF Good, InUse, HeaderLen
    <3> QED
        BY <1>2, <3>1, SMTT(30)
  <2>4. f \in Files /\ Len(f) <= bytes + 2 + CellAt(f, bytes + 1)
      BY <1>1, <1>2, <1>3, <2>1, SMTT(30) DEF Proper
  <2>5. /\ Disk(f, Loaded(f).index, Loaded(f).bytes)
        /\ Len(f) <= Loaded(f).bytes /\ Len(Loaded(f).index) <= appends
        /\ Len(Loaded(f).index) \in {Len(log), Len(log) + 1}
        /\ Written(f, Loaded(f).index, log)
      BY <1>2, <2>1, <2>2, <2>3, <2>4, DownFinds, ZenonT(30)
  <2> QED
      BY <1>1, <1>2, <1>3, <2>1, <2>2, <2>5, DownGood, Zenon
<1>5. CASE ~headed
  <2> HIDE DEF f
  <2> QED
      BY <1>1, <1>2, <1>3, <1>5, DownGood, Zenon
<1> QED
    BY <1>4, <1>5

\* Append writes the contents, all or a part of them, and the index has the entry.
LEMMA AppendContentGood ==
    ASSUME Good, NEW k, AppendContent(k)
    PROVE  Good'
<1> DEFINE slot == [off |-> bytes, term |-> cur.term]
           e == IF k = cur.len THEN cur ELSE Torn
<1>1. /\ at = "header" /\ at' = "idle" /\ k \in 1 .. cur.len
      /\ file' = Put(file, bytes + HeaderLen, SubSeq(Content(cur), 1, k))
      /\ index' = Append(index, slot) /\ bytes' = bytes + 2 + cur.len
      /\ log' = Append(log, e)
      /\ UNCHANGED <<firstIndex, todo, want, appends, truncates, headed, skewed>>
    BY Zenon DEF AppendContent, Advance, HeaderLen
<1>14. \/ k = cur.len /\ e = cur /\ faults' = faults
       \/ k # cur.len /\ e = Torn /\ faults' = faults + 1
  <2>1. (k = cur.len /\ faults' = faults) \/ (k < cur.len /\ faults' = faults + 1)
      BY Zenon DEF AppendContent, Writes
  <2>2. k < cur.len => k # cur.len
    <3>1. cur.len \in Nat
        BY <1>1, EntryIs, Zenon DEF Good, Types
    <3> QED
        BY <1>1, <3>1
  <2> QED
      BY <2>1, <2>2, Zenon
<1> HIDE DEF e
<1>2. /\ cur \in Entries /\ index \in Seq(Slot) /\ bytes \in Nat
      /\ log \in Seq(Entries \cup {Torn}) /\ todo \in Seq(Terms)
      /\ appends \in Nat /\ faults \in Nat /\ firstIndex \in Firsts
      /\ want \in Request \cup {NoRequest}
    BY <1>1, RaftLogAssumption, SMTT(30) DEF Good, Types
<1>3. /\ cur.len \in Nat \ {0} /\ cur.term \in Nat /\ cur # Torn
      /\ Content(cur) \in Seq(Nat) /\ Len(Content(cur)) = cur.len
    BY <1>2, EntryIs, Zenon
<1>4. e \in Entries \cup {Torn} /\ faults' \in Nat
    BY <1>2, <1>14, SMTT(30)
<1>5. slot \in Slot /\ slot.off = bytes /\ slot.term = cur.term
    BY <1>2, <1>3, Zenon DEF Slot
<1> HIDE DEF slot
<1>6. /\ Len(log) = Len(index) /\ (index = <<>> => bytes \in {0, 1})
      /\ (index # <<>> => index[1].off \in {0, 1})
    BY <1>1, ZenonT(30) DEF Good, Stages
<1>7. /\ index' \in Seq(Slot) /\ Len(index') = Len(index) + 1 /\ Len(index) \in Nat
      /\ index'[Len(index) + 1] = slot /\ \A i \in 1 .. Len(index) : index'[i] = index[i]
    BY <1>1, <1>2, <1>5, SMTT(30)
<1>8. /\ log' \in Seq(Entries \cup {Torn}) /\ Len(log') = Len(index) + 1
      /\ log'[Len(index) + 1] = e /\ \A i \in 1 .. Len(index) : log'[i] = log[i]
    BY <1>1, <1>2, <1>4, <1>6, SMTT(30)
<1>9. Types'
  <2>1. Proper(file')
      BY <1>1, ContentProper, Zenon
  <2>2. bytes' \in Nat
      BY <1>1, <1>2, <1>3, SMTT(30)
  <2> QED
      BY <1>1, <1>4, <1>7, <1>8, <2>1, <2>2, Zenon DEF Good, Types
<1>10. Stages'
  <2>1. index' # <<>> /\ index'[1].off \in {0, 1}
    <3>1. CASE index = <<>>
      <4>1. Len(index) = 0 /\ Len(index) + 1 = 1
          BY <3>1
      <4>2. index'[1] = slot
          BY <1>7, <4>1, Zenon
      <4>3. index'[1].off \in {0, 1}
          BY <1>5, <1>6, <3>1, <4>2, Zenon
      <4>4. index' # <<>>
          BY <1>7, SMTT(30)
      <4> QED
          BY <4>3, <4>4, Zenon
    <3>2. CASE index # <<>>
        BY <1>2, <1>6, <1>7, <3>2, SMTT(30)
    <3> QED
        BY <3>1, <3>2, <1>7, Zenon
  <2> QED
      BY <1>1, <1>7, <1>8, <2>1, Zenon DEF Stages
<1>11. InUse'
  <2> SUFFICES ASSUME headed PROVE InUse'
      BY <1>1, Zenon DEF InUse
  <2>1. /\ file' # <<>> /\ file'[1] = firstIndex
        /\ Disk(file', index, bytes) /\ Written(file', index, log)
        /\ Len(file') = bytes + 2 + k
        /\ CellAt(file', bytes) = cur.term /\ CellAt(file', bytes + 1) = cur.len
        /\ \A j \in 1 .. k : CellAt(file', bytes + 2 + j - 1) = Content(cur)[j]
      BY <1>1, PutContent, Zenon
  <2>2. file' \in Files
      BY <1>9, SMTT(30) DEF Types, Proper
  <2>3. bytes < Len(file')
      BY <1>1, <1>2, <1>3, <2>1, SMTT(30)
  <2>4. slot = [off |-> bytes, term |-> CellAt(file', bytes)]
      BY <2>1, Zenon DEF slot
  <2>5. Disk(file', index', bytes')
    <3>1. Disk(file', Append(index, [off |-> bytes, term |-> CellAt(file', bytes)]),
               bytes + 2 + CellAt(file', bytes + 1))
        BY <1>2, <2>1, <2>2, <2>3, DiskAppend, Zenon
    <3> QED
        BY <1>1, <2>1, <2>4, <3>1, Zenon
  <2>6. Written(file', index', log')
    <3>1. e # Torn => EntryAt(file', slot.off, e)
        BY <1>5, <1>14, <2>1, Zenon DEF EntryAt, HeaderLen
    <3> QED
        BY <1>1, <1>2, <1>4, <1>5, <1>6, <2>1, <3>1, WrittenAppend, ZenonT(30)
  <2>7. Len(index) < appends
    <3>1. Len(file) = bytes + 2 /\ (Len(file) > bytes => Len(index) < appends)
        BY <1>1, Zenon DEF Good, InUse, HeaderLen
    <3> QED
        BY <1>2, <3>1, SMTT(30)
  <2>8. Cardinality(Torns(log')) <= faults'
    <3>1. \A i \in 1 .. Len(log') :
              i = Len(index) + 1 \/ (i \in 1 .. Len(log) /\ log'[i] = log[i])
        BY <1>6, <1>7, <1>8, SMTT(30)
    <3>2. Len(log) \in Nat /\ Len(log') \in Nat
        BY <1>6, <1>7, <1>8, SMTT(30)
    <3>3. Cardinality(Torns(log)) <= faults /\ Cardinality(Torns(log)) \in Nat
        BY <1>1, Using, Zenon
    <3>4. Cardinality(Torns(log')) \in Nat
        BY <3>2, TornsFinite, Zenon
    <3>5. CASE e = cur /\ faults' = faults
      <4>1. \A i \in 1 .. Len(log') :
                log'[i] = Torn => i \in 1 .. Len(log) /\ log[i] = Torn
          BY <1>3, <1>8, <3>1, <3>5, Zenon
      <4>2. Cardinality(Torns(log')) <= Cardinality(Torns(log))
          BY <3>2, <4>1, TornsPart, Zenon
      <4> QED
          BY <1>2, <3>3, <3>4, <3>5, <4>2, SMTT(30)
    <3>6. CASE faults' = faults + 1
      <4>1. Cardinality(Torns(log')) <= Cardinality(Torns(log)) + 1
        <5>1. \A i \in 1 .. Len(log') :
                  log'[i] = Torn => \/ i = Len(index) + 1
                                    \/ i \in 1 .. Len(log) /\ log[i] = Torn
            BY <3>1, Zenon
        <5> QED
            BY <3>2, <5>1, TornsMore, Zenon
      <4> QED
          BY <1>2, <3>3, <3>4, <3>6, <4>1, SMTT(30)
    <3> QED
        BY <1>14, <3>5, <3>6, ZenonT(30)
  <2>9. Len(index') <= appends /\ ~(Len(file') > bytes')
    <3>1. Len(file') <= bytes' /\ Len(file') \in Nat
        BY <1>1, <1>2, <1>3, <2>1, SMTT(90)
    <3>2. bytes' \in Nat
        BY <1>9, Zenon DEF Types
    <3>3. PICK n \in Nat : n = Len(index)
        BY <1>7, Zenon
    <3>4. Len(index') = n + 1 /\ n < appends
        BY <1>7, <2>7, <3>3, ZenonT(30)
    <3> QED
        BY <1>2, <3>1, <3>2, <3>4, SMTT(30)
  <2> QED
      BY <1>1, <2>1, <2>5, <2>6, <2>8, <2>9, Zenon DEF InUse
<1>12. Found'
    BY <1>1 DEF Found
<1>13. Asked'
  <2> SUFFICES ASSUME headed, want # NoRequest PROVE Asked'
      BY <1>1, Zenon DEF Asked
  <2>1. /\ want.prev \in Int /\ want.n \in Nat /\ Len(todo) \in Nat /\ firstIndex \in Int
      BY <1>2, FirstsAre, SMTT(30) DEF Request
  <2>2. Remaining = Len(todo) + 1 /\ Remaining' = Len(todo)
      BY <1>1, <2>1, SMTT(30) DEF Remaining
  <2>3. /\ Remaining <= want.n /\ \A j \in 1 .. Len(todo) : todo[j] = want.term
        /\ cur.term = want.term
        /\ firstIndex <= want.prev /\ LastIndex + Remaining = want.prev + want.n
        /\ \A j \in 1 .. want.n - Remaining :
              index[want.prev + j - firstIndex + 1].term = want.term
      BY <1>1, Zenon DEF Good, Asked
  <2>4. LastIndex = Len(index) + firstIndex - 1 /\ LastIndex' = Len(index) + firstIndex
      BY <1>1, <1>7, <2>1, SMTT(30) DEF LastIndex
  <2>5. /\ Len(index) + firstIndex + Len(todo) = want.prev + want.n
        /\ firstIndex <= want.prev /\ Len(todo) + 1 <= want.n
      BY <1>7, <2>1, <2>2, <2>3, <2>4, SMTT(30)
  <2>6. PICK p \in Int, n \in Int, t \in Int, x \in Int, first \in Int :
            /\ p = want.prev /\ n = want.n /\ t = Len(todo) /\ x = Len(index)
            /\ first = firstIndex
      BY <1>7, <2>1, SMTT(30)
  <2>7. x + first + t = p + n /\ first <= p
      BY <2>5, <2>6, Zenon
  <2>8. ASSUME NEW j \in 1 .. want.n - Len(todo)
        PROVE  index'[want.prev + j - firstIndex + 1].term = want.term
    <3>1. CASE j = want.n - Len(todo)
      <4>1. want.prev + j - firstIndex + 1 = Len(index) + 1
        <5>1. j = n - t
            BY <2>6, <3>1, Zenon
        <5>2. p + j - first + 1 = x + 1
            BY <2>7, <5>1, SMTT(30)
        <5> QED
            BY <2>6, <5>2, Zenon
      <4> QED
          BY <1>5, <1>7, <2>3, <4>1, Zenon
    <3>2. CASE j # want.n - Len(todo)
      <4>1. /\ j \in 1 .. want.n - Remaining
            /\ want.prev + j - firstIndex + 1 \in 1 .. Len(index)
        <5>1. j \in 1 .. n - t /\ j # n - t
            BY <2>6, <3>2, Zenon
        <5>2. j \in 1 .. n - (t + 1) /\ p + j - first + 1 \in 1 .. x
            BY <2>7, <5>1, SMTT(30)
        <5> QED
            BY <2>2, <2>6, <5>2, Zenon
      <4> QED
          BY <1>7, <2>3, <4>1, Zenon
    <3> QED
        BY <3>1, <3>2, Zenon
  <2>9. Remaining' <= want.n /\ LastIndex' + Remaining' = want.prev + want.n
      BY <1>7, <2>1, <2>2, <2>3, <2>4, SMTT(30)
  <2> QED
      BY <1>1, <2>2, <2>3, <2>8, <2>9, Zenon DEF Asked
<1> QED
    BY <1>9, <1>10, <1>11, <1>12, <1>13, Zenon DEF Good

\* Append gives up before anything is written.
LEMMA HeaderFailsGood ==
    ASSUME Good, NEW e \in Entries, HeaderFails(e)
    PROVE  Good'
<1>1. /\ at = "idle" /\ e.id = appends + 1 /\ appends' = e.id /\ want' = NoRequest
      /\ todo' = IF todo = <<>> THEN todo ELSE Tail(todo)
      /\ UNCHANGED <<file, firstIndex, bytes, index, at, cur, log, truncates, faults, headed>>
    BY Zenon DEF HeaderFails, Calls, memory
<1>2. e.id \in 1 .. MaxAppends /\ appends \in Nat /\ todo \in Seq(Terms)
    BY EntryIs, RaftLogAssumption, SMTT(30) DEF Good, Types
<1>3. appends' \in 0 .. MaxAppends /\ todo' \in Seq(Terms)
    BY <1>1, <1>2, RaftLogAssumption, SMTT(30)
<1>4. Types' /\ Stages'
    BY <1>1, <1>3, Zenon DEF Good, Types, Stages
<1>5. InUse'
  <2> SUFFICES ASSUME headed PROVE InUse'
      BY <1>1, Zenon DEF InUse
  <2>1. /\ file # <<>> /\ file[1] = firstIndex
        /\ Disk(file, index, bytes) /\ Written(file, index, log)
        /\ Cardinality(Torns(log)) <= faults
        /\ Len(file) > bytes => Len(file) = bytes + HeaderLen
      BY <1>1, Using, Zenon DEF HeaderLen
  <2>2. Len(index) <= appends' /\ Len(index) < appends'
      BY <1>1, Using
  <2> QED
      BY <1>1, <2>1, <2>2, Zenon DEF InUse
<1>6. Found' /\ Asked'
    BY <1>1, Zenon DEF Found, Asked
<1> QED
    BY <1>4, <1>5, <1>6, Zenon DEF Good

\* Append gives up: the header stays behind the entries.
LEMMA AppendFailsGood ==
    ASSUME Good, AppendFails
    PROVE  Good'
<1>1. /\ at = "header" /\ at' = "idle" /\ want' = NoRequest
      /\ UNCHANGED <<file, firstIndex, bytes, index, todo, log, appends, truncates, faults,
                     headed, skewed>>
    BY Zenon DEF AppendFails, memory
<1>2. Types' /\ Stages'
    BY <1>1, Zenon DEF Good, Types, Stages
<1>3. InUse'
    BY <1>1, Zenon DEF Good, InUse
<1>4. Found' /\ Asked'
    BY <1>1, Zenon DEF Found, Asked
<1> QED
    BY <1>2, <1>3, <1>4, Zenon DEF Good

\* The end of Truncate, for the last entry: the file is cut where it begins.
LEMMA CutLast ==
    ASSUME Good, NEW i \in Int, at \in {"idle", "set"}, CutAt(i), index # <<>>,
           i - firstIndex + 1 = Len(index), at = "set" => i = cur,
           UNCHANGED <<firstIndex, appends, faults>>
    PROVE  /\ Proper(file') /\ bytes' \in Nat /\ index' \in Seq(Slot)
           /\ log' \in Seq(Entries \cup {Torn}) /\ Len(log') = Len(index')
           /\ Len(index') = Len(index) - 1 /\ headed' \in BOOLEAN
           /\ index' = <<>> => bytes' \in {0, 1}
           /\ index' # <<>> => index'[1].off \in {0, 1}
           /\ InUse'
<1> DEFINE n == Len(index)
           off == index[n].off
<1>1. /\ file' = Cut(file, off) /\ bytes' = off /\ index' = Erased(index, n)
      /\ log' = Erased(log, n) /\ headed' = (headed /\ off > 0) /\ at' = "idle"
    BY Zenon DEF CutAt
<1>2. /\ Proper(file) /\ file \in Files /\ index \in Seq(Slot) /\ firstIndex \in Firsts
      /\ log \in Seq(Entries \cup {Torn}) /\ appends \in Nat /\ faults \in Nat
    BY RaftLogAssumption, SMTT(30) DEF Good, Types, Proper
<1>3. /\ Len(log) = n /\ index[1].off \in {0, 1}
      /\ at = "set" /\ headed => file = <<cur>> /\ firstIndex = cur
    BY Zenon DEF Good, Stages
<1>4. n \in Nat \ {0} /\ n \in 1 .. Len(index) /\ log # <<>>
    BY <1>2, <1>3, SMTT(30)
<1>5. off \in Nat
    BY <1>2, <1>4, EndIs, Zenon
<1>6. /\ index' \in Seq(Slot) /\ Len(index') = n - 1 /\ \A j \in 1 .. n - 1 : index'[j] = index[j]
    BY <1>1, <1>2, ErasedLast, Zenon
<1>7. /\ log' \in Seq(Entries \cup {Torn}) /\ Len(log') = n - 1
      /\ \A j \in 1 .. n - 1 : log'[j] = log[j]
    BY <1>1, <1>2, <1>3, <1>4, ErasedLast, Zenon
<1>8. Proper(file') /\ file' \in Files
    BY <1>1, <1>2, <1>5, CutProper, Zenon DEF Proper
<1>9. /\ Len(file') = off /\ file' \in Seq(Int)
      /\ \A o \in Nat : CellAt(file', o) = IF o < off THEN CellAt(file, o) ELSE 0
    BY <1>1, <1>2, <1>5, CutIs, ZenonT(30)
<1>10. ASSUME off > 0
       PROVE  file' # <<>> /\ file'[1] = CellAt(file, 0)
  <2>1. CellAt(file', 0) = CellAt(file, 0)
      BY <1>5, <1>9, <1>10, SMTT(30)
  <2>2. file' # <<>> /\ 1 \in 1 .. Len(file')
      BY <1>5, <1>9, <1>10, SMTT(30)
  <2> QED
      BY <2>1, <2>2, SMTT(30) DEF CellAt
<1>11. index' = <<>> => off \in {0, 1}
  <2>1. index' = <<>> => Len(index') = 0
      OBVIOUS
  <2>2. PICK m \in Nat : m = n
      BY <1>4
  <2>3. Len(index') = m - 1
      BY <1>6, <2>2, Zenon
  <2>4. index' = <<>> => m = 1
      BY <2>1, <2>3
  <2> QED
      BY <1>3, <2>2, <2>4, Zenon
<1>12. index' # <<>> => index'[1].off \in {0, 1}
  <2>1. index' # <<>> => 1 \in 1 .. n - 1
      BY <1>4, <1>6, SMTT(30)
  <2> QED
      BY <1>3, <1>6, <2>1, Zenon
<1> HIDE DEF off, n
<1>13. InUse'
  <2> SUFFICES ASSUME headed, off > 0 PROVE InUse'
      BY <1>1, Zenon DEF InUse
  <2>1. file' # <<>> /\ file'[1] = CellAt(file, 0)
      BY <1>10, Zenon
  <2>2. CASE at = "idle"
    <3>1. /\ file # <<>> /\ file[1] = firstIndex /\ bytes \in Nat
          /\ Disk(file, index, bytes) /\ Written(file, index, log)
          /\ Len(index) <= appends /\ Cardinality(Torns(log)) <= faults
          /\ Cardinality(Torns(log)) \in Nat
        BY <2>2, Using, Zenon
    <3>2. Disk(file', index', off)
      <4>1. \A o \in Nat : o < Len(file') => CellAt(file', o) = CellAt(file, o)
          BY <1>9, Zenon
      <4>2. Len(file') = index[Len(index)].off
          BY <1>9, Zenon DEF off, n
      <4>3. Disk(file', Erased(index, Len(index)), Len(file'))
          BY <1>2, <1>8, <3>1, <4>1, <4>2, DiskFront, ZenonT(30)
      <4> QED
          BY <1>1, <1>9, <4>3, Zenon DEF n
    <3>3. Written(file, index', log')
      <4>1. \A j \in 1 .. Len(log') :
                j \in 1 .. Len(log) /\ log'[j] = log[j] /\ index'[j] = index[j]
          BY <1>3, <1>4, <1>6, <1>7, SMTT(30)
      <4> QED
          BY <3>1, <4>1, WrittenPart, SMTT(30)
    <3>4. Written(file', index', log')
      <4>1. \A o \in 0 .. off - 1 : CellAt(file', o) = CellAt(file, o)
          BY <1>5, <1>9, SMTT(30)
      <4>2. Len(log') <= Len(index')
          BY <1>4, <1>6, <1>7, SMTT(30)
      <4> QED
          BY <1>2, <1>5, <1>6, <1>7, <1>8, <3>2, <3>3, <4>1, <4>2, WrittenSame, ZenonT(30)
    <3>5. Cardinality(Torns(log')) <= faults
      <4>1. \A j \in 1 .. Len(log') : log'[j] = Torn => j \in 1 .. Len(log) /\ log[j] = Torn
          BY <1>3, <1>4, <1>7, SMTT(30)
      <4>2. Len(log) \in Nat /\ Len(log') \in Nat
          BY <1>3, <1>4, <1>7, SMTT(30)
      <4>3. Cardinality(Torns(log')) <= Cardinality(Torns(log))
          BY <4>1, <4>2, TornsPart, Zenon
      <4>4. Cardinality(Torns(log')) \in Nat
          BY <4>2, TornsFinite, Zenon
      <4> QED
          BY <1>2, <3>1, <4>3, <4>4, SMTT(30)
    <3>6. file'[1] = firstIndex
      <4>1. file[1] = CellAt(file, 0)
          BY <1>2, <3>1, SMTT(30) DEF CellAt, Files
      <4> QED
          BY <2>1, <3>1, <4>1, Zenon
    <3>7. Len(index') <= appends' /\ ~(Len(file') > bytes')
      <4>1. n <= appends
          BY <3>1, Zenon DEF n
      <4> QED
          BY <1>1, <1>2, <1>4, <1>5, <1>6, <1>9, <4>1, SMTT(30)
    <3> QED
        BY <1>1, <2>1, <3>2, <3>4, <3>5, <3>6, <3>7, ZenonT(30) DEF InUse
  <2>3. CASE at = "set"
    <3>1. n = 1
      <4>1. i - i + 1 = n
          BY <1>3, <2>3, Zenon DEF n
      <4> QED
          BY <1>4, <4>1, SMTT(30)
    <3>2. off = 1 /\ index' = <<>> /\ log' = <<>> /\ CellAt(file, 0) = firstIndex
      <4>1. off = 1
          BY <1>3, <3>1, SMTT(30) DEF off
      <4>2. index' = <<>> /\ log' = <<>>
          BY <1>6, <1>7, <3>1, SMTT(30)
      <4>3. CellAt(file, 0) = firstIndex
        <5>1. file = <<cur>> /\ firstIndex = cur
            BY <1>3, <2>3, Zenon
        <5>2. CellAt(<<cur>>, 0) = cur
            BY SMTT(30) DEF CellAt
        <5> QED
            BY <5>1, <5>2, Zenon
      <4> QED
          BY <4>1, <4>2, <4>3, Zenon
    <3>3. Disk(file', <<>>, 1) /\ Written(file', <<>>, <<>>)
        BY SMTT(30) DEF Disk, Written
    <3>4. Cardinality(Torns(log')) = 0
      <4>1. Torns(log') = {}
          BY <3>2, SMTT(30) DEF Torns
      <4> QED
          BY <4>1, FS_EmptySet, Zenon
    <3>5. /\ Len(index') <= appends' /\ ~(Len(file') > bytes')
          /\ Cardinality(Torns(log')) <= faults'
        BY <1>1, <1>2, <1>5, <1>6, <1>9, <3>1, <3>4, SMTT(30)
    <3> QED
        BY <1>1, <2>1, <3>2, <3>3, <3>5, ZenonT(30) DEF InUse
  <2> QED
      BY <2>2, <2>3, Zenon
<1>14. headed' \in BOOLEAN
    BY <1>1, Zenon
<1> QED
    BY <1>1, <1>5, <1>6, <1>7, <1>8, <1>11, <1>12, <1>13, <1>14, ZenonT(30) DEF n

\* An index that ValidIndex accepts, and that has no entry after it.
LEMMA LastPosition ==
    ASSUME Good, NEW i \in Int, ValidIndex(i), ~(i - firstIndex + 1 < Len(index))
    PROVE  index # <<>> /\ i - firstIndex + 1 = Len(index)
<1>1. /\ index # <<>> /\ index \in Seq(Slot) /\ firstIndex \in Int
      /\ Unsigned(i - firstIndex) < Len(index)
    BY FirstsAre, Zenon DEF Good, Types, ValidIndex
<1>2. PICK d \in Int, n \in Nat : d = i - firstIndex /\ n = Len(index)
    BY <1>1, SMTT(30)
<1>3. n > 0 /\ Unsigned(d) < n /\ ~(d + 1 < n)
    BY <1>1, <1>2, SMTT(30)
<1>4. d < n
    BY <1>2, <1>3, SMTT(30) DEF Unsigned
<1> QED
    BY <1>1, <1>2, <1>3, <1>4, SMTT(30)

\* Truncate of the last entry.
LEMMA TruncateGood ==
    ASSUME Good, NEW i \in Indices, Truncate(i), ~skewed'
    PROVE  Good'
<1>1. /\ at = "idle" /\ ValidIndex(i) /\ CutAt(i) /\ at' = "idle" /\ want' = NoRequest
      /\ ~(i - firstIndex + 1 < Len(index))
      /\ UNCHANGED <<firstIndex, todo, appends, faults>>
    BY Zenon DEF Truncate, CutAt
<1>2. i \in Int
    BY DEF Indices
<1>3. index # <<>> /\ i - firstIndex + 1 = Len(index)
    BY <1>1, <1>2, LastPosition
<1>4. /\ Proper(file') /\ bytes' \in Nat /\ index' \in Seq(Slot)
      /\ log' \in Seq(Entries \cup {Torn}) /\ Len(log') = Len(index')
      /\ headed' \in BOOLEAN
      /\ index' = <<>> => bytes' \in {0, 1}
      /\ index' # <<>> => index'[1].off \in {0, 1}
      /\ InUse'
    BY <1>1, <1>2, <1>3, CutLast, Zenon
<1>5. Types'
    BY <1>1, <1>4, Zenon DEF Good, Types
<1>6. Stages'
    BY <1>1, <1>4, Zenon DEF Stages
<1>7. Found' /\ Asked'
    BY <1>1, Zenon DEF Found, Asked
<1> QED
    BY <1>4, <1>5, <1>6, <1>7, Zenon DEF Good

\* Truncate of the first entry: the file is emptied.
LEMMA TruncateFirstGood ==
    ASSUME Good, NEW i \in Indices, TruncateFirst(i)
    PROVE  Good'
<1>1. /\ at = "idle" /\ index # <<>> /\ i <= firstIndex
      /\ file' = <<>> /\ bytes' = 0 /\ ~headed' /\ headed' \in BOOLEAN
      /\ at' = "emptied" /\ cur' = i /\ want' = NoRequest
      /\ UNCHANGED <<firstIndex, index, todo, log, appends, faults>>
    BY Zenon DEF TruncateFirst, ValidIndex
<1>2. cur' \in Firsts
  <2>1. firstIndex \in Firsts /\ i \in Int /\ -3 <= i
      BY DEF Good, Types, Indices
  <2> QED
      BY <1>1, <2>1, FirstsAre, SMTT(30)
<1>3. Proper(file')
    BY <1>1 DEF Proper, Files
<1>4. Types'
    BY <1>1, <1>2, <1>3, Zenon DEF Good, Types
<1>5. Stages'
    BY <1>1, Zenon DEF Good, Stages
<1>6. InUse' /\ Found' /\ Asked'
    BY <1>1, Zenon DEF InUse, Found, Asked
<1> QED
    BY <1>4, <1>5, <1>6, Zenon DEF Good

\* Truncate of the first entry: the first index is written again.
LEMMA TruncateSetGood ==
    ASSUME Good, TruncateSet
    PROVE  Good'
<1>1. /\ at = "emptied" /\ at' = "set" /\ firstIndex' = cur /\ headed' /\ headed' \in BOOLEAN
      /\ file' = Put(file, bytes, <<cur>>) /\ bytes' = bytes + 1
      /\ UNCHANGED <<index, cur, todo, log, want, appends, faults>>
    BY Zenon DEF TruncateSet, WriteFirst
<1>2. /\ cur \in Firsts /\ cur \in Int /\ file = <<>> /\ bytes = 0 /\ index # <<>>
      /\ want = NoRequest
    BY <1>1, FirstsAre, Zenon DEF Good, Types, Stages
<1>3. file' = <<cur>> /\ bytes' = 1
    BY <1>1, <1>2, PutFirst, SMTT(30)
<1>4. Proper(file')
    BY <1>2, <1>3, OnlyFirst, ZenonT(30)
<1>5. Types'
    BY <1>1, <1>2, <1>3, <1>4, SMTT(30) DEF Good, Types
<1>6. Stages'
  <2>1. cur' <= firstIndex'
      BY <1>1, <1>2
  <2> QED
      BY <1>1, <1>2, <1>3, <2>1, Zenon DEF Good, Stages
<1>7. InUse' /\ Found' /\ Asked'
    BY <1>1, Zenon DEF InUse, Found, Asked
<1> QED
    BY <1>5, <1>6, <1>7, Zenon DEF Good

\* Truncate of the first entry: the first index could not be written.
LEMMA TruncateSetFailsGood ==
    ASSUME Good, TruncateSetFails
    PROVE  Good'
<1>1. /\ at = "emptied" /\ at' = "set"
      /\ UNCHANGED <<file, firstIndex, bytes, index, cur, todo, log, want, appends, faults,
                     headed>>
    BY DEF TruncateSetFails, memory, history
<1>2. Types' /\ Stages'
    BY <1>1, Zenon DEF Good, Types, Stages
<1>3. InUse' /\ Found' /\ Asked'
    BY <1>1, Zenon DEF InUse, Found, Asked
<1> QED
    BY <1>2, <1>3, Zenon DEF Good

\* Truncate of the first entry, which is the last one too: the rest.
LEMMA TruncateRestGood ==
    ASSUME Good, TruncateRest, ~skewed'
    PROVE  Good'
<1>1. /\ at = "set" /\ CutAt(cur) /\ at' = "idle" /\ ~(cur - firstIndex + 1 < Len(index))
      /\ UNCHANGED <<firstIndex, todo, want, appends, faults>>
    BY Zenon DEF TruncateRest, CutAt
<1>2. /\ cur \in Int /\ firstIndex \in Int /\ index \in Seq(Slot) /\ index # <<>>
      /\ cur <= firstIndex /\ want = NoRequest
    BY <1>1, FirstsAre, Zenon DEF Good, Types, Stages
<1>3. cur - firstIndex + 1 = Len(index)
  <2>1. PICK n \in Nat : n = Len(index)
      BY <1>2
  <2>2. n > 0
      BY <1>2, <2>1, SMTT(30)
  <2>3. PICK c \in Int, first \in Int : c = cur /\ first = firstIndex /\ c <= first
      BY <1>2, Zenon
  <2>4. ~(c - first + 1 < n)
      BY <1>1, <2>1, <2>3, Zenon
  <2>5. c - first + 1 = n
      BY <2>2, <2>3, <2>4, SMTT(30)
  <2> QED
      BY <2>1, <2>3, <2>5, Zenon
<1>4. /\ Proper(file') /\ bytes' \in Nat /\ index' \in Seq(Slot)
      /\ log' \in Seq(Entries \cup {Torn}) /\ Len(log') = Len(index')
      /\ headed' \in BOOLEAN
      /\ index' = <<>> => bytes' \in {0, 1}
      /\ index' # <<>> => index'[1].off \in {0, 1}
      /\ InUse'
    BY <1>1, <1>2, <1>3, CutLast, ZenonT(30)
<1>5. Types'
    BY <1>1, <1>4, Zenon DEF Good, Types
<1>6. Stages'
    BY <1>1, <1>4, Zenon DEF Stages
<1>7. Found' /\ Asked'
    BY <1>1, <1>2, Zenon DEF Found, Asked
<1> QED
    BY <1>4, <1>5, <1>6, <1>7, Zenon DEF Good

\* AppendEntries, as far as its loop, has no entry of the request in place yet.
LEMMA AskedFirst ==
    ASSUME NEW prev \in Int, NEW term \in Terms, NEW n \in Nat,
           at' = "idle", todo' = [j \in 1 .. n |-> term],
           want' \in {NoRequest, [prev |-> prev, term |-> term, n |-> n]},
           headed' /\ want' # NoRequest => firstIndex' <= prev /\ LastIndex' = prev
    PROVE  Asked'
<1> SUFFICES ASSUME headed', want' # NoRequest PROVE Asked'
    BY Zenon DEF Asked
<1>1. want'.prev = prev /\ want'.term = term /\ want'.n = n
    BY SMTT(30)
<1>2. Len(todo') = n /\ \A j \in 1 .. n : todo'[j] = term
    BY SMTT(30)
<1>3. Remaining' = n
    BY <1>2, SMTT(30) DEF Remaining
<1>4. n - n = 0 /\ n <= n /\ 1 .. 0 = {}
    BY SMTT(30)
<1>5. firstIndex' <= prev /\ LastIndex' + n = prev + n
    OBVIOUS
<1>6. Remaining' <= want'.n /\ \A j \in 1 .. Len(todo') : todo'[j] = want'.term
    BY <1>1, <1>2, <1>3, <1>4, Zenon
<1>7. firstIndex' <= want'.prev /\ LastIndex' + Remaining' = want'.prev + want'.n
    BY <1>1, <1>3, <1>5, Zenon
<1>8. 1 .. want'.n - Remaining' = {}
    BY <1>1, <1>3, <1>4, Zenon
<1> QED
    BY <1>6, <1>7, <1>8, Zenon DEF Asked

\* AppendEntries up to its loop.
LEMMA AppendEntriesGood ==
    ASSUME Good, NEW prev \in Indices, NEW prevTerm \in Terms, NEW term \in Terms,
           NEW n \in 0 .. MaxAppends, AppendEntries(prev, prevTerm, term, n), ~skewed'
    PROVE  Good'
<1> DEFINE i == prev + 1
<1>1. /\ at = "idle" /\ ValidIndex(prev)
      /\ todo' = [j \in 1 .. n |-> term]
      /\ want' = IF ContainLog(i, term) THEN NoRequest
                 ELSE [prev |-> prev, term |-> term, n |-> n]
      /\ IF ValidIndex(i) /\ ~ContainLog(i, term)
         THEN CutAt(i)
         ELSE UNCHANGED <<file, bytes, index, at, cur, log, headed>>
      /\ UNCHANGED <<firstIndex, appends, faults>>
    BY Zenon DEF AppendEntries, InsertIndex, ContainLog
<1>2. /\ prev \in Int /\ i \in Int /\ prev >= -3 /\ i >= -3 /\ n \in Nat
      /\ firstIndex \in Firsts /\ firstIndex \in Int /\ index \in Seq(Slot)
      /\ appends \in 0 .. MaxAppends /\ MaxAppends \in Nat
    BY RaftLogAssumption, FirstsAre, SMTT(30) DEF Indices, Good, Types
<1>3. todo' \in Seq(Terms) /\ want' \in Request \cup {NoRequest}
      /\ want' \in {NoRequest, [prev |-> prev, term |-> term, n |-> n]}
  <2>1. todo' \in Seq(Terms)
      BY <1>1, <1>2, SMTT(30)
  <2>2. [prev |-> prev, term |-> term, n |-> n] \in Request
      BY <1>2, Zenon DEF Request
  <2> QED
      BY <1>1, <2>1, <2>2, ZenonT(30)
<1>4. ASSUME headed
      PROVE  /\ firstIndex <= prev /\ prev <= LastIndex
             /\ ValidIndex(i) <=> i \in firstIndex .. LastIndex
  <2>1. Len(index) <= appends
      BY <1>1, <1>4, Using, Zenon
  <2>2. Len(index) <= MaxAppends
      BY <1>2, <2>1, SMTT(30)
  <2>3. ValidIndex(prev) <=> prev \in firstIndex .. LastIndex
      BY <1>2, <2>2, ValidIs, Zenon
  <2>4. ValidIndex(i) <=> i \in firstIndex .. LastIndex
      BY <1>2, <2>2, ValidIs, Zenon
  <2>5. LastIndex \in Int
      BY <1>2, SMTT(30) DEF LastIndex
  <2> QED
      BY <1>1, <1>2, <2>3, <2>4, <2>5, SMTT(30)
<1>5. CASE ValidIndex(i) /\ ~ContainLog(i, term)
  <2>1. CutAt(i) /\ at' = "idle" /\ ~(i - firstIndex + 1 < Len(index))
      BY <1>1, <1>5, Zenon DEF CutAt
  <2>2. index # <<>> /\ i - firstIndex + 1 = Len(index)
      BY <1>2, <1>5, <2>1, LastPosition, Zenon
  <2>3. /\ Proper(file') /\ bytes' \in Nat /\ index' \in Seq(Slot)
        /\ log' \in Seq(Entries \cup {Torn}) /\ Len(log') = Len(index')
        /\ Len(index') = Len(index) - 1 /\ headed' \in BOOLEAN
        /\ index' = <<>> => bytes' \in {0, 1}
        /\ index' # <<>> => index'[1].off \in {0, 1}
        /\ InUse'
      BY <1>1, <1>2, <2>1, <2>2, CutLast, Zenon
  <2>4. Types'
      BY <1>1, <1>3, <2>1, <2>3, ZenonT(30) DEF Good, Types
  <2>5. Stages'
      BY <2>1, <2>3, Zenon DEF Stages
  <2>6. Found'
      BY <2>1, Zenon DEF Found
  <2>7. Asked'
    <3>1. headed' => headed
        BY <2>1, Zenon DEF CutAt
    <3>2. LastIndex' = prev
      <4>1. PICK k \in Nat : k = Len(index)
          BY <1>2
      <4>2. Len(index') = k - 1
          BY <2>3, <4>1, Zenon
      <4>3. i - firstIndex + 1 = k
          BY <2>2, <4>1, Zenon
      <4>4. LastIndex' = k - 1 + firstIndex - 1
          BY <1>1, <4>2, Zenon DEF LastIndex
      <4> QED
          BY <1>2, <4>3, <4>4, SMTT(30)
    <3>3. headed' => firstIndex' <= prev
        BY <1>1, <1>4, <3>1, Zenon
    <3> QED
        BY <1>1, <1>2, <1>3, <2>1, <3>2, <3>3, AskedFirst, ZenonT(30)
  <2> QED
      BY <2>3, <2>4, <2>5, <2>6, <2>7, Zenon DEF Good
<1>6. CASE ~(ValidIndex(i) /\ ~ContainLog(i, term))
  <2>1. UNCHANGED <<file, bytes, index, at, cur, log, headed>>
      BY <1>1, <1>6, Zenon
  <2>2. Types'
      BY <1>1, <1>3, <2>1, Zenon DEF Good, Types
  <2>3. Stages'
      BY <1>1, <2>1, Zenon DEF Good, Stages
  <2>4. InUse'
      BY <1>1, <2>1, Zenon DEF Good, InUse
  <2>5. Found'
      BY <1>1, <2>1, Zenon DEF Found
  <2>6. Asked'
    <3>1. ASSUME headed', want' # NoRequest
          PROVE  firstIndex' <= prev /\ LastIndex' = prev
      <4>1. headed /\ ~ValidIndex(i)
          BY <1>1, <1>6, <2>1, <3>1, Zenon
      <4>2. /\ firstIndex <= prev /\ prev <= LastIndex /\ ~(i \in firstIndex .. LastIndex)
          BY <1>4, <4>1, ZenonT(30)
      <4>3. LastIndex \in Int /\ LastIndex' = LastIndex
          BY <1>1, <1>2, <2>1, SMTT(30) DEF LastIndex
      <4> QED
          BY <1>1, <1>2, <4>2, <4>3, SMTT(30)
    <3>2. at' = "idle"
        BY <1>1, <2>1, Zenon
    <3> QED
        BY <1>1, <1>2, <1>3, <3>1, <3>2, AskedFirst, ZenonT(30)
  <2> QED
      BY <2>2, <2>3, <2>4, <2>5, <2>6, Zenon DEF Good
<1> QED
    BY <1>5, <1>6, Zenon

-----------------------------------------------------------------------------
(* The inductive invariant.                                                 *)

\* A log that was just constructed satisfies the invariant.
LEMMA InitGood ==
    ASSUME Init
    PROVE  IInv
<1>1. /\ file = <<>> /\ firstIndex = -1 /\ bytes = 0 /\ index = <<>>
      /\ at = "new" /\ todo = <<>> /\ log = <<>> /\ want = NoRequest /\ appends = 0
      /\ faults = 0 /\ headed = FALSE /\ skewed = FALSE
    BY DEF Init
<1>2. Proper(file)
    BY <1>1 DEF Proper, Files
<1>3. Types
  <2>1. index \in Seq(Slot) /\ todo \in Seq(Terms) /\ log \in Seq(Entries \cup {Torn})
      BY <1>1
  <2>2. firstIndex \in Firsts /\ bytes \in Nat /\ appends \in 0 .. MaxAppends /\ faults \in Nat
      BY <1>1, FirstsAre, RaftLogAssumption
  <2> QED
      BY <1>1, <1>2, <2>1, <2>2, Zenon DEF Types
<1>4. Stages
    BY <1>1, Zenon DEF Stages
<1>5. InUse /\ Found /\ Asked
    BY <1>1, Zenon DEF InUse, Found, Asked
<1> QED
    BY <1>1, <1>3, <1>4, <1>5, Zenon DEF IInv, Good

\* A cut in the middle, or of a header, is never forgotten.
LEMMA CutRemembered ==
    ASSUME skewed \in BOOLEAN, [Next]_vars
    PROVE  skewed' \in BOOLEAN /\ (skewed => skewed')
<1>1. ASSUME NEW i, CutAt(i)
      PROVE  skewed' \in BOOLEAN /\ (skewed => skewed')
    BY <1>1, Zenon DEF CutAt
<1>2. CASE UNCHANGED skewed
    BY <1>2, Zenon
<1>3. CASE \E i \in Indices : Truncate(i)
    BY <1>1, <1>3, Zenon DEF Truncate
<1>4. CASE TruncateRest
    BY <1>1, <1>4, Zenon DEF TruncateRest
<1>5. CASE \E prev \in Indices, prevTerm, term \in Terms, n \in 0 .. MaxAppends :
               AppendEntries(prev, prevTerm, term, n)
  <2>1. PICK prev \in Indices, prevTerm \in Terms, term \in Terms, n \in 0 .. MaxAppends :
            AppendEntries(prev, prevTerm, term, n)
      BY <1>5, Zenon
  <2>2. UNCHANGED skewed \/ CutAt(InsertIndex(prev))
      BY <2>1, Zenon DEF AppendEntries
  <2> QED
      BY <1>1, <1>2, <2>2, Zenon
<1>7. CASE \E e \in Entries, k \in 1 .. HeaderLen : AppendHeader(e, k)
    BY <1>7, Zenon DEF AppendHeader
<1>6. \/ UNCHANGED skewed \/ \E i \in Indices : Truncate(i)
      \/ TruncateRest
      \/ \E e \in Entries, k \in 1 .. HeaderLen : AppendHeader(e, k)
      \/ \E prev \in Indices, prevTerm, term \in Terms, n \in 0 .. MaxAppends :
            AppendEntries(prev, prevTerm, term, n)
    BY Zenon DEF Next, vars, history, SetFirstIndex, StartWithout, Load, HeaderFails,
                 CrashInHeader, AppendContent, AppendFails, TruncateFirst, TruncateSet,
                 TruncateSetFails, Crash, CrashInContent, Down
<1> QED
    BY <1>2, <1>3, <1>4, <1>5, <1>6, <1>7, Zenon

\* Every step keeps the invariant.
LEMMA NextGood ==
    ASSUME IInv, [Next]_vars
    PROVE  IInv'
<1>1. skewed' \in BOOLEAN /\ (skewed => skewed')
    BY CutRemembered, Zenon DEF IInv
<1> SUFFICES ASSUME ~skewed' PROVE Good'
    BY <1>1, Zenon DEF IInv
<1>2. Good
    BY <1>1, Zenon DEF IInv
<1>3. CASE UNCHANGED vars
  <2>1. UNCHANGED <<file, firstIndex, bytes, index, at, cur, todo, log, want, appends, faults,
                    headed>>
      BY <1>3 DEF vars, memory, history
  <2>2. Types' /\ Stages'
      BY <1>2, <2>1, Zenon DEF Good, Types, Stages
  <2>3. InUse' /\ Found'
      BY <1>2, <2>1, Zenon DEF Good, InUse, Found
  <2>4. Asked'
      BY <1>2, <2>1, Zenon DEF Good, Asked, Remaining, LastIndex
  <2> QED
      BY <2>2, <2>3, <2>4, Zenon DEF Good
<1>4. CASE \E i \in FirstIndices : SetFirstIndex(i)
    BY <1>2, <1>4, SetFirstIndexGood
<1>5. CASE StartWithout
    BY <1>2, <1>5, StartWithoutGood
<1>6. CASE Load
    BY <1>2, <1>6, LoadGood
<1>7. CASE \E e \in Entries, k \in 1 .. HeaderLen : AppendHeader(e, k)
    BY <1>2, <1>7, AppendHeaderGood, Zenon
<1>18. CASE \E e \in Entries : HeaderFails(e)
    BY <1>2, <1>18, HeaderFailsGood, Zenon
<1>19. CASE TruncateSetFails
    BY <1>2, <1>19, TruncateSetFailsGood
<1>8. CASE \E e \in Entries : CrashInHeader(e)
    BY <1>2, <1>8, CrashInHeaderGood, SMTT(30)
<1>9. CASE \E len \in Lens : \E k \in 1 .. len : AppendContent(k)
    BY <1>2, <1>9, AppendContentGood, ZenonT(30)
<1>10. CASE AppendFails
    BY <1>2, <1>10, AppendFailsGood
<1>11. CASE \E i \in Indices : Truncate(i)
    BY <1>2, <1>11, TruncateGood, ZenonT(30)
<1>12. CASE \E i \in Indices : TruncateFirst(i)
    BY <1>2, <1>12, TruncateFirstGood
<1>13. CASE TruncateSet
    BY <1>2, <1>13, TruncateSetGood
<1>14. CASE TruncateRest
    BY <1>2, <1>14, TruncateRestGood, Zenon
<1>15. CASE \E prev \in Indices, prevTerm, term \in Terms, n \in 0 .. MaxAppends :
                AppendEntries(prev, prevTerm, term, n)
    BY <1>2, <1>15, AppendEntriesGood, ZenonT(30)
<1>16. CASE Crash
    BY <1>2, <1>16, CrashGood
<1>17. CASE \E len \in Lens : \E k \in 1 .. len : CrashInContent(k)
    BY <1>2, <1>17, CrashInContentGood, Zenon
<1> QED
    BY <1>3, <1>4, <1>5, <1>6, <1>7, <1>8, <1>9, <1>10, <1>11, <1>12, <1>13, <1>14, <1>15,
       <1>16, <1>17, <1>18, <1>19, ZenonT(30) DEF Next

\* In every reachable state: the file and the index in memory belong together, as long
\* as Truncate was called for the last entry only and headers were written as a whole.
THEOREM Invariance == Spec => []IInv
<1>1. Init => IInv
    BY InitGood, Zenon
<1>2. IInv /\ [Next]_vars => IInv'
    BY NextGood, Zenon
<1> QED
    BY <1>1, <1>2, PTL DEF Spec

-----------------------------------------------------------------------------
(* The properties.                                                          *)

\* ValidIndex is exact while the log is in use.
LEMMA ValidInUse ==
    ASSUME IInv, Sound, at \in {"idle", "header"}, NEW i \in Int, i >= -3
    PROVE  ValidIndex(i) <=> i \in firstIndex .. LastIndex
<1>1. Good /\ headed
    BY Zenon DEF IInv, Sound
<1>2. Len(index) <= appends /\ Len(index) \in Nat /\ index \in Seq(Slot)
    BY <1>1, Using, Zenon
<1>3. appends \in 0 .. MaxAppends /\ firstIndex \in Firsts
    BY <1>1, Zenon DEF Good, Types
<1>4. Len(index) <= MaxAppends
    BY <1>2, <1>3, RaftLogAssumption, SMTT(30)
<1> QED
    BY <1>2, <1>3, <1>4, ValidIs, Zenon

\* The unsigned comparison of ValidIndex accepts the indices in the log and no other,
\* whenever the log is in use: with the indices below the first one it wraps around to
\* numbers that no length reaches.
THEOREM ValidIndexExact == Spec => [](Sound /\ at \in {"idle", "header"} => ValidExact)
<1>1. IInv => (Sound /\ at \in {"idle", "header"} => ValidExact)
  <2> SUFFICES ASSUME IInv, Sound, at \in {"idle", "header"}, NEW i \in Indices
               PROVE  ValidIndex(i) <=> i \in firstIndex .. LastIndex
      BY Zenon DEF ValidExact
  <2>1. i \in Int /\ i >= -3
      BY DEF Indices
  <2> QED
      BY <2>1, ValidInUse, Zenon
<1> QED
    BY <1>1, Invariance, PTL

\* Between two operations a reload would build the index that is in memory, but for an
\* entry at the end whose contents could not be written: RaftLog::Load undoes nothing
\* that RaftLog::Append and RaftLog::Truncate did.
THEOREM ReloadAgreement == Spec => []ReloadAgrees
<1>1. IInv => ReloadAgrees
  <2> SUFFICES ASSUME IInv, at = "idle", Sound PROVE ReloadAgrees
      BY Zenon DEF ReloadAgrees
  <2> DEFINE l == Loaded(file)
             slot == [off |-> bytes, term |-> CellAt(file, bytes)]
             new == Append(index, slot)
             end == bytes + 2 + CellAt(file, bytes + 1)
  <2>1. Good /\ headed
      BY Zenon DEF IInv, Sound
  <2>2. /\ file \in Files /\ file # <<>> /\ file[1] = firstIndex /\ Len(file) \in Nat
        /\ index \in Seq(Slot) /\ bytes \in Nat /\ Disk(file, index, bytes)
      BY <2>1, Using, Zenon
  <2>3. Len(file) > bytes => Len(file) = bytes + 2
      BY <2>1, Zenon DEF Good, InUse, HeaderLen
  <2>4. l.firstIndex = firstIndex
      BY <2>2, Zenon DEF Loaded
  <2>5. CASE Len(file) <= bytes
    <3>1. l.index = index /\ l.bytes = bytes
        BY <2>2, <2>5, LoadIs, Zenon
    <3> QED
        BY <2>4, <3>1, Zenon DEF ReloadAgrees
  <2>6. CASE bytes < Len(file)
    <3>1. new \in Seq(Slot) /\ end \in Nat /\ Disk(file, new, end) /\ slot \in Slot
        BY <2>2, <2>6, DiskAppend, Zenon
    <3>2. CellAt(file, bytes + 1) \in Nat
        BY <2>2, Cell, SMTT(30)
    <3>3. Len(file) <= end
        BY <2>2, <2>3, <2>6, <3>2, SMTT(30)
    <3> HIDE DEF new, end, slot
    <3>4. l.index = new
        BY <2>2, <3>1, <3>3, LoadIs, Zenon
    <3>5. Len(new) = Len(index) + 1 /\ \A i \in 1 .. Len(index) : new[i] = index[i]
        BY <2>2, <3>1, SMTT(30) DEF new
    <3>6. Len(new) # Len(index)
        BY <2>2, <3>5, SMTT(30)
    <3> QED
        BY <2>4, <3>4, <3>5, <3>6, Zenon DEF ReloadAgrees
  <2> QED
      BY <2>2, <2>5, <2>6, SMTT(30)
<1> QED
    BY <1>1, Invariance, PTL

\* An entry that RaftLog::Append wrote as a whole is found by RaftLog::ContainLog under
\* its index, and RaftLog::Get reads its contents into buf, whatever was appended or
\* truncated, failed, was written in part or was interrupted by a crash after it.  What
\* Get makes of buf, and Term(), are not part of this.
THEOREM EntriesStay == Spec => []EntriesKept
<1>1. IInv => EntriesKept
  <2> SUFFICES ASSUME IInv, at = "idle", Sound PROVE EntriesKept
      BY Zenon DEF EntriesKept
  <2>1. Good /\ headed
      BY DEF IInv, Sound
  <2>2. /\ index \in Seq(Slot) /\ log \in Seq(Entries \cup {Torn}) /\ Len(log) = Len(index)
        /\ Disk(file, index, bytes) /\ Written(file, index, log) /\ Len(index) \in Nat
      BY <2>1, Using, Zenon
  <2>3. firstIndex \in Int /\ firstIndex >= -3
      BY <2>1, FirstsAre, Zenon DEF Good, Types
  <2>4. ASSUME NEW i \in 1 .. Len(log), log[i] # Torn
        PROVE  /\ ContainLog(firstIndex + i - 1, log[i].term)
               /\ GetBuf(firstIndex + i - 1) = Content(log[i])
    <3> DEFINE m == firstIndex + i - 1
               off == index[i].off
    <3>1. i \in 1 .. Len(index) /\ m \in Int /\ m >= -3 /\ m - firstIndex + 1 = i
          /\ m \in firstIndex .. LastIndex
        BY <2>2, <2>3, SMTT(30) DEF LastIndex
    <3>2. ValidIndex(m)
        BY <3>1, ValidInUse, Zenon
    <3>3. EntryAt(file, off, log[i])
        BY <2>2, <2>4, Zenon DEF Written
    <3>4. index[i].term = CellAt(file, off)
        BY <2>2, <3>1, Zenon DEF Disk
    <3> HIDE DEF m, off
    <3>5. /\ CellAt(file, off) = log[i].term /\ CellAt(file, off + 1) = log[i].len
          /\ \A j \in 1 .. log[i].len :
                CellAt(file, off + HeaderLen + j - 1) = Content(log[i])[j]
        BY <3>3, Zenon DEF EntryAt
    <3>6. ContainLog(m, log[i].term)
        BY <3>1, <3>2, <3>4, <3>5, Zenon DEF ContainLog
    <3>7. GetBuf(m) = [j \in 1 .. CellAt(file, off + 1) |-> CellAt(file, off + HeaderLen + j - 1)]
      <4>1. index[m - firstIndex + 1].off = off
          BY <3>1, Zenon DEF off
      <4> QED
          BY <4>1, Zenon DEF GetBuf
    <3>8. Content(log[i]) = [j \in 1 .. log[i].len |-> Content(log[i])[j]]
        BY DEF Content
    <3>9. GetBuf(m) = Content(log[i])
        BY <3>5, <3>7, <3>8, Zenon
    <3> QED
        BY <3>6, <3>9, Zenon DEF m
  <2> QED
      BY <2>2, <2>4, Zenon DEF EntriesKept
<1> QED
    BY <1>1, Invariance, PTL

\* The log has at most one incomplete entry for each crash and each short write:
\* RaftLog::Append takes a short write for a whole one, RaftLog::Load takes what a crash
\* left of an entry for an entry, and never more than one.
THEOREM TornAreFaults == Spec => []OneTornPerFault
<1>1. IInv => OneTornPerFault
  <2> SUFFICES ASSUME IInv, at = "idle", Sound PROVE OneTornPerFault
      BY Zenon DEF OneTornPerFault
  <2>1. Good /\ headed
      BY DEF IInv, Sound
  <2>2. Cardinality(Torns(log)) <= faults
      BY <2>1, Using, Zenon
  <2> QED
      BY <2>2, Zenon DEF OneTornPerFault, Torns
<1> QED
    BY <1>1, Invariance, PTL

\* A request that Raft::AppendEntries carried through has its entries right after the
\* entry that it named, with its term, and nothing after them.
THEOREM AppendedInPlace == Spec => []AppendedWhereAsked
<1>1. IInv => AppendedWhereAsked
  <2> SUFFICES ASSUME IInv, at = "idle", todo = <<>>, want # NoRequest, Sound
               PROVE  AppendedWhereAsked
      BY DEF AppendedWhereAsked
  <2>1. Good /\ headed
      BY Zenon DEF IInv, Sound
  <2>2. Remaining = 0
      BY SMTT(30) DEF Remaining
  <2>3. /\ firstIndex \in Int /\ firstIndex >= -3 /\ index \in Seq(Slot) /\ want \in Request
      BY <2>1, FirstsAre, Zenon DEF Good, Types
  <2>4. PICK prev \in Int, n \in Nat, term \in Terms :
            prev = want.prev /\ n = want.n /\ term = want.term
      BY <2>3, Zenon DEF Request
  <2>5. /\ firstIndex <= want.prev /\ LastIndex + Remaining = want.prev + want.n
        /\ \A j \in 1 .. want.n - Remaining :
              index[want.prev + j - firstIndex + 1].term = want.term
      BY <2>1, Zenon DEF Good, Asked
  <2>6. /\ firstIndex <= prev /\ LastIndex + 0 = prev + n
        /\ \A j \in 1 .. n - 0 : index[prev + j - firstIndex + 1].term = term
      BY <2>2, <2>4, <2>5, Zenon
  <2>7. LastIndex = prev + n
    <3>1. LastIndex \in Int
        BY <2>3 DEF LastIndex
    <3> QED
        BY <2>6, <3>1, SMTT(30)
  <2>8. \A j \in 1 .. n : ContainLog(prev + j, term)
    <3> SUFFICES ASSUME NEW j \in 1 .. n PROVE ContainLog(prev + j, term)
        BY Zenon
    <3>1. prev + j \in Int /\ prev + j >= -3 /\ prev + j \in firstIndex .. LastIndex
        BY <2>3, <2>6, <2>7, SMTT(30)
    <3>2. ValidIndex(prev + j)
        BY <3>1, ValidInUse, Zenon
    <3>3. j \in 1 .. n - 0
        BY SMTT(30)
    <3>4. index[prev + j - firstIndex + 1].term = term
        BY <2>6, <3>3, Zenon
    <3>5. prev + j - firstIndex + 1 = (prev + j) - firstIndex + 1
        BY <2>3
    <3> QED
        BY <3>2, <3>4, <3>5, Zenon DEF ContainLog
  <2> QED
      BY <2>4, <2>7, <2>8, Zenon DEF AppendedWhereAsked
<1> QED
    BY <1>1, Invariance, PTL
=============================================================================
