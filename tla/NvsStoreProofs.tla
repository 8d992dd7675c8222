--------------------------- MODULE NvsStoreProofs ---------------------------
(***************************************************************************)
(* What the NVS writer keeps of the values stored, and that it is the map  *)
(* its callers are promised (KvSeam), for every partition, every key and   *)
(* value and every number of calls.                                        *)
(*                                                                         *)
(* An index is the commit point of a value: its chunks are written before  *)
(* it and erased after it.  So at most points of a call the written headers*)
(* of the data pages (Standing) are not all to be counted.  What a         *)
(* compaction has copied so far stands twice, and the index of a value that*)
(* replaces another stands beside the old one until that is erased.  Live  *)
(* is what counts: the copies and the index that waits are left out.  Of   *)
(* Live the invariant StoreInv says that a key has one entry and a         *)
(* namespace one name, that an index has each of its chunks once, and that *)
(* a chunk belongs to an index or is Pending: written for an index to come,*)
(* or left by one that is gone and about to be erased.  What the call knows*)
(* of it (CallKnows) is the rest: where the old value is, which chunks are *)
(* written and what is in them, which are to be erased, that what a        *)
(* compaction copied is what it copies from (CopyMap).  A scan meets what  *)
(* counts before what does not (Shadowed), so the look-ups of the code     *)
(* answer Live's entries (NamesFound, EntriesFound, ChunksFound).          *)
(*                                                                         *)
(* With that, each key reads what stands under it (Reading, SeenAs), and   *)
(* every step of a call leaves every key alone, except one: the mark of a  *)
(* first index, or the mark that erases the head of the old value.  That   *)
(* step gives the key the value of the call, whole (WriterIsTheMap).       *)
(*                                                                         *)
(* The assumptions are those of NvsTidyProofs, that nothing fails and no   *)
(* compaction moves a value while a put replaces it (the runs nvs_orphan,  *)
(* nvs_cut_erase and nvs_stale_index show each to be needed), and InOrder: *)
(* the partition a device starts with is one this code could have left.    *)
(***************************************************************************)
EXTENDS NvsTidyProofs

\* the written headers of the data pages
Standing == {x \in Place : x[1] \in DataPages /\ WrittenHeader(x[1], x[2])}

\* an entry is found and its first slot is about to be marked erased
Retiring  == pc = "erasespan" /\ l.k = 0 /\ l.sweep.done = 0
\* ... and it is the one a put replaces: the new index stands behind it
Replacing == Retiring /\ op.call = "put"

\* an entry or a chunk under the key of the call
OfCall(c) == c.ns = l.ns /\ c.name = op.name

\* the headers that count: not the copies a compaction is making, not the index that waits
\* for the one before it to go
Live ==
  {x \in Standing :
     /\ ~(pc \in CompactPoints /\ x[1] = l.target)
     /\ ~(Replacing /\ x # l.at /\ IsEntry(CellAt(x)) /\ OfCall(CellAt(x)))}

\* a put whose index does not count yet
Building == op.call = "put" /\ (l.outcome = "open" \/ Retiring)
\* chunks without an index are erased one after another
Sweeping == pc \in {"erasespan", "sweep"} /\ ~Retiring

\* the first chunk not erased yet
NextSwept == IF pc = "erasespan" /\ l.k = 0 THEN l.sweep.done - 1 ELSE l.sweep.done

\* the chunks no index names
Awaiting(start, number) ==
  \/ Building /\ start = l.start /\ number < l.written
  \/ Sweeping /\ start = l.sweep.start /\ NextSwept <= number /\ number < l.sweep.count

\* a chunk with this header waits: for its index, or to be erased
Pending(c) == (Building \/ Sweeping) /\ OfCall(c) /\ Awaiting(c.start, c.number)

IsChunk(x) == CellAt(x).kind = "chunk"
IsIndex(x) == CellAt(x).kind = "idx"
IsName(x)  == CellAt(x).kind = "ns"
SameChunk(c, d) == SameKey(c, d) /\ c.start = d.start /\ c.number = d.number

\* a key has one entry, a namespace name one; an entry's namespace has a name; a value has one
\* chunk of a number
KeysOnce  == \A x, y \in Live : IsEntry(CellAt(x)) /\ IsEntry(CellAt(y)) /\ SameKey(CellAt(x), CellAt(y)) => x = y
NamesOnce == \A x, y \in Live : IsName(x) /\ IsName(y) /\ CellAt(x).name = CellAt(y).name => x = y
InNamed   == \A x \in Live : IsEntry(CellAt(x)) => \E y \in Live : IsName(y) /\ CellAt(y).index = CellAt(x).ns
ChunkOnce == \A x, y \in Live : IsChunk(x) /\ IsChunk(y) /\ SameChunk(CellAt(x), CellAt(y)) => x = y
\* a chunk has an index, unless it waits; then it has none
ChunkHasIndex ==
  \A x \in Live : IsChunk(x) =>
    IF Pending(CellAt(x)) THEN \A y \in Live : IsIndex(y) => ~SameBlob(CellAt(x), CellAt(y))
    ELSE \E y \in Live : IsIndex(y) /\ SameBlob(CellAt(x), CellAt(y))
\* an index has all of its chunks
IndexHasChunks ==
  \A y \in Live : IsIndex(y) => \A c \in 0 .. CellAt(y).count - 1 :
    \E x \in Live : IsChunk(x) /\ SameBlob(CellAt(x), CellAt(y)) /\ CellAt(x).number = c
\* the chunks that wait are all there
PendingThere ==
  Building \/ Sweeping =>
  \A start \in {0, 1} : \A number \in Nat : Awaiting(start, number) =>
    \E x \in Live : IsChunk(x) /\ OfCall(CellAt(x)) /\ CellAt(x).start = start /\ CellAt(x).number = number

\* where the call's namespace is known
NamePoint ==
  \/ pc \in {"old", "chunk"}
  \/ op.call = "put" /\ pc \in MorePoints /\ l.want # "ns"
  \/ Retiring
\* the index the call uses is that of its namespace's entry
NameKnown == NamePoint => \E x \in Live : IsName(x) /\ CellAt(x).name = op.ns /\ CellAt(x).index = l.ns
\* a name about to be written is new
NameNew == pc \in IndexPoints /\ op.call = "put" /\ l.want = "ns" => \A x \in Live : IsName(x) => CellAt(x).name # op.ns

\* where a put knows whether there is a value to replace
OldPoint == pc = "chunk" \/ (op.call = "put" /\ pc \in MorePoints /\ l.want # "ns")
\* it is the only one under the key, and its chunks have the other version
OldKnown ==
  OldPoint =>
    /\ \A x \in Live : IsEntry(CellAt(x)) /\ OfCall(CellAt(x)) => l.old.status = "found" /\ x = l.old.place
    /\ l.old.status = "found" => /\ l.old.place \in Live /\ IsEntry(l.oldCell) /\ OfCall(l.oldCell)
                                 /\ l.oldCell.kind = "idx" => l.start # l.oldCell.start

\* the entry about to go is the key's, and its chunks are to go after it
RetiringInHand ==
  Retiring =>
    /\ l.at \in Live /\ IsEntry(CellAt(l.at)) /\ OfCall(CellAt(l.at)) /\ l.outcome = "Ok"
    /\ l.sweep = IF IsIndex(l.at) THEN [start |-> CellAt(l.at).start, count |-> CellAt(l.at).count, done |-> 0]
                 ELSE [start |-> 0, count |-> 0, done |-> 0]
\* the chunk about to go is the next to be swept
SweptInHand ==
  pc = "erasespan" /\ l.k = 0 /\ ~Retiring =>
    /\ l.at \in Live /\ IsChunk(l.at) /\ OfCall(CellAt(l.at))
    /\ l.sweep.done >= 1 /\ l.sweep.done <= l.sweep.count
    /\ CellAt(l.at).start = l.sweep.start /\ CellAt(l.at).number = l.sweep.done - 1

\* an entry's header goes before its data
HeadErased == pc = "erasespan" /\ l.k > 0 => bits[l.at[1]][l.at[2]] = "erased"

\* a chunk's data is what its header says
IntactChunk(x) == DataIntact(x, CellAt(x).value, CellAt(x).offset, CellAt(x).size)

\* the chunks written so far are the value's, whole and one after another; once the index is all
\* that is left to write, or stands already, they are the whole value
Built ==
  Building =>
    /\ l.outcome = "open" => l.sweep = NoLocals.sweep
    /\ l.written = 0 => l.offset = 0
    /\ ~(OldPoint \/ Replacing) => l.written = 0 /\ l.old.status = "none"
    /\ l.want = "ns" => l.written = 0
    /\ \A x \in Live : IsChunk(x) /\ Pending(CellAt(x)) =>
         /\ CellAt(x).value = op.value /\ IntactChunk(x)
         /\ CellAt(x).number = 0 => CellAt(x).offset = 0
         /\ CellAt(x).number = l.written - 1 => CellAt(x).offset + CellAt(x).size = l.offset
         /\ \A y \in Live : IsChunk(y) /\ Pending(CellAt(y)) /\ CellAt(y).number = CellAt(x).number + 1 =>
              CellAt(y).offset = CellAt(x).offset + CellAt(x).size
    /\ (OldPoint /\ pc # "chunk" /\ l.want = "idx") \/ Replacing => l.written >= 1 /\ l.offset = Size[op.value]

\* the index the put writes last
NewIndex == [kind |-> "idx", ns |-> l.ns, name |-> op.name, start |-> l.start,
             count |-> l.written, size |-> Size[op.value]]
\* the new index is all that does not count, it stands behind the old and names other chunks
Waiting ==
  Replacing =>
    /\ \E y \in Standing : CellAt(y) = NewIndex /\ Before(l.at, y) /\ Standing \ Live = {y}
    /\ IsIndex(l.at) => CellAt(l.at).start # l.start

\* the entry at slot s of the victim stands at slot t of the target, its data with it
SameCopy(s, t) ==
  \A i \in 0 .. SpanOf(cell[l.victim][s]) - 1 : cell[l.target][t + i] = cell[l.victim][s + i]
\* the entries of the victim that are copied, and their copies
Copied == {s \in Slot : WrittenHeader(l.victim, s) /\ (CopyingCell => s < l.from)}
Copies == {t \in Slot : WrittenHeader(l.target, t) /\ (CopyingCell => t < l.to)}
\* each is copied once, in order, and nothing else is in the target
CopyMap ==
  pc \in CompactPoints =>
    \E f \in [Copied -> Copies] :
      /\ \A s \in Copied : SameCopy(s, f[s]) /\ f[s] <= s
      /\ \A s, t \in Copied : f[s] = f[t] => s = t
      /\ \A t \in Copies : \E s \in Copied : f[s] = t

\* every header that does not count has one before it that does and answers the same
Shadowed ==
  \A y \in Standing \ Live : \E x \in Live :
    /\ Before(x, y)
    /\ CellAt(x) = CellAt(y) \/ (IsEntry(CellAt(x)) /\ IsEntry(CellAt(y)) /\ SameKey(CellAt(x), CellAt(y)))

----------------------------------------------------------------------------
(***************************************************************************)
(* What a scan sees, also of a page where an entry is half written, half   *)
(* copied or half erased.                                                  *)
(***************************************************************************)
HeaderIn(b, p, s) == b[p][s] = "written" /\ IsHeader(cell[p][s])

\* no header stands behind an empty slot or inside another's entry, an entry with empty slots in it
\* is the last, and a written slot that a scan can come to belongs to an entry
Scannable(b, p) ==
  \A s \in Slot :
    /\ HeaderIn(b, p, s) =>
         LET end == s + SpanOf(cell[p][s])
         IN  /\ \A t \in Slot : t < s => b[p][t] # "empty"
             /\ \A t \in Slot : s < t /\ t < end => ~HeaderIn(b, p, t)
             /\ \/ \A t \in Slot : s < t /\ t < end => b[p][t] # "empty"
                \/ \A t \in Slot : t >= end => b[p][t] = "empty"
    /\ b[p][s] = "written" /\ (\A t \in Slot : t < s => b[p][t] # "empty") =>
         \E h \in Slot : HeaderIn(b, p, h) /\ h <= s /\ s < h + SpanOf(cell[p][h])

\* A scan of such a page visits its written headers and nothing else.
LEMMA ScanSees ==
  ASSUME FlashTypeOK, NEW p \in Page, NEW b \in [Page -> [Slot -> EntryStates]], Scannable(b, p)
  PROVE  Visited(b, p) = {h \in Slot : HeaderIn(b, p, h)}
  <1>1. PICK f : Visited(b, p) = f[0] /\ \A s \in Nat : f[s] = WalkStep(b, p, f, s)
    BY VisitedWalks
  <1> DEFINE Border(s) == \A h \in Slot : HeaderIn(b, p, h) /\ h < s => h + SpanOf(cell[p][h]) <= s
             Front(s) == \/ \A t \in Slot : t < s => b[p][t] # "empty"
                         \/ \A t \in Slot : t >= s => b[p][t] = "empty"
             Here(s) == {h \in Slot : HeaderIn(b, p, h) /\ h >= s}
             N == {m \in Nat : \A s \in Nat : s + m >= Slots /\ Border(s) /\ Front(s) => f[s] = Here(s)}
  <1>0. Slots \in Nat /\ \A s \in Slot : s \in Nat /\ s < Slots
    BY SlotsAreNat DEF SlotNat
  <1>9. \A h \in Slot : HeaderIn(b, p, h) => SpanOf(cell[p][h]) \in Nat /\ SpanOf(cell[p][h]) >= 1
    BY SpanNat DEF HeaderIn
  <1>10. ASSUME NEW s \in Nat, s >= Slots
         PROVE  f[s] = Here(s)
    <2>1. f[s] = {}
      BY <1>1, <1>10 DEF WalkStep
    <2>2. \A h \in Slot : ~(h >= s)
      BY <1>0, <1>10
    <2> QED BY <2>1, <2>2
  <1>2. 0 \in N
    BY <1>0, <1>10
  <1>3. ASSUME NEW m \in Nat, m \in N PROVE m + 1 \in N
    <2> SUFFICES ASSUME NEW s \in Nat, s + (m + 1) >= Slots, Border(s), Front(s) PROVE f[s] = Here(s)
      OBVIOUS
    <2>0. f[s] = WalkStep(b, p, f, s)
      BY <1>1
    <2>1. CASE s >= Slots
      BY <1>10, <2>1
    <2>2. CASE s < Slots
      <3>1. s \in Slot /\ b[p][s] \in EntryStates
        BY <1>0, <2>2 DEF Slot
      <3>2. CASE b[p][s] = "empty"
        <4>1. f[s] = {}
          BY <2>0, <3>2 DEF WalkStep
        <4>2. \A h \in Slot : HeaderIn(b, p, h) => ~(h >= s)
          <5> SUFFICES ASSUME NEW h \in Slot, HeaderIn(b, p, h), h >= s PROVE FALSE
            OBVIOUS
          <5>1. h # s
            BY <3>2 DEF HeaderIn
          <5>2. s < h
            BY <1>0, <5>1
          <5> QED BY <3>1, <3>2, <5>2 DEF Scannable
        <4> QED BY <4>1, <4>2
      <3>3. CASE b[p][s] = "erased"
        <4>1. Border(s + 1)
          <5> SUFFICES ASSUME NEW h \in Slot, HeaderIn(b, p, h), h < s + 1
                       PROVE  h + SpanOf(cell[p][h]) <= s + 1
            OBVIOUS
          <5>1. h < s
            BY <1>0, <3>3 DEF HeaderIn
          <5>2. h + SpanOf(cell[p][h]) <= s
            BY <5>1
          <5> QED BY <1>0, <1>9, <5>2
        <4>2. Front(s + 1)
          <5>1. \A t \in Slot : t < s => b[p][t] # "empty"
            BY <3>1, <3>3
          <5> QED BY <1>0, <3>3, <5>1
        <4>3. f[s + 1] = Here(s + 1)
          BY <1>0, <1>3, <4>1, <4>2
        <4>4. f[s] = f[s + 1]
          BY <1>0, <2>0, <2>2, <3>3 DEF WalkStep
        <4>5. Here(s) = Here(s + 1)
          BY <1>0, <3>3 DEF HeaderIn
        <4> QED BY <4>3, <4>4, <4>5
      <3>4. CASE b[p][s] = "written"
        <4>0. \A t \in Slot : t < s => b[p][t] # "empty"
          BY <3>1, <3>4
        <4>1. PICK g \in Slot : HeaderIn(b, p, g) /\ g <= s /\ s < g + SpanOf(cell[p][g])
          BY <3>1, <3>4, <4>0 DEF Scannable
        <4>2. SpanOf(cell[p][g]) \in Nat
          BY <1>9, <4>1
        <4>3. g = s
          BY <1>0, <4>1, <4>2
        <4> DEFINE n == SpanOf(cell[p][s])
        <4>4. HeaderIn(b, p, s) /\ IsHeader(cell[p][s]) /\ n \in Nat /\ n >= 1
          BY <1>9, <3>1, <4>1, <4>3 DEF HeaderIn
        <4>5. /\ \A t \in Slot : s < t /\ t < s + n => ~HeaderIn(b, p, t)
              /\ \/ \A t \in Slot : s < t /\ t < s + n => b[p][t] # "empty"
                 \/ \A t \in Slot : t >= s + n => b[p][t] = "empty"
          BY <3>1, <4>4 DEF Scannable
        <4> HIDE DEF n
        <4>6. \A h \in Slot : HeaderIn(b, p, h) /\ h > s => h >= s + n
          BY <1>0, <4>4, <4>5
        <4>7. Border(s + n)
          <5> SUFFICES ASSUME NEW h \in Slot, HeaderIn(b, p, h), h < s + n
                       PROVE  h + SpanOf(cell[p][h]) <= s + n
            OBVIOUS
          <5>1. CASE h < s
            <6>1. h + SpanOf(cell[p][h]) <= s
              BY <5>1
            <6> QED BY <1>0, <1>9, <4>4, <6>1
          <5>2. CASE h = s
            BY <1>0, <4>4, <5>2 DEF n
          <5> QED BY <1>0, <4>4, <4>6, <5>1, <5>2
        <4>8. Front(s + n)
          <5>1. ASSUME \A t \in Slot : s < t /\ t < s + n => b[p][t] # "empty"
                PROVE  \A t \in Slot : t < s + n => b[p][t] # "empty"
            <6> SUFFICES ASSUME NEW t \in Slot, t < s + n PROVE b[p][t] # "empty"
              OBVIOUS
            <6>1. t < s \/ t = s \/ s < t
              BY <1>0
            <6> QED BY <3>4, <4>0, <5>1, <6>1
          <5> QED BY <4>5, <5>1
        <4>9. f[s + n] = Here(s + n)
          BY <1>0, <1>3, <4>4, <4>7, <4>8
        <4>10. f[s] = {s} \cup f[s + n]
          BY <1>0, <2>0, <2>2, <3>4, <4>4 DEF WalkStep, n
        <4>11. Here(s) = {s} \cup Here(s + n)
          <5>1. \A h \in Slot : HeaderIn(b, p, h) /\ h >= s <=> h = s \/ (HeaderIn(b, p, h) /\ h >= s + n)
            BY <1>0, <3>1, <4>4, <4>6
          <5> QED BY <3>1, <5>1
        <4> QED BY <4>9, <4>10, <4>11
      <3> QED BY <3>1, <3>2, <3>3, <3>4 DEF EntryStates
    <2> QED BY <1>0, <2>1, <2>2
  <1> HIDE DEF N
  <1>4. Slots \in N
    BY <1>0, <1>2, <1>3, SetInduction
  <1>5. Border(0) /\ Front(0)
    BY <1>0
  <1>6. f[0] = Here(0)
    BY <1>0, <1>4, <1>5 DEF N
  <1> QED BY <1>0, <1>1, <1>6

\* Inside a whole entry there is no other and no empty slot.
LEMMA WholeInside ==
  ASSUME FlashTypeOK, NEW p \in Page, NEW s \in Slot, Whole(p, s), SpanOf(cell[p][s]) \in Nat,
         NEW t \in Slot, s < t, t < s + SpanOf(cell[p][s])
  PROVE  ~WrittenHeader(p, t) /\ bits[p][t] # "empty" /\ ~IsHeader(cell[p][t])
  <1> DEFINE n == SpanOf(cell[p][s])
  <1>1. t - s \in 1 .. n - 1 /\ s + (t - s) = t
    BY SlotsAreNat DEF SlotNat
  <1>2. \A i \in 1 .. n - 1 : bits[p][s + i] # "empty" /\ ~IsHeader(cell[p][s + i])
    BY DEF Whole
  <1> QED BY <1>1, <1>2 DEF WrittenHeader

\* A span is a number.
LEMMA SpanNatural ==
  ASSUME CallState
  PROVE  l.span \in Nat /\ l.k \in Nat /\ l.to \in Nat /\ l.from \in Nat
  BY DEF CallState, Locals

\* Data whose header is erased lies in the span being erased.
LEMMA LooseInSpan ==
  ASSUME CallState, SpanInHand, ~Writing, NEW p, NEW s \in Nat, Loose(p, s)
  PROVE  p = l.at[1] /\ s >= l.at[2] /\ s < l.at[2] + l.span
  <1>1. /\ p = l.at[1] /\ pc = "erasespan" /\ s \in l.at[2] + l.k .. l.at[2] + l.span - 1
    BY DEF Loose
  <1>2. l.at \in Place /\ l.k \in Nat /\ l.span \in Nat
    BY <1>1, SpanNatural DEF SpanInHand
  <1>3. l.at[2] \in Nat
    BY <1>2, SlotsAreNat DEF Place, SlotNat
  <1> QED BY <1>1, <1>2, <1>3

\* Slots are numbers, and so are spans.
LEMMA HeaderSpan ==
  ASSUME FlashTypeOK, NEW p \in Page, NEW s \in Slot, WrittenHeader(p, s)
  PROVE  SpanOf(cell[p][s]) \in Nat /\ SpanOf(cell[p][s]) >= 1
  BY SpanNat DEF WrittenHeader

\* The record being erased: the reader sees what stands beside it.
LEMMA SettledErasing ==
  ASSUME FlashTypeOK, CallState, SpanInHand, HeadErased, pc = "erasespan", l.k > 0
  PROVE  /\ SettledBits \in [Page -> [Slot -> EntryStates]]
         /\ \A p \in Page : p # l.at[1] => SettledBits[p] = bits[p]
         /\ \A s \in Slot : SettledBits[l.at[1]][s] =
              IF s >= l.at[2] /\ s < l.at[2] + l.span THEN "erased" ELSE bits[l.at[1]][s]
         /\ \A p \in DataPages : \A s \in Slot :
              /\ HeaderIn(SettledBits, p, s) <=> WrittenHeader(p, s)
              /\ SettledBits[p][s] = "empty" <=> bits[p][s] = "empty"
              /\ SettledBits[p][s] = "written" =>
                   bits[p][s] = "written" /\ ~(p = l.at[1] /\ s >= l.at[2] /\ s < l.at[2] + l.span)
  <1> DEFINE p == l.at[1]
             a == l.at[2]
             n == l.span
             b == [s \in Slot |-> IF s \in a .. a + n - 1 THEN "erased" ELSE bits[p][s]]
  <1>1. /\ p \in DataPages /\ p \in Page /\ a \in Slot /\ a \in Nat /\ n \in Nat /\ n >= 1 /\ a + n <= Slots
        /\ \A i \in 0 .. n - 1 : bits[p][a + i] # "empty"
        /\ \A i \in 1 .. n - 1 : ~IsHeader(cell[p][a + i])
        /\ bits[p][a] = "erased" /\ Slots \in Nat /\ \A s \in Slot : s \in Nat
    <2>1. l.at \in Place /\ l.at[1] \in DataPages /\ l.span >= 1 /\ l.span \in Nat
      BY SpanNatural DEF SpanInHand
    <2>2. a \in Slot /\ p \in Page
      BY <2>1 DEF Place
    <2> QED BY <2>1, <2>2, SlotsAreNat DEF SlotNat, SpanInHand, HeadErased
  <1>2. SettledBits = [bits EXCEPT ![p] = b]
    BY DEF SettledBits
  <1>3. SettledBits[p] = b /\ \A q \in Page : q # p => SettledBits[q] = bits[q]
    BY <1>1, <1>2 DEF FlashTypeOK
  <1>4. \A s \in Slot : b[s] = IF s >= a /\ s < a + n THEN "erased" ELSE bits[p][s]
    BY <1>1
  <1>5. b \in [Slot -> EntryStates]
    BY <1>1 DEF FlashTypeOK, EntryStates
  <1> HIDE DEF b, p, a, n
  <1>6. SettledBits \in [Page -> [Slot -> EntryStates]]
    BY <1>1, <1>2, <1>5 DEF FlashTypeOK
  <1>7. \A s \in Slot : s >= a /\ s < a + n => bits[p][s] # "empty" /\ ~WrittenHeader(p, s)
    <2> SUFFICES ASSUME NEW s \in Slot, s >= a, s < a + n PROVE bits[p][s] # "empty" /\ ~WrittenHeader(p, s)
      OBVIOUS
    <2>0. s \in Nat /\ a \in Nat /\ n \in Nat
      BY <1>1
    <2>1. s - a \in 0 .. n - 1 /\ a + (s - a) = s
      BY <2>0
    <2>2. s = a \/ s - a \in 1 .. n - 1
      BY <2>0, <2>1
    <2> QED BY <1>1, <2>1, <2>2 DEF WrittenHeader
  <1>8. ASSUME NEW q \in DataPages, NEW s \in Slot
        PROVE  /\ HeaderIn(SettledBits, q, s) <=> WrittenHeader(q, s)
               /\ SettledBits[q][s] = "empty" <=> bits[q][s] = "empty"
               /\ SettledBits[q][s] = "written" =>
                    bits[q][s] = "written" /\ ~(q = p /\ s >= a /\ s < a + n)
    <2>1. q \in Page
      BY DEF DataPages
    <2>2. CASE q # p
      BY <1>3, <2>1, <2>2 DEF HeaderIn, WrittenHeader
    <2>3. CASE q = p
      BY <1>3, <1>4, <1>7, <2>3 DEF HeaderIn, WrittenHeader
    <2> QED BY <2>2, <2>3
  <1> QED BY <1>3, <1>4, <1>6, <1>8 DEF p, a, n

\* Wherever the call stands, every data page is fit for a scan.
LEMMA PagesScannable ==
  ASSUME FlashTypeOK, CallState, Pages, FlashInv, HandInv, HeadErased, NEW p \in DataPages
  PROVE  Scannable(SettledBits, p) /\ SettledBits \in [Page -> [Slot -> EntryStates]]
         /\ \A s \in Slot : HeaderIn(SettledBits, p, s) <=> WrittenHeader(p, s)
  <1>0. p \in Page /\ SlotNat
    BY SlotsAreNat DEF DataPages
  <1>1. CASE pc = "erasespan" /\ l.k > 0
    <2>1. SpanInHand
      BY DEF HandInv
    <2>2. /\ SettledBits \in [Page -> [Slot -> EntryStates]]
          /\ \A s \in Slot :
              /\ HeaderIn(SettledBits, p, s) <=> WrittenHeader(p, s)
              /\ SettledBits[p][s] = "empty" <=> bits[p][s] = "empty"
              /\ SettledBits[p][s] = "written" =>
                   bits[p][s] = "written" /\ ~(p = l.at[1] /\ s >= l.at[2] /\ s < l.at[2] + l.span)
      BY <1>1, <2>1, SettledErasing
    <2>3. ~Writing /\ ~CopyingCell
      BY <1>1 DEF Writing, CopyingCell
    <2>4. ASSUME NEW s \in Slot, WrittenHeader(p, s)
          PROVE  LET end == s + SpanOf(cell[p][s])
                 IN  /\ \A t \in Slot : t < s => bits[p][t] # "empty"
                     /\ \A t \in Slot : s < t /\ t < end => ~WrittenHeader(p, t) /\ bits[p][t] # "empty"
      <3>1. Whole(p, s) /\ SpanOf(cell[p][s]) \in Nat
        BY <1>0, <2>3, <2>4, HeaderSpan DEF FlashInv, AllWhole
      <3>2. \A t \in Slot : t < s => bits[p][t] # "empty"
        BY <2>3, <2>4 DEF FlashInv, Appended, WrittenHeader
      <3>3. ASSUME NEW t \in Slot, s < t, t < s + SpanOf(cell[p][s])
            PROVE  ~WrittenHeader(p, t) /\ bits[p][t] # "empty"
        BY <1>0, <3>1, <3>3, WholeInside
      <3> QED BY <3>2, <3>3
    <2>5. ASSUME NEW s \in Slot, SettledBits[p][s] = "written"
          PROVE  \E h \in Slot : WrittenHeader(p, h) /\ h <= s /\ s < h + SpanOf(cell[p][h])
      <3>1. bits[p][s] = "written" /\ ~(p = l.at[1] /\ s >= l.at[2] /\ s < l.at[2] + l.span)
        BY <2>2, <2>5
      <3>2. ~Loose(p, s)
        <4>1. s \in Nat
          BY <1>0 DEF SlotNat
        <4> QED BY <2>1, <2>3, <3>1, <4>1, LooseInSpan
      <3> QED BY <3>1, <3>2 DEF FlashInv, AllOwned, Owned
    <2>6. Scannable(SettledBits, p)
      BY <2>2, <2>4, <2>5 DEF Scannable
    <2> QED BY <2>2, <2>6
  <1>2. CASE ~(pc = "erasespan" /\ l.k > 0)
    <2>1. SettledBits = bits
      BY <1>2 DEF SettledBits
    <2>2. \A s \in Slot : HeaderIn(bits, p, s) <=> WrittenHeader(p, s)
      BY DEF HeaderIn, WrittenHeader
    <2>3. bits \in [Page -> [Slot -> EntryStates]]
      BY DEF FlashTypeOK
    <2>4. ASSUME NEW s \in Slot, WrittenHeader(p, s), NEW t \in Slot, t < s
          PROVE  bits[p][t] # "empty"
      <3> SUFFICES ASSUME bits[p][t] = "empty" PROVE FALSE
        OBVIOUS
      <3>1. Writing /\ p = l.at[1] /\ t = l.at[2] /\ s <= t + l.k
        BY <2>4 DEF FlashInv, Appended, WrittenHeader
      <3>2. s - t \in 1 .. l.k /\ l.at[2] + (s - t) = s
        BY <1>0, <2>4, <3>1 DEF SlotNat, CallState, Locals
      <3>3. ~IsHeader(cell[p][s])
        BY <3>1, <3>2 DEF HandInv, EntryInHand
      <3> QED BY <2>4, <3>3 DEF WrittenHeader
    <2>5. ASSUME NEW s \in Slot, WrittenHeader(p, s)
          PROVE  LET end == s + SpanOf(cell[p][s])
                 IN  /\ \A t \in Slot : s < t /\ t < end => ~WrittenHeader(p, t)
                     /\ \/ \A t \in Slot : s < t /\ t < end => bits[p][t] # "empty"
                        \/ \A t \in Slot : t >= end => bits[p][t] = "empty"
      <3>1. SpanOf(cell[p][s]) \in Nat
        BY <1>0, <2>5, HeaderSpan
      <3>2. CASE Whole(p, s)
        <4>1. \A t \in Slot : s < t /\ t < s + SpanOf(cell[p][s]) => ~WrittenHeader(p, t) /\ bits[p][t] # "empty"
          BY <1>0, <3>1, <3>2, WholeInside
        <4> QED BY <4>1
      <3>3. CASE ~Whole(p, s)
        <4>1. CopyingCell /\ p = l.target /\ s = l.to
          BY <2>5, <3>3 DEF FlashInv, AllWhole
        <4>2. /\ l.to \in Nat /\ l.from \in Nat /\ l.k \in Nat /\ l.span \in Nat
              /\ \A t \in Slot : bits[p][t] = IF t < l.to + l.k THEN "written" ELSE "empty"
          BY <4>1, CopyPages DEF HandInv, CopyInHand
        <4>3. l.k > 0
          BY <2>5, <4>1, <4>2 DEF WrittenHeader
        <4>4. /\ l.k < l.span /\ SpanOf(cell[l.victim][l.from]) = l.span
              /\ \A i \in 1 .. l.span - 1 : ~IsHeader(cell[l.victim][l.from + i])
          BY <4>1, <4>3, EntryCopied DEF CopyingCell, HandInv
        <4>5. \A i \in 0 .. l.k - 1 : cell[p][s + i] = cell[l.victim][l.from + i]
          BY <4>1, <4>3 DEF HandInv, CopyInHand
        <4>6. cell[p][s] = cell[l.victim][l.from]
          <5>1. 0 \in 0 .. l.k - 1 /\ s + 0 = s /\ l.from + 0 = l.from
            BY <1>0, <4>2, <4>3 DEF SlotNat
          <5> QED BY <4>5, <5>1
        <4>7. SpanOf(cell[p][s]) = l.span
          BY <4>4, <4>6
        <4>8. \A t \in Slot : s < t => ~WrittenHeader(p, t)
          <5> SUFFICES ASSUME NEW t \in Slot, s < t, WrittenHeader(p, t) PROVE FALSE
            OBVIOUS
          <5>1. t < s + l.k
            BY <4>1, <4>2 DEF WrittenHeader
          <5>2. t - s \in 0 .. l.k - 1 /\ t - s \in 1 .. l.span - 1 /\ s + (t - s) = t
            BY <1>0, <4>2, <4>4, <5>1 DEF SlotNat
          <5>3. cell[p][t] = cell[l.victim][l.from + (t - s)]
            BY <4>5, <5>2
          <5>4. ~IsHeader(cell[p][t])
            BY <4>4, <5>2, <5>3
          <5> QED BY <5>4 DEF WrittenHeader
        <4>9. \A t \in Slot : t >= s + SpanOf(cell[p][s]) => bits[p][t] = "empty"
          BY <1>0, <4>1, <4>2, <4>4, <4>7 DEF SlotNat
        <4> QED BY <4>8, <4>9
      <3> QED BY <3>2, <3>3
    <2>6. ASSUME NEW s \in Slot, bits[p][s] = "written", \A t \in Slot : t < s => bits[p][t] # "empty"
          PROVE  \E h \in Slot : WrittenHeader(p, h) /\ h <= s /\ s < h + SpanOf(cell[p][h])
      <3>1. ~Loose(p, s)
        <4> SUFFICES ASSUME Writing, p = l.at[1], s \in l.at[2] + 1 .. l.at[2] + l.k PROVE FALSE
          BY <1>2 DEF Loose
        <4>1. l.at[2] \in Slot /\ l.at[2] < s /\ bits[p][l.at[2]] = "empty"
          BY <1>0, EntrySlots DEF SlotNat, HandInv
        <4> QED BY <2>6, <4>1
      <3> QED BY <2>6, <3>1 DEF FlashInv, AllOwned, Owned
    <2>7. Scannable(bits, p)
      BY <2>2, <2>4, <2>5, <2>6 DEF Scannable
    <2> QED BY <2>1, <2>2, <2>3, <2>7
  <1> QED BY <1>1, <1>2

\* Wherever the call stands, a reader sees the headers written in the data pages, and no more.
LEMMA SeesStanding ==
  ASSUME FlashTypeOK, CallState, Pages, FlashInv, HandInv, HeadErased
  PROVE  Headers(SettledBits) = Standing
  <1>1. \A p \in DataPages : /\ p \in Page
                             /\ Visited(SettledBits, p) = {h \in Slot : WrittenHeader(p, h)}
    <2> SUFFICES ASSUME NEW p \in DataPages PROVE Visited(SettledBits, p) = {h \in Slot : WrittenHeader(p, h)} /\ p \in Page
      OBVIOUS
    <2>1. p \in Page
      BY DEF DataPages
    <2>2. Visited(SettledBits, p) = {h \in Slot : HeaderIn(SettledBits, p, h)}
      BY <2>1, PagesScannable, ScanSees
    <2>3. \A h \in Slot : HeaderIn(SettledBits, p, h) <=> WrittenHeader(p, h)
      BY PagesScannable
    <2> QED BY <2>1, <2>2, <2>3
  <1>2. \A x \in Place : x[2] \in Slot
    BY DEF Place
  <1>3. \A x \in Place : x[1] \in DataPages => (x[2] \in Visited(SettledBits, x[1]) <=> WrittenHeader(x[1], x[2]))
    BY <1>1, <1>2
  <1> QED BY <1>3 DEF Headers, Standing

----------------------------------------------------------------------------
(***************************************************************************)
(* What the lookups answer.                                                *)
(***************************************************************************)
\* Of two headers of one place one is not before the other.
LEMMA BeforeAsymmetric ==
  ASSUME hdr \in [Page -> HeaderState], NEW x \in Place, NEW y \in Place, Before(x, y)
  PROVE  ~Before(y, x)
  <1>1. x[1] \in Page /\ y[1] \in Page /\ x[2] \in Nat /\ y[2] \in Nat
    BY SlotsAreNat DEF Place, SlotNat
  <1>2. hdr[x[1]].seq \in Nat /\ hdr[y[1]].seq \in Nat /\ x[1] \in Nat /\ y[1] \in Nat
    BY <1>1 DEF HeaderState, Page
  <1> QED BY <1>1, <1>2 DEF Before, Older

\* A scan for headers of which one comes before the others finds that one.
LEMMA FirstOfStanding ==
  ASSUME hdr \in [Page -> HeaderState], NEW wanted \in SUBSET Standing
  PROVE  /\ wanted = {} => FirstOf[Standing][wanted] = Absent
         /\ \A x \in wanted : (\A y \in wanted : x = y \/ Before(x, y)) => FirstOf[Standing][wanted] = Found(x)
  <1>1. Standing \in Visits /\ wanted \in Visits
    BY DEF Standing, Visits
  <1>2. {x \in Standing : x \in wanted \/ ~IsHeader(CellAt(x))} = wanted
    BY DEF Standing, WrittenHeader, CellAt
  <1> DEFINE first == Earliest[{x \in Standing : x \in wanted \/ ~IsHeader(CellAt(x))}]
  <1>3. FirstOf[Standing][wanted] = IF first = {} THEN Absent
                                    ELSE IF first \subseteq wanted THEN Found(CHOOSE x \in first : TRUE)
                                    ELSE Failed
    BY <1>1 DEF FirstOf
  <1>4. first = {x \in wanted : \A y \in wanted : x = y \/ Before(x, y)}
    BY <1>1, <1>2 DEF Earliest
  <1> HIDE DEF first
  <1>5. ASSUME NEW x \in wanted, \A y \in wanted : x = y \/ Before(x, y)
        PROVE  FirstOf[Standing][wanted] = Found(x)
    <2>1. \A y \in first : y = x
      <3> SUFFICES ASSUME NEW y \in first, y # x PROVE FALSE
        OBVIOUS
      <3>1. y \in wanted /\ Before(y, x) /\ Before(x, y)
        BY <1>4, <1>5
      <3>2. x \in Place /\ y \in Place
        BY <3>1 DEF Standing
      <3> QED BY <3>1, <3>2, BeforeAsymmetric
    <2>2. x \in first
      BY <1>4, <1>5
    <2>3. (CHOOSE y \in first : TRUE) = x
      BY <2>1, <2>2
    <2> QED BY <1>3, <2>2, <2>3, <1>4
  <1>6. wanted = {} => FirstOf[Standing][wanted] = Absent
    BY <1>3, <1>4
  <1> QED BY <1>5, <1>6

\* When what is looked for stands at most once among the headers that count, and each other one of it
\* behind one that counts, the one that counts is found.
LEMMA LiveIsFound ==
  ASSUME hdr \in [Page -> HeaderState], NEW wanted \in SUBSET Standing,
         \A y \in wanted : y \notin Live => \E x \in wanted : x \in Live /\ Before(x, y)
  PROVE  /\ (\A x \in wanted : x \notin Live) => FirstOf[Standing][wanted] = Absent
         /\ \A x \in wanted : x \in Live /\ (\A y \in wanted : y \in Live => x = y) =>
              FirstOf[Standing][wanted] = Found(x)
  <1>1. (\A x \in wanted : x \notin Live) => wanted = {}
    OBVIOUS
  <1>2. ASSUME NEW x \in wanted, x \in Live, \A y \in wanted : y \in Live => x = y
        PROVE  \A y \in wanted : x = y \/ Before(x, y)
    BY <1>2
  <1> QED BY <1>1, <1>2, FirstOfStanding

\* the three look-ups, on the headers that count: what counts is answered, or that nothing does
NamesFound ==
  \A n \in Namespaces :
    /\ (\A x \in Live : ~(IsName(x) /\ CellAt(x).name = n)) => FindNamespace[Standing][n] = Absent
    /\ \A x \in Live : IsName(x) /\ CellAt(x).name = n => FindNamespace[Standing][n] = Found(x)
EntriesFound ==
  \A i \in Nat : \A n \in Names :
    /\ (\A x \in Live : ~(IsEntry(CellAt(x)) /\ CellAt(x).ns = i /\ CellAt(x).name = n)) =>
         FindNotChunk[Standing][<<i, n>>] = Absent
    /\ \A x \in Live : IsEntry(CellAt(x)) /\ CellAt(x).ns = i /\ CellAt(x).name = n =>
         FindNotChunk[Standing][<<i, n>>] = Found(x)
\* a chunk by namespace index, key name, version and number
Numbered(x, i, n, start, number) ==
  /\ IsChunk(x) /\ CellAt(x).ns = i /\ CellAt(x).name = n
  /\ CellAt(x).start = start /\ CellAt(x).number = number
ChunksFound ==
  \A i \in Nat : \A n \in Names : \A start \in {0, 1} : \A number \in Nat :
    /\ (\A x \in Live : ~Numbered(x, i, n, start, number)) =>
         FindChunk[Standing][<<i, n>>][<<start, number>>] = Absent
    /\ \A x \in Live : Numbered(x, i, n, start, number) =>
         FindChunk[Standing][<<i, n>>][<<start, number>>] = Found(x)

\* A header that does not count stands behind one that does.
LEMMA ShadowBefore ==
  ASSUME Shadowed, NEW y \in Standing, y \notin Live
  PROVE  \E x \in Live :
           /\ Before(x, y) /\ x \in Standing
           /\ CellAt(x) = CellAt(y) \/ (IsEntry(CellAt(x)) /\ IsEntry(CellAt(y)) /\ SameKey(CellAt(x), CellAt(y)))
  BY DEF Shadowed, Live

\* A namespace is found.
LEMMA NamesAreFound ==
  ASSUME hdr \in [Page -> HeaderState], Shadowed, NamesOnce
  PROVE  NamesFound
  <1> SUFFICES ASSUME NEW n \in Namespaces
               PROVE  /\ (\A x \in Live : ~(IsName(x) /\ CellAt(x).name = n)) => FindNamespace[Standing][n] = Absent
                      /\ \A x \in Live : IsName(x) /\ CellAt(x).name = n => FindNamespace[Standing][n] = Found(x)
    BY DEF NamesFound
  <1> DEFINE wanted == {x \in Standing : CellAt(x).kind = "ns" /\ CellAt(x).name = n}
  <1>1. FindNamespace[Standing][n] = FirstOf[Standing][wanted]
    BY DEF FindNamespace, Visits, Standing
  <1>2. \A y \in wanted : y \notin Live => \E x \in wanted : x \in Live /\ Before(x, y)
    <2> SUFFICES ASSUME NEW y \in wanted, y \notin Live PROVE \E x \in wanted : x \in Live /\ Before(x, y)
      OBVIOUS
    <2>1. PICK x \in Live :
            /\ Before(x, y) /\ x \in Standing
            /\ CellAt(x) = CellAt(y) \/ (IsEntry(CellAt(x)) /\ IsEntry(CellAt(y)) /\ SameKey(CellAt(x), CellAt(y)))
      BY ShadowBefore
    <2>2. ~IsEntry(CellAt(y))
      BY DEF IsEntry
    <2> QED BY <2>1, <2>2
  <1>3. /\ wanted \in SUBSET Standing
        /\ \A x \in Live : x \in wanted <=> IsName(x) /\ CellAt(x).name = n
    BY DEF Live, IsName
  <1>4. \A x \in wanted : x \in Live => \A y \in wanted : y \in Live => x = y
    BY <1>3 DEF NamesOnce
  <1> HIDE DEF wanted
  <1> QED BY <1>1, <1>2, <1>3, <1>4, LiveIsFound

\* An entry that is not a chunk is found.
LEMMA EntriesAreFound ==
  ASSUME hdr \in [Page -> HeaderState], Shadowed, KeysOnce
  PROVE  EntriesFound
  <1> SUFFICES ASSUME NEW i \in Nat, NEW n \in Names
               PROVE  /\ (\A x \in Live : ~(IsEntry(CellAt(x)) /\ CellAt(x).ns = i /\ CellAt(x).name = n)) =>
                           FindNotChunk[Standing][<<i, n>>] = Absent
                      /\ \A x \in Live : IsEntry(CellAt(x)) /\ CellAt(x).ns = i /\ CellAt(x).name = n =>
                           FindNotChunk[Standing][<<i, n>>] = Found(x)
    BY DEF EntriesFound
  <1> DEFINE wanted == {x \in Standing : CellAt(x).kind \in {"idx", "single"}
                                         /\ <<CellAt(x).ns, CellAt(x).name>> = <<i, n>>}
  <1>1. FindNotChunk[Standing][<<i, n>>] = FirstOf[Standing][wanted]
    BY DEF FindNotChunk, Visits, Standing
  <1>3. /\ wanted \in SUBSET Standing
        /\ \A x \in Standing : x \in wanted <=> IsEntry(CellAt(x)) /\ CellAt(x).ns = i /\ CellAt(x).name = n
        /\ \A x \in Live : x \in Standing
    BY DEF Live, IsEntry
  <1> HIDE DEF wanted
  <1>2. \A y \in wanted : y \notin Live => \E x \in wanted : x \in Live /\ Before(x, y)
    <2> SUFFICES ASSUME NEW y \in wanted, y \notin Live PROVE \E x \in wanted : x \in Live /\ Before(x, y)
      OBVIOUS
    <2>1. PICK x \in Live :
            /\ Before(x, y) /\ x \in Standing
            /\ CellAt(x) = CellAt(y) \/ (IsEntry(CellAt(x)) /\ IsEntry(CellAt(y)) /\ SameKey(CellAt(x), CellAt(y)))
      BY <1>3, ShadowBefore
    <2> QED BY <1>3, <2>1 DEF SameKey
  <1>4. \A x \in wanted : x \in Live => \A y \in wanted : y \in Live => x = y
    BY <1>3 DEF KeysOnce, SameKey
  <1> QED BY <1>1, <1>2, <1>3, <1>4, LiveIsFound

\* A chunk is found.
LEMMA ChunksAreFound ==
  ASSUME hdr \in [Page -> HeaderState], Shadowed, ChunkOnce
  PROVE  ChunksFound
  <1> SUFFICES ASSUME NEW i \in Nat, NEW n \in Names, NEW start \in {0, 1}, NEW number \in Nat
               PROVE  /\ (\A x \in Live : ~Numbered(x, i, n, start, number)) =>
                           FindChunk[Standing][<<i, n>>][<<start, number>>] = Absent
                      /\ \A x \in Live : Numbered(x, i, n, start, number) =>
                           FindChunk[Standing][<<i, n>>][<<start, number>>] = Found(x)
    BY DEF ChunksFound
  <1> DEFINE wanted == {x \in Standing : CellAt(x).kind = "chunk"
                                         /\ <<CellAt(x).ns, CellAt(x).name>> = <<i, n>>
                                         /\ <<CellAt(x).start, CellAt(x).number>> = <<start, number>>}
  <1>1. FindChunk[Standing][<<i, n>>][<<start, number>>] = FirstOf[Standing][wanted]
    BY DEF FindChunk, Visits, Standing
  <1>3. /\ wanted \in SUBSET Standing
        /\ \A x \in Standing : x \in wanted <=> Numbered(x, i, n, start, number)
        /\ \A x \in Live : x \in Standing
    BY DEF Live, IsChunk, Numbered
  <1> HIDE DEF wanted
  <1>2. \A y \in wanted : y \notin Live => \E x \in wanted : x \in Live /\ Before(x, y)
    <2> SUFFICES ASSUME NEW y \in wanted, y \notin Live PROVE \E x \in wanted : x \in Live /\ Before(x, y)
      OBVIOUS
    <2>1. PICK x \in Live :
            /\ Before(x, y) /\ x \in Standing
            /\ CellAt(x) = CellAt(y) \/ (IsEntry(CellAt(x)) /\ IsEntry(CellAt(y)) /\ SameKey(CellAt(x), CellAt(y)))
      BY <1>3, ShadowBefore
    <2>2. ~IsEntry(CellAt(y))
      BY <1>3 DEF IsEntry, IsChunk, Numbered
    <2> QED BY <1>3, <2>1, <2>2 DEF IsChunk, Numbered
  <1>4. \A x \in wanted : x \in Live => \A y \in wanted : y \in Live => x = y
    BY <1>3 DEF ChunkOnce, SameChunk, SameKey, Numbered
  <1> QED BY <1>1, <1>2, <1>3, <1>4, LiveIsFound

\* While a page is copied, what was copied stands behind what it was copied from.
LEMMA CopiesBehind ==
  ASSUME FlashTypeOK, CallState, Pages, FlashInv, CopyInHand, CopyMap, pc \in CompactPoints,
         NEW y \in Standing, y \notin Live
  PROVE  \E x \in Live : Before(x, y) /\ CellAt(x) = CellAt(y)
  <1>1. /\ l.target \in ActivePages /\ l.victim \in Page /\ hdr[l.victim].state = "full"
        /\ l.target \in DataPages /\ l.target \in Page /\ l.victim \in DataPages /\ l.victim # l.target
    BY DEF Pages, Reserved, ActivePages, DataPages
  <1>2. Older(l.victim, l.target)
    <2>1. hdr[l.victim].seq <= hdr[l.target].seq /\ hdr[l.victim].seq # hdr[l.target].seq
      BY <1>1 DEF Pages, PageDiscipline
    <2>2. hdr[l.victim].seq \in Nat /\ hdr[l.target].seq \in Nat
      BY <1>1 DEF Pages, HeaderState
    <2> QED BY <2>1, <2>2 DEF Older
  <1>3. ~Replacing
    BY DEF Replacing, Retiring, CompactPoints
  <1>4. y \in Place /\ y[1] = l.target /\ y[2] \in Slot /\ WrittenHeader(l.target, y[2])
        /\ CellAt(y) = cell[l.target][y[2]]
    BY <1>3 DEF Live, Standing, Place, CellAt
  <1>5. ASSUME NEW s \in Slot, WrittenHeader(l.victim, s), cell[l.target][y[2]] = cell[l.victim][s]
        PROVE  \E x \in Live : Before(x, y) /\ CellAt(x) = CellAt(y)
    <2> DEFINE x == <<l.victim, s>>
    <2>1. x \in Live
      BY <1>1, <1>3, <1>5 DEF Live, Standing, Place
    <2>2. Before(x, y) /\ CellAt(x) = CellAt(y)
      BY <1>2, <1>4, <1>5 DEF Before, CellAt
    <2> QED BY <2>1, <2>2
  <1>6. CASE y[2] \in Copies
    <2>1. PICK f \in [Copied -> Copies] : /\ \A s \in Copied : SameCopy(s, f[s])
                                          /\ \A t \in Copies : \E s \in Copied : f[s] = t
      BY DEF CopyMap
    <2>2. PICK s \in Copied : f[s] = y[2]
      BY <1>6, <2>1
    <2>3. s \in Slot /\ WrittenHeader(l.victim, s)
      BY <2>2 DEF Copied
    <2>4. cell[l.target][y[2] + 0] = cell[l.victim][s + 0]
      <3>1. 0 \in 0 .. SpanOf(cell[l.victim][s]) - 1
        BY <1>1, <2>3, HeaderSpan
      <3> QED BY <2>1, <2>2, <3>1 DEF SameCopy
    <2>5. y[2] + 0 = y[2] /\ s + 0 = s
      BY <1>4, <2>3, SlotsAreNat DEF SlotNat
    <2> QED BY <1>5, <2>3, <2>4, <2>5
  <1>7. CASE y[2] \notin Copies
    <2>1. CopyingCell /\ ~(y[2] < l.to)
      BY <1>4, <1>7 DEF Copies
    <2>2. /\ l.to \in Nat /\ l.k \in Nat /\ l.from \in Nat /\ y[2] \in Nat /\ l.span \in Nat
          /\ bits[l.target][y[2]] = IF y[2] < l.to + l.k THEN "written" ELSE "empty"
      BY <1>4, <2>1, CopyPages, SlotsAreNat DEF SlotNat, CopyInHand
    <2>3. y[2] < l.to + l.k
      BY <1>4, <2>2 DEF WrittenHeader
    <2>4. l.k > 0 /\ y[2] - l.to \in 0 .. l.k - 1 /\ l.to + (y[2] - l.to) = y[2]
      BY <2>1, <2>2, <2>3
    <2>5. /\ l.from \in Slot /\ l.k < l.span /\ WrittenHeader(l.victim, l.from)
          /\ \A i \in 1 .. l.span - 1 : ~IsHeader(cell[l.victim][l.from + i])
      BY <2>1, <2>4, EntryCopied DEF CopyingCell
    <2>6. \A i \in 0 .. l.k - 1 : cell[l.target][l.to + i] = cell[l.victim][l.from + i]
      BY <2>1, <2>4 DEF CopyInHand
    <2>7. cell[l.target][y[2]] = cell[l.victim][l.from + (y[2] - l.to)]
      BY <2>4, <2>6
    <2>8. y[2] = l.to
      <3> SUFFICES ASSUME y[2] # l.to PROVE FALSE
        OBVIOUS
      <3>1. y[2] - l.to \in 1 .. l.span - 1
        BY <2>2, <2>4, <2>5
      <3> QED BY <1>4, <2>5, <2>7, <3>1 DEF WrittenHeader
    <2>9. l.from + (y[2] - l.to) = l.from
      BY <2>2, <2>8
    <2> QED BY <1>5, <2>5, <2>7, <2>9
  <1> QED BY <1>6, <1>7

\* What does not count stands behind what does.
LEMMA AllShadowed ==
  ASSUME FlashTypeOK, CallState, Pages, FlashInv, CopyInHand, CopyMap, Waiting, RetiringInHand
  PROVE  Shadowed
  <1> SUFFICES ASSUME NEW y \in Standing \ Live
               PROVE  \E x \in Live : /\ Before(x, y)
                                      /\ \/ CellAt(x) = CellAt(y)
                                         \/ IsEntry(CellAt(x)) /\ IsEntry(CellAt(y)) /\ SameKey(CellAt(x), CellAt(y))
    BY DEF Shadowed
  <1>1. CASE pc \in CompactPoints
    BY <1>1, CopiesBehind
  <1>2. CASE pc \notin CompactPoints
    <2>1. Replacing
      BY <1>2 DEF Live
    <2>2. CellAt(y) = NewIndex /\ Before(l.at, y)
      BY <2>1 DEF Waiting
    <2>3. l.at \in Live /\ IsEntry(CellAt(l.at)) /\ OfCall(CellAt(l.at))
      BY <2>1 DEF RetiringInHand, Replacing
    <2>4. IsEntry(CellAt(y)) /\ OfCall(CellAt(y))
      BY <2>2 DEF NewIndex, IsEntry, OfCall
    <2> QED BY <2>2, <2>3, <2>4 DEF SameKey, OfCall
  <1> QED BY <1>1, <1>2

----------------------------------------------------------------------------
(***************************************************************************)
(* What every step keeps of the store.                                     *)
(***************************************************************************)
\* outside the calls that erase, a call has met no error and is not done
Opened == pc \notin {"erasespan", "sweep"} => l.outcome = "open"

\* the inductive invariant of the store: Live, and what the call under way knows of it
KeysInv  == KeysOnce /\ NamesOnce /\ InNamed /\ ChunkOnce /\ IndexHasChunks
ChunkInv == ChunkHasIndex /\ PendingThere
CallKnows == NameKnown /\ NameNew /\ OldKnown /\ RetiringInHand /\ SweptInHand /\ HeadErased /\ Built /\ Waiting /\ Opened
StoreInv == KeysInv /\ ChunkInv /\ CallKnows /\ CopyMap

\* the entry at `x` stands at `y` after the step, its data with it
SameRecord(x, y) ==
  y[2] <= x[2] /\ \A i \in 0 .. SpanOf(CellAt(x)) - 1 : cell'[y[1]][y[2] + i] = cell[x[1]][x[2] + i]

\* what counts before the step counts after it, each entry where it was or moved
StoreKept ==
  \E m \in [Live' -> Live] :
    /\ \A y \in Live' : SameRecord(m[y], y)
    /\ \A y, z \in Live' : m[y] = m[z] => y = z
    /\ \A x \in Live : \E y \in Live' : m[y] = x

\* chunks no index names
Wanted(start, number) == (Building \/ Sweeping) /\ Awaiting(start, number)

\* the chunks that wait are the same after the step
SamePending ==
  \A start \in {0, 1} : \A number \in Nat :
    /\ Wanted(start, number)' <=> Wanted(start, number)
    /\ Wanted(start, number) => op' = op /\ l'.ns = l.ns

\* An entry that counts is whole and lies in a data page.
LEMMA LiveFacts ==
  ASSUME FlashTypeOK, AllWhole, NEW x \in Live
  PROVE  /\ x \in Place /\ x \in Standing /\ x[1] \in DataPages /\ x[1] \in Page /\ x[2] \in Slot /\ x[2] \in Nat
         /\ Slots \in Nat /\ x[2] < Slots
         /\ WrittenHeader(x[1], x[2]) /\ CellAt(x) = cell[x[1]][x[2]] /\ CellAt(x) \in Cell /\ IsHeader(CellAt(x))
         /\ SpanOf(CellAt(x)) \in Nat /\ SpanOf(CellAt(x)) >= 1 /\ x[2] + SpanOf(CellAt(x)) <= Slots
         /\ Whole(x[1], x[2])
         /\ \A i \in 0 .. SpanOf(CellAt(x)) - 1 : x[2] + i \in Slot /\ bits[x[1]][x[2] + i] # "empty"
         /\ \A i \in 1 .. SpanOf(CellAt(x)) - 1 : ~IsHeader(cell[x[1]][x[2] + i])
  <1>1. x \in Place /\ x \in Standing /\ x[1] \in DataPages /\ WrittenHeader(x[1], x[2])
        /\ ~(pc \in CompactPoints /\ x[1] = l.target)
    BY DEF Live, Standing
  <1>2. x[1] \in Page /\ x[2] \in Slot
    BY <1>1 DEF Place
  <1>3. x[2] \in Nat /\ Slots \in Nat /\ x[2] < Slots
    BY <1>2, SlotsAreNat DEF SlotNat
  <1> DEFINE n == SpanOf(cell[x[1]][x[2]])
  <1>4. n \in Nat /\ n >= 1
    BY <1>1, <1>2, HeaderSpan
  <1>5. Whole(x[1], x[2])
    BY <1>1, <1>2 DEF AllWhole, CopyingCell, CompactPoints
  <1>6. CellAt(x) = cell[x[1]][x[2]] /\ CellAt(x) \in Cell /\ IsHeader(CellAt(x))
    BY <1>1, <1>2 DEF CellAt, WrittenHeader, FlashTypeOK
  <1>7. x[2] + n <= Slots /\ \A i \in 1 .. n - 1 : bits[x[1]][x[2] + i] # "empty" /\ ~IsHeader(cell[x[1]][x[2] + i])
    BY <1>5 DEF Whole
  <1> HIDE DEF n
  <1>8. ASSUME NEW i \in 0 .. n - 1
        PROVE  x[2] + i \in Slot /\ bits[x[1]][x[2] + i] # "empty"
    <2>1. x[2] + i \in Slot
      BY <1>3, <1>4, <1>7 DEF Slot
    <2>2. CASE i = 0
      BY <1>1, <1>3, <2>1, <2>2 DEF WrittenHeader
    <2>3. CASE i # 0
      BY <1>4, <1>7, <2>1, <2>3
    <2> QED BY <2>1, <2>2, <2>3
  <1> QED BY <1>1, <1>2, <1>3, <1>4, <1>5, <1>6, <1>7, <1>8 DEF n

\* A chunk, an index and a single entry have the fields they are made of.
LEMMA EntryFields ==
  ASSUME NEW c \in Cell
  PROVE  /\ c.kind = "ns" => c.name \in Namespaces /\ c.index \in Nat
         /\ c.kind = "chunk" => c.ns \in Nat /\ c.name \in Names /\ c.start \in {0, 1} /\ c.number \in Nat
                                /\ c.size \in Nat /\ c.value \in Values /\ c.offset \in Nat
         /\ c.kind = "idx" => c.ns \in Nat /\ c.name \in Names /\ c.start \in {0, 1} /\ c.count \in Nat /\ c.size \in Nat
         /\ c.kind = "single" => c.ns \in Nat /\ c.name \in Names /\ c.size \in Nat /\ c.value \in Values
  BY FormatAssumption DEF Cell, Blank, Garbage, NamespaceCells, ChunkCells, IndexCells, SingleCells, DataCells

\* A record that stays or moves is the same entry, and its data is intact if it was.
LEMMA RecordSame ==
  ASSUME FlashTypeOK, AllWhole, NEW x \in Live, NEW y \in Place, SameRecord(x, y)
  PROVE  /\ CellAt(y)' = CellAt(x)
         /\ \A v, o : \A n \in Nat : n < SpanOf(CellAt(x)) /\ DataIntact(x, v, o, n) => DataIntact(y, v, o, n)'
  <1>1. /\ x[2] \in Nat /\ Slots \in Nat /\ CellAt(x) = cell[x[1]][x[2]]
        /\ SpanOf(CellAt(x)) \in Nat /\ SpanOf(CellAt(x)) >= 1
    BY LiveFacts
  <1>2. y[2] \in Nat
    BY SlotsAreNat DEF Place, SlotNat
  <1> DEFINE n0 == SpanOf(CellAt(x))
  <1>3. y[2] <= x[2] /\ \A i \in 0 .. n0 - 1 : cell'[y[1]][y[2] + i] = cell[x[1]][x[2] + i]
    BY DEF SameRecord
  <1> HIDE DEF n0
  <1>4. cell'[y[1]][y[2] + 0] = cell[x[1]][x[2] + 0]
    BY <1>1, <1>3 DEF n0
  <1>5. CellAt(y)' = CellAt(x)
    BY <1>1, <1>2, <1>4 DEF CellAt
  <1>6. ASSUME NEW v, NEW o, NEW n \in Nat, n < n0, DataIntact(x, v, o, n)
        PROVE  DataIntact(y, v, o, n)'
    <2> SUFFICES ASSUME NEW i \in 0 .. n - 1
                 PROVE  y[2] + 1 + i < Slots /\ cell'[y[1]][y[2] + 1 + i] = Data(v, o + i)
      BY DEF DataIntact
    <2>1. x[2] + 1 + i < Slots /\ cell[x[1]][x[2] + 1 + i] = Data(v, o + i)
      BY <1>6 DEF DataIntact
    <2>2. i + 1 \in 0 .. n0 - 1 /\ x[2] + 1 + i = x[2] + (i + 1) /\ y[2] + 1 + i = y[2] + (i + 1)
      BY <1>1, <1>2, <1>6 DEF n0
    <2> QED BY <1>1, <1>2, <1>3, <2>1, <2>2
  <1> QED BY <1>5, <1>6 DEF n0

\* A chunk and a single entry, too.
LEMMA ChunkSame ==
  ASSUME FlashTypeOK, AllWhole, NEW x \in Live, NEW y \in Place, SameRecord(x, y)
  PROVE  /\ CellAt(y)' = CellAt(x)
         /\ IsChunk(x) /\ IntactChunk(x) => IntactChunk(y)'
  <1>1. CellAt(x) \in Cell
    BY LiveFacts
  <1>2. CellAt(y)' = CellAt(x)
    BY RecordSame
  <1>3. ASSUME IsChunk(x), IntactChunk(x) PROVE IntactChunk(y)'
    <2>1. CellAt(x).size \in Nat /\ SpanOf(CellAt(x)) = CellAt(x).size + 1
      BY <1>1, <1>3, EntryFields DEF IsChunk, SpanOf
    <2> QED BY <1>2, <1>3, <2>1, RecordSame DEF IntactChunk
  <1> QED BY <1>2, <1>3

\* Keys, names and chunks stay unique, and every index keeps its chunks.
LEMMA KeepsKeys ==
  ASSUME FlashTypeOK, AllWhole, StoreKept, KeysInv
  PROVE  KeysInv'
  <1>1. PICK m \in [Live' -> Live] : /\ \A y \in Live' : SameRecord(m[y], y)
                                     /\ \A y, z \in Live' : m[y] = m[z] => y = z
                                     /\ \A x \in Live : \E y \in Live' : m[y] = x
    BY DEF StoreKept
  <1>2. \A y \in Live' : m[y] \in Live /\ y \in Place /\ CellAt(y)' = CellAt(m[y])
    <2> SUFFICES ASSUME NEW y \in Live' PROVE m[y] \in Live /\ y \in Place /\ CellAt(y)' = CellAt(m[y])
      OBVIOUS
    <2>1. y \in Place /\ m[y] \in Live /\ SameRecord(m[y], y)
      BY <1>1 DEF Live, Standing
    <2> QED BY <2>1, RecordSame
  <1>3. KeysOnce'
    BY <1>1, <1>2 DEF KeysInv, KeysOnce
  <1>4. NamesOnce'
    BY <1>1, <1>2 DEF KeysInv, NamesOnce, IsName
  <1>5. InNamed'
    <2> SUFFICES ASSUME NEW y \in Live', IsEntry(CellAt(y)') PROVE \E z \in Live' : IsName(z)' /\ CellAt(z).index' = CellAt(y).ns'
      BY DEF InNamed
    <2>1. PICK w \in Live : IsName(w) /\ CellAt(w).index = CellAt(m[y]).ns
      BY <1>2 DEF KeysInv, InNamed
    <2>2. PICK z \in Live' : m[z] = w
      BY <1>1
    <2> QED BY <1>2, <2>1, <2>2 DEF IsName
  <1>6. ChunkOnce'
    BY <1>1, <1>2 DEF KeysInv, ChunkOnce, IsChunk
  <1>7. IndexHasChunks'
    <2> SUFFICES ASSUME NEW y \in Live', IsIndex(y)', NEW c \in 0 .. CellAt(y)'.count - 1
                 PROVE  \E z \in Live' : IsChunk(z)' /\ SameBlob(CellAt(z)', CellAt(y)') /\ CellAt(z)'.number = c
      BY DEF IndexHasChunks
    <2>1. IsIndex(m[y]) /\ c \in 0 .. CellAt(m[y]).count - 1
      BY <1>2 DEF IsIndex
    <2>2. PICK w \in Live : IsChunk(w) /\ SameBlob(CellAt(w), CellAt(m[y])) /\ CellAt(w).number = c
      BY <1>2, <2>1 DEF KeysInv, IndexHasChunks
    <2>3. PICK z \in Live' : m[z] = w
      BY <1>1
    <2> QED BY <1>2, <2>2, <2>3 DEF IsChunk
  <1> QED BY <1>3, <1>4, <1>5, <1>6, <1>7 DEF KeysInv

\* So do the chunks that wait for their index, or for their end.
LEMMA KeepsChunks ==
  ASSUME FlashTypeOK, AllWhole, StoreKept, SamePending, ChunkInv
  PROVE  ChunkInv' /\ \A c \in Cell : c.kind = "chunk" => (Pending(c)' <=> Pending(c))
  <1>1. PICK m \in [Live' -> Live] : /\ \A y \in Live' : SameRecord(m[y], y)
                                     /\ \A y, z \in Live' : m[y] = m[z] => y = z
                                     /\ \A x \in Live : \E y \in Live' : m[y] = x
    BY DEF StoreKept
  <1>2. \A y \in Live' : m[y] \in Live /\ y \in Place /\ CellAt(y)' = CellAt(m[y])
    <2> SUFFICES ASSUME NEW y \in Live' PROVE m[y] \in Live /\ y \in Place /\ CellAt(y)' = CellAt(m[y])
      OBVIOUS
    <2>1. y \in Place /\ m[y] \in Live /\ SameRecord(m[y], y)
      BY <1>1 DEF Live, Standing
    <2> QED BY <2>1, RecordSame
  <1>3. \A c \in Cell : c.kind = "chunk" => (Pending(c)' <=> Pending(c))
    <2> SUFFICES ASSUME NEW c \in Cell, c.kind = "chunk" PROVE Pending(c)' <=> Pending(c)
      OBVIOUS
    <2>1. c.start \in {0, 1} /\ c.number \in Nat
      BY EntryFields
    <2>2. /\ Wanted(c.start, c.number)' <=> Wanted(c.start, c.number)
          /\ Wanted(c.start, c.number) => op' = op /\ l'.ns = l.ns
      BY <2>1 DEF SamePending
    <2>3. Pending(c) <=> OfCall(c) /\ Wanted(c.start, c.number)
      BY DEF Pending, Wanted
    <2>4. Pending(c)' <=> OfCall(c)' /\ Wanted(c.start, c.number)'
      BY DEF Pending, Wanted
    <2>5. Wanted(c.start, c.number) => (OfCall(c)' <=> OfCall(c))
      BY <2>2 DEF OfCall
    <2> QED BY <2>2, <2>3, <2>4, <2>5
  <1>4. \A y \in Live' : IsChunk(y)' => (Pending(CellAt(y))' <=> Pending(CellAt(m[y])))
    <2> SUFFICES ASSUME NEW y \in Live', IsChunk(y)' PROVE Pending(CellAt(y))' <=> Pending(CellAt(m[y]))
      OBVIOUS
    <2>1. CellAt(m[y]) \in Cell /\ CellAt(m[y]).kind = "chunk" /\ CellAt(y)' = CellAt(m[y])
      BY <1>2, LiveFacts DEF IsChunk
    <2>2. PICK c \in Cell : c = CellAt(m[y])
      BY <2>1
    <2>3. Pending(c)' <=> Pending(c)
      BY <1>3, <2>1, <2>2
    <2>4. Pending(CellAt(y))' <=> Pending(c)'
      BY <2>1, <2>2 DEF Pending, OfCall, Awaiting
    <2> QED BY <2>2, <2>3, <2>4
  <1>5. ChunkHasIndex'
    <2> SUFFICES ASSUME NEW y \in Live', IsChunk(y)'
                 PROVE  IF Pending(CellAt(y))' THEN \A z \in Live' : IsIndex(z)' => ~SameBlob(CellAt(y)', CellAt(z)')
                        ELSE \E z \in Live' : IsIndex(z)' /\ SameBlob(CellAt(y)', CellAt(z)')
      BY DEF ChunkHasIndex
    <2>1. m[y] \in Live /\ IsChunk(m[y]) /\ CellAt(y)' = CellAt(m[y])
      BY <1>2 DEF IsChunk
    <2>2. CASE Pending(CellAt(y))'
      <3>1. \A w \in Live : IsIndex(w) => ~SameBlob(CellAt(m[y]), CellAt(w))
        BY <1>4, <2>1, <2>2 DEF ChunkInv, ChunkHasIndex
      <3> QED BY <1>2, <2>1, <2>2, <3>1 DEF IsIndex
    <2>3. CASE ~Pending(CellAt(y))'
      <3>1. PICK w \in Live : IsIndex(w) /\ SameBlob(CellAt(m[y]), CellAt(w))
        BY <1>4, <2>1, <2>3 DEF ChunkInv, ChunkHasIndex
      <3>2. PICK z \in Live' : m[z] = w
        BY <1>1
      <3>3. IsIndex(z)' /\ SameBlob(CellAt(y)', CellAt(z)')
        BY <1>2, <2>1, <3>1, <3>2 DEF IsIndex
      <3> QED BY <2>3, <3>3
    <2> QED BY <2>2, <2>3
  <1>6. PendingThere'
    <2> SUFFICES ASSUME NEW start \in {0, 1}, NEW number \in Nat, Wanted(start, number)'
                 PROVE  \E z \in Live' : IsChunk(z)' /\ OfCall(CellAt(z))' /\ CellAt(z)'.start = start /\ CellAt(z)'.number = number
      BY DEF PendingThere, Wanted
    <2>1. Wanted(start, number) /\ op' = op /\ l'.ns = l.ns
      BY DEF SamePending
    <2>2. PICK w \in Live : IsChunk(w) /\ OfCall(CellAt(w)) /\ CellAt(w).start = start /\ CellAt(w).number = number
      BY <2>1 DEF ChunkInv, PendingThere, Wanted
    <2>3. PICK z \in Live' : m[z] = w
      BY <1>1
    <2> QED BY <1>2, <2>1, <2>2, <2>3 DEF IsChunk, OfCall
  <1> QED BY <1>3, <1>5, <1>6 DEF ChunkInv

----------------------------------------------------------------------------
(***************************************************************************)
(* The steps that change nothing that counts.                              *)
(***************************************************************************)
\* where the slots a page uses keep what they hold, its entries do
LEMMA RecordStays ==
  ASSUME FlashTypeOK, AllWhole, NEW x \in Live,
         \A t \in Slot : bits[x[1]][t] # "empty" => cell'[x[1]][t] = cell[x[1]][t]
  PROVE  SameRecord(x, x)
  BY LiveFacts DEF SameRecord

\* What stays in its place is kept.
LEMMA StoreStays ==
  ASSUME Live' = Live, \A x \in Live : SameRecord(x, x)
  PROVE  StoreKept
  <1> DEFINE m == [y \in Live' |-> y]
  <1>1. m \in [Live' -> Live] /\ \A y \in Live' : m[y] = y
    OBVIOUS
  <1> HIDE DEF m
  <1> QED BY <1>1 DEF StoreKept

\* what a call has found out and done
SameProgress ==
  /\ l'.ns = l.ns /\ l'.old = l.old /\ l'.oldCell = l.oldCell /\ l'.start = l.start
  /\ l'.offset = l.offset /\ l'.written = l.written /\ l'.sweep = l.sweep /\ l'.outcome = l.outcome

\* where a namespace's entry is to be written, and where an index is
NamingPoint == pc \in IndexPoints /\ op.call = "put" /\ l.want = "ns"
ClosingPoint == OldPoint /\ pc # "chunk" /\ l.want = "idx"

\* a step on the way to the next thing to write
Steady ==
  /\ pc \notin {"erasespan", "sweep"} /\ pc' \notin {"erasespan", "sweep"}
  /\ op' = op /\ SameProgress
  /\ NamePoint' => NamePoint
  /\ NamingPoint' => NamingPoint
  /\ OldPoint' <=> OldPoint
  /\ ClosingPoint' => ClosingPoint
  /\ l'.want = "ns" => l.want = "ns"

\* what counts is where it was
Settled == Live' = Live /\ \A x \in Live : SameRecord(x, x)

\* a step that only makes room or fills in what does not count yet
Quiet == Settled /\ Steady

\* Between its entries a call has no slot in hand and no chunk to erase.
LEMMA NotErasing ==
  ASSUME pc \notin {"erasespan", "sweep"}
  PROVE  ~Retiring /\ ~Replacing /\ ~Sweeping
  BY DEF Retiring, Replacing, Sweeping

\* Such a step keeps everything, also when it moves what counts: there is no value to be replaced then.
LEMMA SteadyStore ==
  ASSUME FlashTypeOK, AllWhole, StoreInv, StoreKept, l.old.status = "found" => Settled, Steady, CopyMap'
  PROVE  StoreInv'
  <1>0. KeysInv /\ ChunkInv /\ CallKnows
    BY DEF StoreInv
  <1>1. PICK m \in [Live' -> Live] : /\ \A y \in Live' : SameRecord(m[y], y)
                                     /\ \A y, z \in Live' : m[y] = m[z] => y = z
                                     /\ \A x \in Live : \E y \in Live' : m[y] = x
    BY DEF StoreKept
  <1>2. ~Retiring /\ ~Replacing /\ ~Sweeping /\ ~Retiring' /\ ~Replacing' /\ ~Sweeping'
    BY DEF Steady, Retiring, Replacing, Sweeping
  <1>3. op' = op /\ SameProgress
    BY DEF Steady
  <1>4. Building' <=> Building
    BY <1>2, <1>3 DEF Building, SameProgress
  <1>5. SamePending
    BY <1>2, <1>3, <1>4 DEF SamePending, Wanted, Awaiting, SameProgress
  <1>6. KeysInv' /\ ChunkInv' /\ \A c \in Cell : c.kind = "chunk" => (Pending(c)' <=> Pending(c))
    BY <1>0, <1>5, KeepsKeys, KeepsChunks
  <1>7. \A y \in Live' : /\ m[y] \in Live /\ CellAt(m[y]) \in Cell /\ CellAt(y)' = CellAt(m[y])
                         /\ IsChunk(m[y]) /\ IntactChunk(m[y]) => IntactChunk(y)'
    <2> SUFFICES ASSUME NEW y \in Live'
                 PROVE  /\ m[y] \in Live /\ CellAt(m[y]) \in Cell /\ CellAt(y)' = CellAt(m[y])
                        /\ IsChunk(m[y]) /\ IntactChunk(m[y]) => IntactChunk(y)'
      OBVIOUS
    <2>1. m[y] \in Live /\ y \in Place /\ SameRecord(m[y], y)
      BY <1>1 DEF Live, Standing
    <2>2. CellAt(m[y]) \in Cell
      BY <2>1, LiveFacts
    <2> QED BY <2>1, <2>2, ChunkSame
  <1>8. NameKnown'
    <2> SUFFICES ASSUME NamePoint' PROVE \E y \in Live' : IsName(y)' /\ CellAt(y)'.name = op'.ns /\ CellAt(y)'.index = l'.ns
      BY DEF NameKnown
    <2>1. PICK x \in Live : IsName(x) /\ CellAt(x).name = op.ns /\ CellAt(x).index = l.ns
      BY <1>0 DEF CallKnows, NameKnown, Steady
    <2>2. PICK y \in Live' : m[y] = x
      BY <1>1
    <2> QED BY <1>3, <1>7, <2>1, <2>2 DEF SameProgress, IsName
  <1>9. NameNew'
    <2> SUFFICES ASSUME NamingPoint', NEW y \in Live', IsName(y)' PROVE CellAt(y)'.name # op'.ns
      BY DEF NameNew, NamingPoint
    <2>1. IsName(m[y]) /\ m[y] \in Live /\ CellAt(y)' = CellAt(m[y])
      BY <1>7 DEF IsName
    <2> QED BY <1>0, <1>3, <2>1 DEF CallKnows, NameNew, Steady, NamingPoint
  <1>10. OldKnown'
    <2> SUFFICES ASSUME OldPoint' PROVE OldKnown'
      BY DEF OldKnown
    <2>1. /\ \A x \in Live : IsEntry(CellAt(x)) /\ OfCall(CellAt(x)) => l.old.status = "found" /\ x = l.old.place
          /\ l.old.status = "found" => /\ l.old.place \in Live /\ IsEntry(l.oldCell) /\ OfCall(l.oldCell)
                                       /\ l.oldCell.kind = "idx" => l.start # l.oldCell.start
      BY <1>0 DEF CallKnows, OldKnown, Steady
    <2>2. CASE l.old.status = "found"
      <3>1. Live' = Live /\ \A x \in Live : CellAt(x)' = CellAt(x)
        <4>1. ASSUME NEW x \in Live PROVE CellAt(x)' = CellAt(x)
          <5>1. x \in Place /\ SameRecord(x, x)
            BY <2>2 DEF Settled, Live, Standing
          <5> QED BY <5>1, RecordSame
        <4> QED BY <2>2, <4>1 DEF Settled
      <3> QED BY <1>3, <2>1, <3>1 DEF OldKnown, SameProgress, OfCall
    <2>3. CASE l.old.status # "found"
      <3>1. \A y \in Live' : ~(IsEntry(CellAt(y)') /\ OfCall(CellAt(m[y])))
        BY <1>7, <2>1, <2>3
      <3> QED BY <1>3, <1>7, <2>3, <3>1 DEF OldKnown, SameProgress, OfCall
    <2> QED BY <2>2, <2>3
  <1>11. RetiringInHand' /\ SweptInHand' /\ HeadErased' /\ Waiting'
    BY <1>2 DEF RetiringInHand, SweptInHand, HeadErased, Waiting, Steady
  <1>12. Opened'
    BY <1>0, <1>3 DEF CallKnows, Opened, Steady, SameProgress
  <1>13. Built'
    <2> SUFFICES ASSUME Building PROVE Built'
      BY <1>4 DEF Built
    <2>1. /\ l.outcome = "open" => l.sweep = NoLocals.sweep
          /\ l.written = 0 => l.offset = 0
          /\ ~(OldPoint \/ Replacing) => l.written = 0 /\ l.old.status = "none"
          /\ l.want = "ns" => l.written = 0
          /\ ClosingPoint => l.written >= 1 /\ l.offset = Size[op.value]
      BY <1>0 DEF CallKnows, Built, ClosingPoint
    <2>2. /\ l'.outcome = "open" => l'.sweep = NoLocals.sweep
          /\ l'.written = 0 => l'.offset = 0
          /\ ~(OldPoint' \/ Replacing') => l'.written = 0 /\ l'.old.status = "none"
          /\ l'.want = "ns" => l'.written = 0
          /\ ClosingPoint' => l'.written >= 1 /\ l'.offset = Size[op'.value]
      BY <1>2, <1>3, <2>1 DEF SameProgress, Steady
    <2>3. ASSUME NEW y \in Live', IsChunk(y)', Pending(CellAt(y))'
          PROVE  m[y] \in Live /\ IsChunk(m[y]) /\ Pending(CellAt(m[y])) /\ CellAt(y)' = CellAt(m[y])
      <3>1. IsChunk(m[y]) /\ CellAt(m[y]).kind = "chunk" /\ m[y] \in Live /\ CellAt(y)' = CellAt(m[y])
        BY <1>7, <2>3 DEF IsChunk
      <3>2. PICK c \in Cell : c = CellAt(m[y])
        BY <1>7
      <3>3. Pending(c)'
        BY <1>7, <2>3, <3>2 DEF Pending, OfCall, Awaiting
      <3> QED BY <1>6, <3>1, <3>2, <3>3
    <2>4. ASSUME NEW y \in Live', IsChunk(y)', Pending(CellAt(y))'
          PROVE  /\ CellAt(y)'.value = op'.value /\ IntactChunk(y)'
                 /\ CellAt(y)'.number = 0 => CellAt(y)'.offset = 0
                 /\ CellAt(y)'.number = l'.written - 1 => CellAt(y)'.offset + CellAt(y)'.size = l'.offset
      <3>1. m[y] \in Live /\ IsChunk(m[y]) /\ Pending(CellAt(m[y])) /\ CellAt(y)' = CellAt(m[y])
        BY <2>3, <2>4
      <3>2. /\ CellAt(m[y]).value = op.value /\ IntactChunk(m[y])
            /\ CellAt(m[y]).number = 0 => CellAt(m[y]).offset = 0
            /\ CellAt(m[y]).number = l.written - 1 => CellAt(m[y]).offset + CellAt(m[y]).size = l.offset
        BY <1>0, <3>1 DEF CallKnows, Built
      <3> QED BY <1>3, <1>7, <3>1, <3>2 DEF SameProgress
    <2>5. ASSUME NEW x \in Live', IsChunk(x)', Pending(CellAt(x))',
                 NEW y \in Live', IsChunk(y)', Pending(CellAt(y))', CellAt(y)'.number = CellAt(x)'.number + 1
          PROVE  CellAt(y)'.offset = CellAt(x)'.offset + CellAt(x)'.size
      <3>1. /\ m[x] \in Live /\ IsChunk(m[x]) /\ Pending(CellAt(m[x])) /\ CellAt(x)' = CellAt(m[x])
            /\ m[y] \in Live /\ IsChunk(m[y]) /\ Pending(CellAt(m[y])) /\ CellAt(y)' = CellAt(m[y])
        BY <2>3, <2>5
      <3>2. CellAt(m[y]).number = CellAt(m[x]).number + 1 => CellAt(m[y]).offset = CellAt(m[x]).offset + CellAt(m[x]).size
        BY <1>0, <3>1 DEF CallKnows, Built
      <3> QED BY <2>5, <3>1, <3>2
    <2>6. (OldPoint' /\ pc' # "chunk" /\ l'.want = "idx") => ClosingPoint'
      BY DEF ClosingPoint
    <2> QED BY <1>2, <2>2, <2>4, <2>5, <2>6 DEF Built
  <1> QED BY <1>6, <1>8, <1>9, <1>10, <1>11, <1>12, <1>13 DEF StoreInv, CallKnows

\* Such a step that moves nothing keeps everything.
LEMMA QuietStore ==
  ASSUME FlashTypeOK, AllWhole, StoreInv, Quiet, CopyMap'
  PROVE  StoreInv'
  BY StoreStays, SteadyStore DEF Quiet, Settled

\* A step that touches no slot.
LEMMA StillLive ==
  ASSUME UNCHANGED <<bits, cell>>, DataPages' = DataPages, pc # "erasespan", pc' # "erasespan",
         \/ pc \notin CompactPoints /\ pc' \notin CompactPoints
         \/ pc \in CompactPoints /\ pc' \in CompactPoints /\ l'.target = l.target
  PROVE  Live' = Live /\ \A x \in Live : SameRecord(x, x)
  <1>1. Standing' = Standing
    BY DEF Standing, WrittenHeader
  <1>2. ~Replacing /\ ~Replacing'
    BY DEF Replacing, Retiring
  <1>3. Live' = Live
    BY <1>1, <1>2 DEF Live
  <1>4. \A x \in Live : x[2] \in Nat
    BY SlotsAreNat DEF Live, Standing, Place, SlotNat
  <1> QED BY <1>3, <1>4 DEF SameRecord

\* A step while room is sought or made, or an entry written, on the same errand.
LEMMA MoreQuiet ==
  ASSUME Live' = Live, \A x \in Live : SameRecord(x, x), op' = op, SameProgress, l'.want = l.want,
         pc \in MorePoints, pc' \in MorePoints, NamingPoint' => NamingPoint
  PROVE  Quiet
  <1>1. pc \notin {"erasespan", "sweep", "old", "chunk"} /\ pc' \notin {"erasespan", "sweep", "old", "chunk"}
    BY DEF MorePoints, CompactPoints, WritePoints
  <1>2. ~Retiring'
    BY <1>1 DEF Retiring
  <1>3. NamePoint' => NamePoint
    BY <1>1, <1>2 DEF NamePoint
  <1>4. OldPoint' <=> OldPoint
    BY <1>1 DEF OldPoint
  <1>5. ClosingPoint' => ClosingPoint
    BY <1>1, <1>4 DEF ClosingPoint
  <1> QED BY <1>1, <1>3, <1>4, <1>5 DEF Quiet, Settled, Steady

\* The slot found, or the page to compact, is all that changes.
LEMMA DeliverProgress ==
  ASSUME l \in Locals, NEW p, Deliver(p)
  PROVE  op' = op /\ pc' = (IF l.want = "chunk" THEN "data" ELSE "entry") /\ SameProgress /\ l'.want = l.want
  <1>1. PICK s \in Slot :
          /\ l' = [l EXCEPT !.at = <<p, s>>, !.k = 0]
          /\ pc' = IF l.want = "chunk" THEN "data" ELSE "entry"
          /\ op' = op
    BY DEF Deliver, Goto, Keep
  <1> QED BY <1>1 DEF SameProgress, Locals

\* Beginning a compaction leaves the call where it stands.
LEMMA CompactProgress ==
  ASSUME l \in Locals, NEW t, NEW n, Compact(t, n)
  PROVE  op' = op /\ pc' = "start" /\ SameProgress /\ l'.want = l.want /\ UNCHANGED flash
  BY DEF Compact, Goto, Keep, SameProgress, Locals

\* An entry is to be written, room is sought for it, a page is started or compacted for it.
LEMMA PageWithRoomQuiet ==
  ASSUME FlashTypeOK, CallState, Pages, PageWithRoom
  PROVE  Quiet /\ CopyMap'
  <1>0. pc = "room" /\ l \in Locals
    BY DEF PageWithRoom, CallState
  <1>1. op' = op /\ pc' \in {"data", "entry", "activate"} /\ SameProgress /\ l'.want = l.want
    <2>1. CASE \E p \in ActivePages : Deliver(p)
      BY <1>0, <2>1, DeliverProgress
    <2>2. CASE l' = [l EXCEPT !.tries = 2] /\ pc' = "activate" /\ op' = op
      BY <1>0, <2>2 DEF SameProgress, Locals
    <2> QED BY <2>1, <2>2 DEF PageWithRoom, Goto, Keep
  <1>2. UNCHANGED <<bits, cell>> /\ DataPages' = DataPages
    BY StillStepStill DEF StillStep, PageWithRoom, StartHeader
  <1>3. Live' = Live /\ \A x \in Live : SameRecord(x, x)
    BY <1>0, <1>1, <1>2, StillLive DEF CompactPoints
  <1>4. NamingPoint' => NamingPoint
    BY <1>0, <1>1 DEF NamingPoint, IndexPoints
  <1>5. pc \in MorePoints /\ pc' \in MorePoints /\ pc' \notin CompactPoints
    BY <1>0, <1>1 DEF MorePoints, WritePoints, CompactPoints
  <1>6. CopyMap'
    BY <1>5 DEF CopyMap
  <1> QED BY <1>1, <1>3, <1>4, <1>5, <1>6, MoreQuiet

\* The new page is taken or closed.
LEMMA CheckRoomQuiet ==
  ASSUME FlashTypeOK, CallState, Pages, CheckRoom
  PROVE  Quiet /\ CopyMap'
  <1>0. pc = "check" /\ l \in Locals
    BY DEF CheckRoom, CallState
  <1>1. op' = op /\ pc' \in {"data", "entry", "activate"} /\ SameProgress /\ l'.want = l.want
    <2>1. CASE Deliver(l.target)
      BY <1>0, <2>1, DeliverProgress
    <2>2. CASE l' = l /\ pc' = "activate" /\ op' = op
      BY <1>0, <2>2 DEF SameProgress
    <2> QED BY <2>1, <2>2 DEF CheckRoom, Goto, Keep
  <1>2. UNCHANGED <<bits, cell>> /\ DataPages' = DataPages
    BY StillStepStill DEF StillStep, CheckRoom, StartHeader
  <1>3. Live' = Live /\ \A x \in Live : SameRecord(x, x)
    BY <1>0, <1>1, <1>2, StillLive DEF CompactPoints
  <1>4. NamingPoint' => NamingPoint
    BY <1>0, <1>1 DEF NamingPoint, IndexPoints
  <1>5. pc \in MorePoints /\ pc' \in MorePoints /\ pc' \notin CompactPoints
    BY <1>0, <1>1 DEF MorePoints, WritePoints, CompactPoints
  <1>6. CopyMap'
    BY <1>5 DEF CopyMap
  <1> QED BY <1>1, <1>3, <1>4, <1>5, <1>6, MoreQuiet

\* A free page is chosen, or a victim.
LEMMA ActivatePageQuiet ==
  ASSUME FlashTypeOK, CallState, Pages, ActivatePage, pc' = "start"
  PROVE  Quiet /\ CopyMap'
  <1>0. pc = "activate" /\ l \in Locals
    <2>1. pc = "activate"
      BY DEF ActivatePage
    <2> QED BY <2>1 DEF CallState
  <1>1. op' = op /\ SameProgress /\ l'.want = l.want
    <2>1. CASE \E t \in FreePages : Compact(t, l.tries - 1)
      BY <1>0, <2>1, CompactProgress
    <2>2. CASE \E t \in FreePages :
                 /\ l' = [l EXCEPT !.target = t, !.compacting = FALSE, !.tries = @ - 1]
                 /\ pc' = "start" /\ UNCHANGED flash /\ op' = op
      BY <1>0, <2>2 DEF SameProgress, Locals
    <2>3. ~Fail("BufferTooSmall")
      BY DEF Fail, Answer, Goto
    <2> QED BY <2>1, <2>2, <2>3 DEF ActivatePage, Goto, Keep
  <1>2. UNCHANGED <<bits, cell>> /\ DataPages' = DataPages
    BY <1>0, StillStepStill DEF StillStep, StartHeader
  <1>3. Live' = Live /\ \A x \in Live : SameRecord(x, x)
    BY <1>0, <1>1, <1>2, StillLive DEF CompactPoints
  <1>4. NamingPoint' => NamingPoint
    BY <1>0, <1>1 DEF NamingPoint, IndexPoints
  <1>5. pc \in MorePoints /\ pc' \in MorePoints /\ pc' \notin CompactPoints
    BY <1>0, <1>1 DEF MorePoints, WritePoints, CompactPoints
  <1>6. CopyMap'
    BY <1>5 DEF CopyMap
  <1> QED BY <1>1, <1>3, <1>4, <1>5, <1>6, MoreQuiet

\* A free page holds nothing that counts: erasing it changes nothing.
LEMMA StartEraseQuiet ==
  ASSUME FlashTypeOK, AllWhole, Pages, StartErase
  PROVE  Quiet /\ CopyMap'
  <1>1. pc = "start" /\ pc' = pc /\ l' = l /\ op' = op /\ l.target \in FreePages /\ l.target \in Page
        /\ ErasePage(l.target)
    BY DEF StartErase, Keep, Pages, Reserved, FreePages
  <1>2. DataPages' = DataPages /\ \A q \in DataPages : q # l.target /\ bits'[q] = bits[q] /\ cell'[q] = cell[q]
    <2>1. DataPages' = DataPages \ {l.target} /\ l.target \notin DataPages
      BY <1>1, EraseEffect DEF FreePages
    <2>2. \A q \in DataPages : q \in Page /\ q # l.target
      BY <2>1 DEF DataPages
    <2> QED BY <1>1, <2>1, <2>2, EraseEffect
  <1>3. Standing' = Standing
    BY <1>2 DEF Standing, WrittenHeader
  <1>4. ~Replacing /\ ~Replacing' /\ pc \notin CompactPoints /\ pc' \notin CompactPoints
    BY <1>1 DEF Replacing, Retiring, CompactPoints
  <1>5. Live' = Live
    BY <1>3, <1>4 DEF Live
  <1>6. \A x \in Live : SameRecord(x, x)
    <2> SUFFICES ASSUME NEW x \in Live PROVE SameRecord(x, x)
      OBVIOUS
    <2>1. x[1] \in DataPages
      BY LiveFacts
    <2> QED BY <1>2, <2>1, RecordStays
  <1>7. SameProgress /\ l'.want = l.want /\ (NamingPoint' => NamingPoint) /\ pc \in MorePoints
    BY <1>1 DEF SameProgress, NamingPoint, MorePoints
  <1>8. CopyMap'
    BY <1>4 DEF CopyMap
  <1> QED BY <1>1, <1>5, <1>6, <1>7, <1>8, MoreQuiet

\* A page opened is empty, and younger than all there are.
LEMMA StartHeaderQuiet ==
  ASSUME FlashTypeOK, CallState, AllWhole, FreeEmpty, CopyInHand, Pages, StartHeader
  PROVE  Quiet /\ CopyMap'
  <1>1. /\ UNCHANGED <<bits, cell, op, l>> /\ pc = "start" /\ hdr[l.target].state = "uninit"
        /\ pc' = IF l.compacting THEN "copy" ELSE "check"
        /\ l.target \in FreePages /\ l.target \in Page /\ DataPages' = DataPages \cup {l.target}
    BY StartEffect DEF Pages, Reserved, FreePages
  <1>2. \A s \in Slot : bits[l.target][s] = "empty"
    BY <1>1, StartedBlank
  <1>3. Standing' = Standing /\ \A x \in Standing : x[1] # l.target
    <2>1. \A s \in Slot : ~WrittenHeader(l.target, s)
      BY <1>2 DEF WrittenHeader
    <2>2. \A x \in Place : x[2] \in Slot
      BY DEF Place
    <2> QED BY <1>1, <2>1, <2>2 DEF Standing, WrittenHeader
  <1>4. Live' = Live
    BY <1>1, <1>3 DEF Live, Replacing, Retiring, CompactPoints
  <1>5. \A x \in Live : SameRecord(x, x)
    BY <1>1, RecordStays
  <1>6. SameProgress /\ l'.want = l.want /\ (NamingPoint' => NamingPoint) /\ pc \in MorePoints /\ pc' \in MorePoints
    BY <1>1 DEF SameProgress, NamingPoint, MorePoints, IndexPoints, CompactPoints
  <1>7. CopyMap'
    <2> SUFFICES ASSUME pc' \in CompactPoints PROVE CopyMap'
      BY DEF CopyMap
    <2>1. pc' = "copy" /\ l'.from = 0 /\ l'.to = 0
      BY <1>1 DEF CompactPoints, CopyInHand
    <2>2. Copied' = {} /\ Copies' = {}
      <3>1. \A s \in Slot : ~(s < 0)
        BY SlotsAreNat DEF SlotNat
      <3>2. CopyingCell'
        BY <2>1 DEF CopyingCell
      <3> QED BY <2>1, <3>1, <3>2 DEF Copied, Copies
    <2> DEFINE f == [s \in {} |-> 0]
    <2>3. f \in [Copied' -> Copies']
      BY <2>2
    <2> QED BY <2>2, <2>3 DEF CopyMap
  <1> QED BY <1>1, <1>4, <1>5, <1>6, <1>7, MoreQuiet

\* A step that programs an empty slot, or marks one that holds no header, outside a page being copied into.
LEMMA WriteLive ==
  ASSUME FlashTypeOK, AllWhole, UNCHANGED hdr, UsedKept, pc # "erasespan", pc' # "erasespan",
         pc \notin CompactPoints, pc' \notin CompactPoints,
         \A x \in Place : x[1] \in DataPages => (WrittenHeader(x[1], x[2])' <=> WrittenHeader(x[1], x[2]))
  PROVE  Live' = Live /\ \A x \in Live : SameRecord(x, x)
  <1>1. DataPages' = DataPages
    BY DEF DataPages
  <1>2. Standing' = Standing
    BY <1>1 DEF Standing
  <1>3. Live' = Live
    BY <1>2 DEF Live, Replacing, Retiring
  <1>4. \A x \in Live : SameRecord(x, x)
    BY LiveFacts, RecordStays DEF UsedKept
  <1> QED BY <1>3, <1>4

\* The data of an entry is written, then its header; none of it counts yet.
LEMMA DataWriteQuiet ==
  ASSUME FlashTypeOK, CallState, Pages, FlashInv, HandInv, DataWrite
  PROVE  Quiet /\ CopyMap'
  <1>1. /\ pc = "data" /\ pc' = "datamark" /\ UNCHANGED <<hdr, bits, l, op>>
        /\ ProgramCell(l.at[1], l.at[2] + 1 + l.k, Data(op.value, l.offset + l.k))
    BY DEF DataWrite, Goto, Keep
  <1>2. /\ l.at[1] \in Page /\ l.at[2] + 1 + l.k \in Slot /\ bits[l.at[1]][l.at[2] + 1 + l.k] = "empty"
    BY <1>1, NextDataSlot, EntrySlots DEF HandInv, Writing
  <1>3. UsedKept
    BY <1>1, <1>2, ProgramEffect DEF UsedKept
  <1>4. ASSUME NEW x \in Place, x[1] \in DataPages PROVE WrittenHeader(x[1], x[2])' <=> WrittenHeader(x[1], x[2])
    BY <1>1, <1>3 DEF UsedKept, WrittenHeader, Place
  <1>5. Live' = Live /\ \A x \in Live : SameRecord(x, x)
    BY <1>1, <1>3, <1>4, WriteLive DEF CompactPoints, FlashInv
  <1>6. SameProgress /\ l'.want = l.want /\ (NamingPoint' => NamingPoint) /\ pc \in MorePoints /\ pc' \in MorePoints
    BY <1>1 DEF SameProgress, NamingPoint, MorePoints, WritePoints, IndexPoints, CompactPoints
  <1>7. CopyMap'
    BY <1>1 DEF CopyMap, CompactPoints
  <1> QED BY <1>1, <1>5, <1>6, <1>7, MoreQuiet

\* Data is marked before its header: no header is added.
LEMMA DataMarkQuiet ==
  ASSUME FlashTypeOK, CallState, Pages, FlashInv, HandInv, DataMark
  PROVE  Quiet /\ CopyMap'
  <1> DEFINE p == l.at[1]
             e == l.at[2] + 1 + l.k
  <1>1. /\ pc = "datamark" /\ pc' \in {"data", "entry"} /\ UNCHANGED <<hdr, cell, op>>
        /\ Mark(p, e, "written") /\ l' = [l EXCEPT !.k = l.k + 1]
    BY DEF DataMark, Goto, Keep
  <1>2. /\ p \in Page /\ e \in Slot /\ bits[p][e] = "empty" /\ ~IsHeader(cell[p][e]) /\ l.want = "chunk"
    BY <1>1, NextDataSlot, EntrySlots DEF HandInv, EntryInHand, Writing
  <1> HIDE DEF e, p
  <1>3. UsedKept
    BY <1>1, <1>2, MarkKeepsUsed
  <1>4. ASSUME NEW x \in Place, x[1] \in DataPages PROVE WrittenHeader(x[1], x[2])' <=> WrittenHeader(x[1], x[2])
    <2>1. x[1] \in Page /\ x[2] \in Slot
      BY DEF Place
    <2>2. CASE x[1] = p /\ x[2] = e
      BY <1>1, <1>2, <2>2 DEF WrittenHeader
    <2>3. CASE ~(x[1] = p /\ x[2] = e)
      BY <1>1, <1>2, <2>1, <2>3, MarkEffect DEF WrittenHeader
    <2> QED BY <2>2, <2>3
  <1>5. Live' = Live /\ \A x \in Live : SameRecord(x, x)
    BY <1>1, <1>3, <1>4, WriteLive DEF CompactPoints, FlashInv
  <1>6. SameProgress /\ l'.want = l.want
    BY <1>1 DEF SameProgress, CallState, Locals
  <1>7. (NamingPoint' => NamingPoint) /\ pc \in MorePoints /\ pc' \in MorePoints
    BY <1>1, <1>2, <1>6 DEF NamingPoint, MorePoints, WritePoints
  <1>8. CopyMap'
    BY <1>1 DEF CopyMap, CompactPoints
  <1> QED BY <1>1, <1>5, <1>6, <1>7, <1>8, MoreQuiet

\* An entry written counts when it is marked, not before.
LEMMA EntryWriteQuiet ==
  ASSUME FlashTypeOK, CallState, Pages, FlashInv, HandInv, EntryWrite
  PROVE  Quiet /\ CopyMap'
  <1>1. /\ pc = "entry" /\ pc' = "entrymark" /\ UNCHANGED <<hdr, bits, l, op>>
        /\ ProgramCell(l.at[1], l.at[2], EntryCell)
    BY DEF EntryWrite, Goto, Keep
  <1>2. l.at[1] \in Page /\ l.at[2] \in Slot /\ bits[l.at[1]][l.at[2]] = "empty"
    BY <1>1, EntrySlots DEF HandInv, Writing
  <1>3. UsedKept
    BY <1>1, <1>2, ProgramEffect DEF UsedKept
  <1>4. ASSUME NEW x \in Place, x[1] \in DataPages PROVE WrittenHeader(x[1], x[2])' <=> WrittenHeader(x[1], x[2])
    BY <1>1, <1>3 DEF UsedKept, WrittenHeader, Place
  <1>5. Live' = Live /\ \A x \in Live : SameRecord(x, x)
    BY <1>1, <1>3, <1>4, WriteLive DEF CompactPoints, FlashInv
  <1>6. SameProgress /\ l'.want = l.want /\ (NamingPoint' => NamingPoint) /\ pc \in MorePoints /\ pc' \in MorePoints
    BY <1>1 DEF SameProgress, NamingPoint, MorePoints, WritePoints, IndexPoints, CompactPoints
  <1>7. CopyMap'
    BY <1>1 DEF CopyMap, CompactPoints
  <1> QED BY <1>1, <1>5, <1>6, <1>7, MoreQuiet

\* A page is marked full.
LEMMA FillQuiet ==
  ASSUME FlashTypeOK, CallState, Pages, Fill
  PROVE  Quiet /\ CopyMap'
  <1>1. /\ pc = "fill" /\ pc' = (IF l.want = "chunk" THEN "chunk" ELSE "room") /\ UNCHANGED <<l, op>> /\ op.call = "put"
    BY DEF Fill, Goto, Keep, CallState, Routing, PutPoints, WritePoints
  <1>2. UNCHANGED <<bits, cell>> /\ DataPages' = DataPages
    BY StillStepStill DEF StillStep, Fill, StartHeader
  <1>3. Live' = Live /\ \A x \in Live : SameRecord(x, x)
    BY <1>1, <1>2, StillLive DEF CompactPoints
  <1>4. SameProgress
    BY <1>1 DEF SameProgress
  <1>5. /\ NamePoint' => NamePoint
        /\ OldPoint' <=> OldPoint
        /\ NamingPoint' => NamingPoint
        /\ ClosingPoint' => ClosingPoint
    BY <1>1 DEF NamePoint, OldPoint, NamingPoint, ClosingPoint, MorePoints, WritePoints, IndexPoints, Retiring
  <1>6. CopyMap'
    BY <1>1 DEF CopyMap, CompactPoints
  <1> QED BY <1>1, <1>3, <1>4, <1>5, <1>6 DEF Quiet, Settled, Steady

\* The next chunk is to be written.
LEMMA ChunkLoopQuiet ==
  ASSUME CallState, ChunkLoop, pc' = "room"
  PROVE  Quiet /\ CopyMap'
  <1>1. pc = "chunk" /\ op.call = "put"
    BY DEF ChunkLoop, CallState, Routing, PutPoints
  <1>2. l' = [l EXCEPT !.want = "chunk"] /\ op' = op /\ UNCHANGED flash
    BY DEF ChunkLoop, Fail, Answer, Goto, Keep
  <1>3. SameProgress /\ l'.want = "chunk"
    BY <1>2 DEF SameProgress, CallState, Locals
  <1>4. Live' = Live /\ \A x \in Live : SameRecord(x, x)
    BY <1>1, <1>2, StillLive DEF CompactPoints, flash, DataPages
  <1>5. /\ NamePoint' => NamePoint
        /\ OldPoint' <=> OldPoint
        /\ NamingPoint' => NamingPoint
        /\ ClosingPoint' => ClosingPoint
    BY <1>1, <1>2, <1>3 DEF NamePoint, OldPoint, NamingPoint, ClosingPoint, MorePoints, Retiring
  <1>6. CopyMap'
    BY DEF CopyMap, CompactPoints
  <1> QED BY <1>1, <1>2, <1>3, <1>4, <1>5, <1>6 DEF Quiet, Settled, Steady

\* A scrub goes on.
LEMMA ScrubQuiet ==
  ASSUME FlashTypeOK, CallState, Pages, Scrub, pc' # "idle"
  PROVE  Quiet /\ CopyMap'
  <1>1. pc = "scrub" /\ op.call = "scrub" /\ l \in Locals
    <2>1. pc = "scrub"
      BY DEF Scrub
    <2> QED BY <2>1 DEF CallState, Routing
  <1>2. pc' \in {"scrub", "start"} /\ op' = op /\ SameProgress /\ l'.want = l.want
    <2>1. CASE Keep /\ UNCHANGED <<pc, l>>
      BY <1>1, <2>1 DEF Keep, SameProgress
    <2>2. CASE \E t \in Page : Compact(t, 0)
      BY <1>1, <2>2, CompactProgress
    <2> QED BY <2>1, <2>2 DEF Scrub, Answer, Goto
  <1>3. UNCHANGED <<bits, cell>> /\ DataPages' = DataPages
    BY <1>1, StillStepStill DEF StillStep, StartHeader
  <1>4. Live' = Live /\ \A x \in Live : SameRecord(x, x)
    BY <1>1, <1>2, <1>3, StillLive DEF CompactPoints
  <1>5. ~NamePoint' /\ ~NamingPoint' /\ ~OldPoint' /\ ~OldPoint
    BY <1>1, <1>2 DEF NamePoint, NamingPoint, OldPoint, Retiring
  <1>6. CopyMap'
    BY <1>2 DEF CopyMap, CompactPoints
  <1> QED BY <1>1, <1>2, <1>4, <1>5, <1>6 DEF Quiet, Settled, Steady, ClosingPoint

\* A step that writes into the page being copied into.
LEMMA CopyLive ==
  ASSUME FlashTypeOK, AllWhole, UNCHANGED hdr, pc \in CompactPoints, pc' \in CompactPoints, l'.target = l.target,
         \A q \in Page : \A t \in Slot : q # l.target => bits'[q][t] = bits[q][t] /\ cell'[q][t] = cell[q][t]
  PROVE  Live' = Live /\ \A x \in Live : SameRecord(x, x)
  <1>1. DataPages' = DataPages /\ ~Replacing /\ ~Replacing'
    BY DEF DataPages, Replacing, Retiring, CompactPoints
  <1>2. ASSUME NEW x \in Place, x[1] # l.target
        PROVE  x[1] \in DataPages => (WrittenHeader(x[1], x[2])' <=> WrittenHeader(x[1], x[2]))
    <2>1. x[1] \in Page /\ x[2] \in Slot
      BY DEF Place
    <2>2. bits'[x[1]][x[2]] = bits[x[1]][x[2]] /\ cell'[x[1]][x[2]] = cell[x[1]][x[2]]
      BY <1>2, <2>1
    <2> QED BY <2>2 DEF WrittenHeader
  <1>3. Live' = Live
    BY <1>1, <1>2 DEF Live, Standing
  <1>4. ASSUME NEW x \in Live PROVE SameRecord(x, x)
    <2>1. x[1] # l.target /\ x[1] \in Page
      BY LiveFacts DEF Live
    <2> QED BY <2>1, RecordStays
  <1> QED BY <1>3, <1>4

\* An entry copied stays copied while used slots keep what they hold.
LEMMA CopyStays ==
  ASSUME FlashTypeOK, CallState, Pages, FlashInv, CopyingCell, UsedKept, l'.target = l.target, l'.victim = l.victim,
         NEW s \in Slot, NEW t \in Slot, WrittenHeader(l.victim, s), WrittenHeader(l.target, t), t # l.to, SameCopy(s, t)
  PROVE  SameCopy(s, t)' /\ cell'[l.victim][s] = cell[l.victim][s]
  <1>1. /\ l.target \in DataPages /\ l.target \in Page /\ l.victim \in DataPages /\ l.victim \in Page
        /\ l.victim # l.target /\ s \in Nat /\ t \in Nat
    BY CopyPages, SlotsAreNat DEF SlotNat
  <1> DEFINE n == SpanOf(cell[l.victim][s])
  <1>2. n \in Nat /\ n >= 1
    BY <1>1, HeaderSpan
  <1>3. \A i \in 0 .. n - 1 : cell[l.target][t + i] = cell[l.victim][s + i]
    BY DEF SameCopy
  <1>4. cell[l.target][t] = cell[l.victim][s]
    <2>1. cell[l.target][t + 0] = cell[l.victim][s + 0]
      BY <1>2, <1>3
    <2> QED BY <1>1, <2>1
  <1>5. Whole(l.target, t) /\ Whole(l.victim, s)
    BY <1>1, VictimWhole DEF FlashInv, AllWhole
  <1>6. cell'[l.victim][s] = cell[l.victim][s]
    BY <1>1 DEF UsedKept, WrittenHeader
  <1>7. /\ t + n <= Slots /\ \A i \in 1 .. n - 1 : bits[l.target][t + i] # "empty"
        /\ s + n <= Slots /\ \A i \in 1 .. n - 1 : bits[l.victim][s + i] # "empty"
    BY <1>4, <1>5 DEF Whole
  <1> HIDE DEF n
  <1>8. ASSUME NEW i \in 0 .. n - 1 PROVE cell'[l.target][t + i] = cell'[l.victim][s + i]
    <2>1. t + i \in Slot /\ s + i \in Slot
      BY <1>1, <1>2, <1>7, SlotsAreNat DEF SlotNat, Slot
    <2>2. bits[l.target][t + i] # "empty" /\ bits[l.victim][s + i] # "empty"
      <3>1. CASE i = 0
        BY <1>1, <3>1 DEF WrittenHeader
      <3>2. CASE i # 0
        BY <1>2, <1>7, <3>2
      <3> QED BY <3>1, <3>2
    <2> QED BY <1>1, <1>3, <2>1, <2>2 DEF UsedKept
  <1> QED BY <1>6, <1>8 DEF SameCopy, n

\* The next slot of the target is programmed.
LEMMA CopyCellQuiet ==
  ASSUME FlashTypeOK, CallState, Pages, EmptyBlank, FlashInv, HandInv, CopyMap, CopyCell
  PROVE  Quiet /\ CopyMap'
  <1> DEFINE t == l.target
             v == l.victim
             e == l.to + l.k
  <1>0. CopyInHand
    BY DEF HandInv
  <1>1. PICK s \in Slot :
          /\ IF l.k = 0
               THEN /\ NextWritten(s)
                    /\ \E n \in SpansAt(l.victim, s) : l' = [l EXCEPT !.from = s, !.span = n]
               ELSE s = l.from /\ UNCHANGED l
          /\ ProgramCell(t, e, cell[v][s + l.k])
          /\ pc = "copy" /\ pc' = "copymark" /\ UNCHANGED <<hdr, bits, op>>
    BY DEF CopyCell, Goto, Keep
  <1>2. CopyingCell /\ CopyingCell' /\ l'.target = t /\ l'.victim = v /\ l'.to = l.to /\ l'.k = l.k
        /\ l'.from = s /\ SameProgress /\ l'.want = l.want
    BY <1>1 DEF CopyingCell, CallState, Locals, SameProgress
  <1>3. /\ t \in DataPages /\ t \in Page /\ v \in DataPages /\ v \in Page /\ v # t
        /\ l.to \in Nat /\ l.from \in Nat /\ l.k \in Nat /\ l.span \in Nat /\ Slots \in Nat /\ s \in Nat
    BY <1>2, CopyPages DEF Slot
  <1>4. \A a \in Slot : WrittenHeader(v, a) => (a < s <=> a < l.from)
    <2>1. CASE l.k = 0
      <3>1. NextWritten(s)
        BY <1>1, <2>1
      <3>2. s >= l.from /\ \A a \in l.from .. s - 1 : bits[v][a] # "written"
        BY <3>1 DEF NextWritten
      <3>3. \A a \in Slot : a \in Nat
        BY SlotsAreNat DEF SlotNat
      <3> QED BY <1>3, <3>2, <3>3 DEF WrittenHeader
    <2>2. CASE l.k # 0
      BY <1>1, <2>2
    <2> QED BY <2>1, <2>2
  <1>5. \A a \in Slot : ~(a < e) => bits[t][a] = "empty"
    BY <1>0, <1>2 DEF CopyInHand
  <1>6. UsedKept
    <2>0. \A q \in Page : \A a \in Slot : ~(q = t /\ a = e) => cell'[q][a] = cell[q][a]
      <3>1. \E c : ProgramCell(t, e, c)
        BY <1>1
      <3> HIDE DEF e
      <3> QED BY <1>3, <3>1, ProgramEffect
    <2>1. ASSUME NEW q \in Page, NEW a \in Slot, bits[q][a] # "empty" PROVE cell'[q][a] = cell[q][a] /\ bits'[q][a] # "empty"
      <3>1. ~(q = t /\ a = e)
        <4> SUFFICES ASSUME q = t, a = e PROVE FALSE
          OBVIOUS
        <4>1. ~(a < e) /\ a \in Slot
          BY <1>3
        <4> QED BY <1>5, <2>1, <4>1
      <3>2. bits' = bits
        BY <1>1
      <3> QED BY <2>0, <2>1, <3>1, <3>2
    <2> QED BY <2>1 DEF UsedKept
  <1>7. \A q \in Page : \A a \in Slot : q # t => bits'[q][a] = bits[q][a] /\ cell'[q][a] = cell[q][a]
    BY <1>1, <1>3, ProgramEffect
  <1>8. \A q \in DataPages : \A a \in Slot : WrittenHeader(q, a)' <=> WrittenHeader(q, a)
    BY <1>1, <1>6 DEF UsedKept, WrittenHeader, DataPages
  <1>9. Live' = Live /\ \A x \in Live : SameRecord(x, x)
    BY <1>1, <1>2, <1>7, CopyLive DEF FlashInv, CompactPoints
  <1>10. CopyMap'
    <2>1. PICK f \in [Copied -> Copies] :
            /\ \A a \in Copied : SameCopy(a, f[a]) /\ f[a] <= a
            /\ \A a, b \in Copied : f[a] = f[b] => a = b
            /\ \A b \in Copies : \E a \in Copied : f[a] = b
      BY <1>1 DEF CopyMap, CompactPoints
    <2>2. Copied' = Copied
      BY <1>2, <1>3, <1>4, <1>8 DEF Copied
    <2>3. Copies' = Copies
      BY <1>2, <1>3, <1>8 DEF Copies
    <2>4. ASSUME NEW a \in Copied PROVE SameCopy(a, f[a])'
      <3>1. f[a] \in Slot /\ WrittenHeader(t, f[a]) /\ f[a] # l.to /\ a \in Slot /\ WrittenHeader(v, a) /\ SameCopy(a, f[a])
        <4>1. f[a] \in Copies /\ SameCopy(a, f[a])
          BY <2>1
        <4> QED BY <1>2, <1>3, <4>1, SlotsAreNat DEF Copied, Copies, SlotNat
      <3> QED BY <1>2, <1>6, <3>1, CopyStays
    <2> QED BY <2>1, <2>2, <2>3, <2>4 DEF CopyMap
  <1>11. pc \in MorePoints /\ pc' \in MorePoints /\ (NamingPoint' => NamingPoint)
    BY <1>1, <1>2 DEF MorePoints, CompactPoints, NamingPoint, IndexPoints
  <1> QED BY <1>1, <1>2, <1>9, <1>10, <1>11, MoreQuiet

\* The copy is over.
LEMMA CopyDoneQuiet ==
  ASSUME FlashTypeOK, CallState, Pages, HandInv, CopyMap, CopyDone
  PROVE  Quiet /\ CopyMap'
  <1>1. /\ pc = "copy" /\ l.k = 0 /\ pc' = "reclaim" /\ UNCHANGED <<hdr, bits, cell, op, l>>
        /\ \A s \in Slot : ~NextWritten(s)
    BY DEF CopyDone, Goto, Keep, flash
  <1>2. CopyingCell /\ ~CopyingCell' /\ CopyInHand
    BY <1>1 DEF CopyingCell, HandInv
  <1>3. DataPages' = DataPages
    BY <1>1 DEF DataPages
  <1>4. Live' = Live /\ \A x \in Live : SameRecord(x, x)
    BY <1>1, <1>3, StillLive DEF CompactPoints
  <1>5. \A s \in Slot : WrittenHeader(l.victim, s) => s < l.from
    <2> SUFFICES ASSUME NEW s \in Slot, WrittenHeader(l.victim, s), ~(s < l.from) PROVE FALSE
      OBVIOUS
    <2> DEFINE S == {a \in Slot : a >= l.from /\ bits[l.victim][a] = "written"}
    <2>1. s \in S /\ S \in SUBSET Nat /\ l.from \in Nat
      BY <1>2, CopyPages, SlotsAreNat DEF SlotNat, WrittenHeader
    <2>2. PICK a \in S : \A b \in S : a <= b
      BY <2>1, LeastNat
    <2>3. ASSUME NEW b \in l.from .. a - 1 PROVE bits[l.victim][b] # "written"
      <3>1. b \in Slot /\ b >= l.from /\ b < a
        BY <2>1, <2>2, SlotsAreNat DEF SlotNat, Slot
      <3> QED BY <2>1, <2>2, <3>1
    <2>4. NextWritten(a)
      BY <2>2, <2>3 DEF NextWritten
    <2> QED BY <1>1, <2>2, <2>4
  <1>6. \A t \in Slot : WrittenHeader(l.target, t) => t < l.to
    BY <1>1, <1>2, CopyPages DEF CopyInHand, WrittenHeader
  <1>7. Copied' = Copied /\ Copies' = Copies
    BY <1>1, <1>2, <1>5, <1>6 DEF Copied, Copies, WrittenHeader
  <1>8. CopyMap'
    <2>1. PICK f \in [Copied -> Copies] :
            /\ \A a \in Copied : SameCopy(a, f[a]) /\ f[a] <= a
            /\ \A a, b \in Copied : f[a] = f[b] => a = b
            /\ \A b \in Copies : \E a \in Copied : f[a] = b
      BY <1>1 DEF CopyMap, CompactPoints
    <2>2. \A a \in Copied : SameCopy(a, f[a])'
      BY <1>1, <2>1 DEF SameCopy
    <2> QED BY <1>7, <2>1, <2>2 DEF CopyMap
  <1>9. SameProgress /\ l'.want = l.want /\ pc \in MorePoints /\ pc' \in MorePoints /\ (NamingPoint' => NamingPoint)
    BY <1>1 DEF SameProgress, MorePoints, CompactPoints, NamingPoint, IndexPoints
  <1> QED BY <1>1, <1>4, <1>8, <1>9, MoreQuiet

\* A slot of the copy is marked; with the last of them one more entry has its copy.
LEMMA CopyMarkQuiet ==
  ASSUME FlashTypeOK, CallState, Pages, FlashInv, HandInv, CopyMap, CopyMark
  PROVE  Quiet /\ CopyMap'
  <1> DEFINE t == l.target
             v == l.victim
             e == l.to + l.k
  <1>0. CopyInHand
    BY DEF HandInv
  <1>1. /\ pc = "copymark" /\ pc' = "copy" /\ CopyingCell /\ CopyingCell' /\ l'.target = t /\ l'.victim = v
        /\ UNCHANGED <<hdr, cell>>
    BY <1>0, CopyMarkFacts DEF CopyingCell
  <1>2. /\ t \in DataPages /\ t \in Page /\ v \in DataPages /\ v \in Page /\ v # t
        /\ l.to \in Nat /\ l.from \in Nat /\ l.k \in Nat /\ l.span \in Nat /\ Slots \in Nat
    BY <1>1, CopyPages
  <1>3. /\ l.from \in Slot /\ l.k < l.span /\ WrittenHeader(v, l.from) /\ SpanOf(cell[v][l.from]) = l.span
        /\ \A i \in 1 .. l.span - 1 : ~IsHeader(cell[v][l.from + i])
        /\ l.to <= l.from /\ l.to \in Slot /\ e \in Slot
    BY <1>0, <1>1, EntryCopied
  <1>4. /\ \A q \in Page : \A a \in Slot : ~(q = t /\ a = e) => bits'[q][a] = bits[q][a]
        /\ \A i \in 0 .. l.k : cell[t][l.to + i] = cell[v][l.from + i]
        /\ bits'[t][l.to] = "written" /\ IsHeader(cell[t][l.to])
    BY <1>0, CopyMarkFacts
  <1>5. \A q \in Page : \A a \in Slot : q # t => bits'[q][a] = bits[q][a] /\ cell'[q][a] = cell[q][a]
    BY <1>1, <1>4
  <1>6. Live' = Live /\ \A x \in Live : SameRecord(x, x)
    <2>1. pc \in CompactPoints /\ pc' \in CompactPoints
      BY <1>1 DEF CompactPoints
    <2> QED BY <1>1, <1>5, <2>1, CopyLive DEF FlashInv
  <1>7. \A a \in Slot : WrittenHeader(v, a)' <=> WrittenHeader(v, a)
    BY <1>1, <1>2, <1>5 DEF WrittenHeader
  <1>8. \A a \in Slot : a < l.to => (WrittenHeader(t, a)' <=> WrittenHeader(t, a))
    <2> SUFFICES ASSUME NEW a \in Slot, a < l.to PROVE WrittenHeader(t, a)' <=> WrittenHeader(t, a)
      OBVIOUS
    <2>1. a \in Nat
      BY SlotsAreNat DEF SlotNat
    <2>2. a # e
      BY <1>2, <2>1
    <2>3. bits'[t][a] = bits[t][a]
      BY <1>2, <1>4, <2>2
    <2> QED BY <1>1, <2>3 DEF WrittenHeader
  <1>9. PICK f \in [Copied -> Copies] :
          /\ \A a \in Copied : SameCopy(a, f[a]) /\ f[a] <= a
          /\ \A a, b \in Copied : f[a] = f[b] => a = b
          /\ \A b \in Copies : \E a \in Copied : f[a] = b
    BY <1>1 DEF CopyMap, CompactPoints
  <1>10. \A a \in Slot, b \in Nat : SameCopy(a, b) => SameCopy(a, b)'
    BY <1>1 DEF SameCopy
  <1>11. CopyMap'
    <2>1. CASE l.k + 1 < l.span
      <3>1. l'.from = l.from /\ l'.to = l.to
        BY <1>0, <2>1, CopyMarkFacts
      <3>2. Copied' = Copied
        BY <1>1, <1>7, <3>1 DEF Copied
      <3>3. Copies' = Copies
        BY <1>1, <1>8, <3>1 DEF Copies
      <3>4. \A a \in Copied : a \in Slot /\ f[a] \in Nat
        BY SlotsAreNat DEF Copied, Copies, SlotNat
      <3>5. \A a \in Copied : SameCopy(a, f[a])'
        BY <1>9, <1>10, <3>4
      <3> QED BY <1>9, <3>2, <3>3, <3>5 DEF CopyMap
    <2>2. CASE ~(l.k + 1 < l.span)
      <3>1. l'.from = l.from + l.span /\ l'.to = l.to + l.span /\ l.k + 1 = l.span
        BY <1>0, <1>2, <1>3, <2>2, CopyMarkFacts
      <3>2. \A a \in Slot : a \in Nat
        BY SlotsAreNat DEF SlotNat
      <3>0. PICK from \in Slot, to \in Slot : from = l.from /\ to = l.to
        BY <1>3
      <3>3. Copied' = Copied \cup {from}
        <4>1. ASSUME NEW a \in Slot, WrittenHeader(v, a), a < l.from + l.span, ~(a < l.from) PROVE a = l.from
          <5>1. a - l.from \in 0 .. l.span - 1 /\ l.from + (a - l.from) = a
            BY <1>2, <3>2, <4>1
          <5>2. a # l.from => a - l.from \in 1 .. l.span - 1
            BY <1>2, <3>2, <5>1
          <5> QED BY <1>3, <4>1, <5>1, <5>2 DEF WrittenHeader
        <4>2. \A a \in Slot : a < l.from \/ a = l.from => a < l.from + l.span
          BY <1>2, <1>3, <3>2
        <4>3. Copied' = {a \in Slot : WrittenHeader(v, a) /\ a < l.from + l.span}
          BY <1>1, <1>7, <3>1 DEF Copied
        <4>4. Copied = {a \in Slot : WrittenHeader(v, a) /\ a < l.from}
          BY <1>1 DEF Copied
        <4> QED BY <1>3, <3>0, <4>1, <4>2, <4>3, <4>4
      <3>4. Copies' = Copies \cup {to}
        <4>1. ASSUME NEW a \in Slot, WrittenHeader(t, a)', a < l.to + l.span, ~(a < l.to) PROVE a = l.to
          <5>1. a - l.to \in 0 .. l.k /\ l.to + (a - l.to) = a
            BY <1>2, <3>1, <3>2, <4>1
          <5>2. a # l.to => a - l.to \in 1 .. l.span - 1
            BY <1>2, <3>1, <3>2, <5>1
          <5>3. cell[t][a] = cell[v][l.from + (a - l.to)]
            BY <1>4, <5>1
          <5>4. IsHeader(cell[t][a])
            BY <1>1, <4>1 DEF WrittenHeader
          <5> QED BY <1>3, <5>2, <5>3, <5>4
        <4>2. \A a \in Slot : a < l.to \/ a = l.to => a < l.to + l.span
          BY <1>2, <1>3, <3>2
        <4>3. Copies' = {a \in Slot : WrittenHeader(t, a)' /\ a < l.to + l.span}
          BY <1>1, <3>1 DEF Copies
        <4>4. Copies = {a \in Slot : WrittenHeader(t, a) /\ a < l.to}
          BY <1>1 DEF Copies
        <4>5. WrittenHeader(t, to)'
          BY <1>1, <1>4, <3>0 DEF WrittenHeader
        <4>6. ASSUME NEW a \in Slot PROVE a \in Copies' <=> a \in Copies \/ a = to
          <5>1. CASE a < to
            <6>1. a < l.to /\ a < l.to + l.span /\ a # to
              BY <1>2, <3>0, <3>2, <4>2, <5>1
            <6>2. WrittenHeader(t, a)' <=> WrittenHeader(t, a)
              BY <1>8, <6>1
            <6>3. a \in Copies' <=> WrittenHeader(t, a)'
              BY <4>3, <6>1
            <6>4. a \in Copies <=> WrittenHeader(t, a)
              BY <4>4, <6>1
            <6> QED BY <6>1, <6>2, <6>3, <6>4
          <5>2. CASE ~(a < to)
            BY <3>0, <4>1, <4>2, <4>3, <4>4, <4>5, <5>2
          <5> QED BY <5>1, <5>2
        <4>7. Copies' \subseteq Slot /\ Copies \subseteq Slot
          BY <4>3, <4>4
        <4> QED BY <3>0, <4>6, <4>7
      <3>5. from \notin Copied /\ to \notin Copies
        BY <1>1, <1>2, <3>0 DEF Copied, Copies
      <3> DEFINE g == [a \in Copied \cup {from} |-> IF a = from THEN to ELSE f[a]]
      <3>6. g \in [Copied \cup {from} -> Copies \cup {to}] /\ g[from] = to /\ \A a \in Copied : g[a] = f[a] /\ f[a] \in Copies
        BY <1>9, <3>5
      <3>60. PICK h : h = g
        OBVIOUS
      <3> HIDE DEF g
      <3>61. h \in [Copied' -> Copies'] /\ h[from] = to /\ \A a \in Copied : h[a] = f[a] /\ f[a] \in Copies
        BY <3>3, <3>4, <3>6, <3>60
      <3>7. SameCopy(from, to)'
        <4>1. \A i \in 0 .. SpanOf(cell[v][l.from]) - 1 : cell[t][l.to + i] = cell[v][l.from + i]
          BY <1>2, <1>3, <1>4, <3>1
        <4> QED BY <1>1, <3>0, <4>1 DEF SameCopy
      <3>8. \A a \in Copied' : SameCopy(a, h[a])' /\ h[a] <= a
        <4>1. ASSUME NEW a \in Copied PROVE SameCopy(a, h[a])' /\ h[a] <= a
          <5>1. a \in Slot /\ SameCopy(a, f[a]) /\ f[a] <= a
            BY <1>9 DEF Copied
          <5>2. f[a] \in Copies /\ h[a] = f[a]
            BY <3>61
          <5>3. f[a] \in Nat
            BY <3>2, <5>2 DEF Copies
          <5>4. SameCopy(a, f[a])'
            BY <1>10, <5>1, <5>3
          <5> QED BY <5>1, <5>2, <5>4
        <4>2. SameCopy(from, h[from])' /\ h[from] <= from
          BY <1>3, <3>0, <3>61, <3>7
        <4> QED BY <3>3, <4>1, <4>2
      <3>9. \A a, b \in Copied' : h[a] = h[b] => a = b
        <4>1. \A a \in Copied' : a \in Copied \/ a = from
          BY <3>3
        <4>2. \A a \in Copied : h[a] # to /\ h[a] = f[a]
          BY <3>5, <3>61
        <4> QED BY <1>9, <3>61, <4>1, <4>2
      <3>10. \A b \in Copies' : \E a \in Copied' : h[a] = b
        BY <1>9, <3>3, <3>4, <3>61
      <3>11. \E y \in [Copied' -> Copies'] :
               /\ \A a \in Copied' : SameCopy(a, y[a])' /\ y[a] <= a
               /\ \A a, b \in Copied' : y[a] = y[b] => a = b
               /\ \A b \in Copies' : \E a \in Copied' : y[a] = b
        BY <3>61, <3>8, <3>9, <3>10
      <3> QED BY <3>11 DEF CopyMap
    <2> QED BY <2>1, <2>2
  <1>12. op' = op /\ SameProgress /\ l'.want = l.want
    <2>1. CASE l.k + 1 < l.span
      BY <2>1 DEF CopyMark, Keep, SameProgress, CallState, Locals
    <2>2. CASE ~(l.k + 1 < l.span)
      BY <2>2 DEF CopyMark, Keep, SameProgress, CallState, Locals
    <2> QED BY <2>1, <2>2
  <1>13. pc \in MorePoints /\ pc' \in MorePoints /\ (NamingPoint' => NamingPoint)
    BY <1>1, <1>12 DEF MorePoints, CompactPoints, NamingPoint, IndexPoints
  <1> QED BY <1>6, <1>11, <1>12, <1>13, MoreQuiet

----------------------------------------------------------------------------
(***************************************************************************)
(* The steps that touch no slot: a call begins, looks up, fails, answers.  *)
(***************************************************************************)
\* no chunk waits for an index or for its end
NoneWanted == \A start \in {0, 1} : \A number \in Nat : ~Wanted(start, number)

\* What counts stays, and what the call knows after the step decides the rest.
LEMMA TalkStore ==
  ASSUME FlashTypeOK, AllWhole, StoreInv, UNCHANGED flash, pc \notin CompactPoints, pc' \notin CompactPoints,
         ~Replacing, ~Replacing', SamePending,
         NameKnown', NameNew', OldKnown', RetiringInHand', SweptInHand', HeadErased', Opened',
         Building' => /\ l'.written = 0 /\ l'.offset = 0 /\ l'.sweep = NoLocals.sweep
                      /\ OldPoint' \/ l'.old.status = "none"
                      /\ ~ClosingPoint' /\ ~Sweeping'
  PROVE  StoreInv' /\ Settled
  <1>1. Standing' = Standing
    BY DEF flash, Standing, DataPages, WrittenHeader
  <1>2. Live' = Live
    BY <1>1 DEF Live
  <1>3. \A x \in Live : SameRecord(x, x)
    <2>1. \A x \in Live : x[2] \in Nat
      BY SlotsAreNat DEF Live, Standing, Place, SlotNat
    <2> QED BY <2>1 DEF SameRecord, flash
  <1>4. StoreKept
    BY <1>2, <1>3, StoreStays
  <1>5. KeysInv' /\ ChunkInv'
    BY <1>4, KeepsKeys, KeepsChunks DEF StoreInv
  <1>6. Waiting' /\ CopyMap'
    BY DEF Waiting, CopyMap
  <1>7. Built'
    <2> SUFFICES ASSUME Building' PROVE Built'
      BY DEF Built
    <2>1. l'.written = 0 /\ l'.offset = 0 /\ l'.sweep = NoLocals.sweep /\ (OldPoint' \/ l'.old.status = "none")
          /\ ~ClosingPoint' /\ ~Sweeping'
      OBVIOUS
    <2>2. \A x \in Live' : IsChunk(x)' => ~Pending(CellAt(x))'
      <3> SUFFICES ASSUME NEW x \in Live', IsChunk(x)', Pending(CellAt(x))' PROVE FALSE
        OBVIOUS
      <3>1. CellAt(x) \in Cell /\ CellAt(x)' = CellAt(x)
        BY <1>2, LiveFacts DEF CellAt, flash
      <3>2. CellAt(x)'.number \in Nat
        BY <3>1, EntryFields DEF IsChunk
      <3> QED BY <2>1, <3>2 DEF Pending, Awaiting
    <2> QED BY <2>1, <2>2 DEF Built, ClosingPoint
  <1> QED BY <1>2, <1>3, <1>5, <1>6, <1>7 DEF StoreInv, CallKnows, Settled

\* Before its first chunk a call has none that waits.
LEMMA NothingWritten ==
  ASSUME StoreInv, pc \notin {"erasespan", "sweep"}, ~OldPoint \/ l.want = "ns"
  PROVE  /\ ~Retiring /\ ~Replacing /\ ~Sweeping /\ NoneWanted
         /\ op.call = "put" => l.written = 0 /\ l.offset = 0 /\ l.sweep = NoLocals.sweep
         /\ op.call = "put" /\ ~OldPoint => l.old.status = "none"
  <1>1. ~Retiring /\ ~Replacing /\ ~Sweeping
    BY NotErasing
  <1>2. l.outcome = "open"
    BY DEF StoreInv, CallKnows, Opened
  <1>3. op.call = "put" => /\ l.written = 0 /\ l.offset = 0 /\ l.sweep = NoLocals.sweep
                           /\ ~OldPoint => l.old.status = "none"
    BY <1>1, <1>2 DEF StoreInv, CallKnows, Built, Building
  <1>4. NoneWanted
    BY <1>1, <1>3 DEF NoneWanted, Wanted, Building, Awaiting
  <1> QED BY <1>1, <1>3, <1>4

\* A call begins, or ends with nothing in hand.
LEMMA FreshStore ==
  ASSUME FlashTypeOK, AllWhole, StoreInv, UNCHANGED flash, pc \notin CompactPoints, ~Replacing, NoneWanted,
         l' = NoLocals, pc' \in {"idle", "begin", "scrub"}
  PROVE  StoreInv' /\ Settled
  <1>1. /\ ~Retiring' /\ ~Replacing' /\ ~Sweeping' /\ pc' \notin CompactPoints
        /\ l'.written = 0 /\ l'.offset = 0 /\ l'.sweep = NoLocals.sweep /\ l'.old.status = "none" /\ l'.want = "ns"
        /\ l'.outcome = "open"
    BY DEF Retiring, Replacing, Sweeping, CompactPoints, NoLocals, Absent
  <1>2. \A start \in {0, 1} : \A number \in Nat : ~Wanted(start, number)'
    BY <1>1 DEF Wanted, Building, Awaiting
  <1>3. SamePending
    BY <1>2 DEF SamePending, NoneWanted
  <1>4. ~NamePoint' /\ ~OldPoint' /\ ~NamingPoint'
    BY <1>1 DEF NamePoint, OldPoint, NamingPoint, MorePoints, IndexPoints, CompactPoints, WritePoints
  <1>5. NameKnown' /\ NameNew' /\ OldKnown' /\ RetiringInHand' /\ SweptInHand' /\ HeadErased' /\ Opened'
    BY <1>1, <1>4 DEF NameKnown, NameNew, NamingPoint, OldKnown, RetiringInHand, SweptInHand, HeadErased, Opened
  <1>6. ~ClosingPoint'
    BY <1>4 DEF ClosingPoint
  <1> QED BY <1>1, <1>3, <1>5, <1>6, TalkStore

\* A call is made.
LEMMA CallStore ==
  ASSUME FlashTypeOK, CallState, AllWhole, StoreInv, NEW c \in Calls, Call(c)
  PROVE  StoreInv' /\ Settled
  <1>1. pc = "idle" /\ UNCHANGED flash /\ l' = l /\ pc' \in {"begin", "scrub"}
    BY DEF Call, Goto
  <1>2. l = NoLocals
    BY <1>1 DEF CallState, Fresh
  <1>3. NoneWanted /\ ~Replacing
    BY <1>1, NothingWritten DEF OldPoint, MorePoints, CompactPoints, WritePoints
  <1> QED BY <1>1, <1>2, <1>3, FreshStore DEF CompactPoints

\* A call that has nothing in hand answers.
LEMMA AnswerStore ==
  ASSUME FlashTypeOK, AllWhole, StoreInv, UNCHANGED flash, pc \notin CompactPoints, ~Replacing, NoneWanted,
         NEW a, Answer(a)
  PROVE  StoreInv' /\ Settled
  BY FreshStore DEF Answer, Goto

\* An error inside write_blob: the chunks written so far wait for their end.
LEMMA FailStore ==
  ASSUME FlashTypeOK, CallState, AllWhole, StoreInv, UNCHANGED flash, pc \in {"activate", "chunk"},
         NEW e, e \in {"BufferTooSmall", "InvalidFormat"}, Fail(e)
  PROVE  StoreInv' /\ Settled
  <1>1. pc \notin {"erasespan", "sweep"} /\ pc \notin CompactPoints /\ op.call = "put" /\ l \in Locals
    BY DEF CompactPoints, CallState, Routing, PutPoints
  <1>2. ~Retiring /\ ~Replacing /\ ~Sweeping /\ l.outcome = "open"
    BY <1>1, NotErasing DEF StoreInv, CallKnows, Opened
  <1>3. CASE l.want = "ns"
    <2>1. NoneWanted
      BY <1>1, <1>3, NothingWritten
    <2>2. Answer(e)
      BY <1>3 DEF Fail
    <2> QED BY <1>1, <1>2, <2>1, <2>2, AnswerStore
  <1>4. CASE l.want # "ns"
    <2>1. /\ l' = [l EXCEPT !.outcome = e, !.sweep = [start |-> l.start, count |-> l.written, done |-> 0]]
          /\ pc' = "sweep" /\ op' = op
      BY <1>1, <1>2, <1>4 DEF Fail, Goto, Keep
    <2>2. /\ l'.outcome = e /\ l'.ns = l.ns /\ l'.sweep.start = l.start /\ l'.sweep.count = l.written
          /\ l'.sweep.done = 0
      BY <1>1, <2>1 DEF Locals
    <2>3. ~Retiring' /\ ~Replacing' /\ Sweeping' /\ ~Building' /\ pc' \notin CompactPoints
      BY <2>1, <2>2 DEF Retiring, Replacing, Sweeping, Building, CompactPoints
    <2>4. SamePending
      <3> SUFFICES ASSUME NEW start \in {0, 1}, NEW number \in Nat
                   PROVE  /\ Wanted(start, number)' <=> Wanted(start, number)
                          /\ op' = op /\ l'.ns = l.ns
        BY DEF SamePending
      <3>1. Wanted(start, number) <=> start = l.start /\ number < l.written
        BY <1>1, <1>2 DEF Wanted, Building, Awaiting
      <3>2. Wanted(start, number)' <=> start = l.start /\ number < l.written
        BY <2>1, <2>2, <2>3 DEF Wanted, Awaiting, NextSwept
      <3> QED BY <2>1, <2>2, <3>1, <3>2
    <2>5. ~NamePoint' /\ ~OldPoint' /\ ~NamingPoint'
      BY <2>1, <2>3 DEF NamePoint, OldPoint, NamingPoint, MorePoints, IndexPoints, CompactPoints, WritePoints
    <2>6. NameKnown' /\ NameNew' /\ OldKnown' /\ RetiringInHand' /\ SweptInHand' /\ HeadErased' /\ Opened'
      BY <2>1, <2>3, <2>5 DEF NameKnown, NameNew, NamingPoint, OldKnown, RetiringInHand, SweptInHand, HeadErased, Opened
    <2> QED BY <1>1, <1>2, <2>3, <2>4, <2>6, TalkStore
  <1> QED BY <1>3, <1>4

\* What the lookups find, wherever the call stands.
LEMMA Lookups ==
  ASSUME FlashTypeOK, CallState, Pages, FlashInv, HandInv, StoreInv
  PROVE  /\ Headers(SettledBits) = Standing /\ NamesFound /\ EntriesFound /\ ChunksFound
         /\ pc # "erasespan" => Headers(bits) = Standing
  <1>1. KeysInv /\ CallKnows /\ CopyMap
    BY DEF StoreInv
  <1>2. hdr \in [Page -> HeaderState]
    BY DEF Pages
  <1>3. Headers(SettledBits) = Standing
    BY <1>1, SeesStanding DEF CallKnows
  <1>4. Shadowed
    BY <1>1, AllShadowed DEF CallKnows, HandInv
  <1>5. NamesFound /\ EntriesFound /\ ChunksFound
    BY <1>1, <1>2, <1>4, NamesAreFound, EntriesAreFound, ChunksAreFound DEF KeysInv
  <1>6. pc # "erasespan" => SettledBits = bits
    BY DEF SettledBits
  <1> QED BY <1>3, <1>5, <1>6

\* A put looks its namespace up.
LEMMA PutBeginStore ==
  ASSUME FlashTypeOK, CallState, Pages, FlashInv, HandInv, StoreInv, PutBegin
  PROVE  StoreInv' /\ Settled
  <1>1. pc = "begin" /\ op.call = "put" /\ UNCHANGED flash /\ l \in Locals /\ op.ns \in Namespaces /\ AllWhole
    <2>1. pc = "begin" /\ op.call = "put" /\ UNCHANGED flash
      BY DEF PutBegin
    <2> QED BY <2>1 DEF CallState, Calls, FlashInv
  <1>2. /\ ~Retiring /\ ~Replacing /\ ~Sweeping /\ NoneWanted /\ pc \notin CompactPoints
        /\ l = NoLocals
    BY <1>1, NothingWritten DEF OldPoint, MorePoints, CompactPoints, WritePoints, CallState, Fresh
  <1> DEFINE found == FindNamespace[Headers(bits)][op.ns]
  <1>3. /\ (\A x \in Live : ~(IsName(x) /\ CellAt(x).name = op.ns)) => found = Absent
        /\ \A x \in Live : IsName(x) /\ CellAt(x).name = op.ns => found = Found(x)
    BY <1>1, Lookups DEF NamesFound
  <1> HIDE DEF found
  <1>4. CASE \E e : Answer(e)
    BY <1>1, <1>2, <1>4, AnswerStore
  <1>5. CASE found.status = "found" /\ l' = [l EXCEPT !.ns = CellAt(found.place).index] /\ pc' = "old" /\ op' = op
    <2>1. PICK x \in Live : IsName(x) /\ CellAt(x).name = op.ns
      BY <1>3, <1>5 DEF Absent
    <2>2. found.place = x
      BY <1>3, <2>1 DEF Found
    <2>3. /\ l'.ns = CellAt(x).index /\ l'.written = 0 /\ l'.offset = 0 /\ l'.sweep = NoLocals.sweep
          /\ l'.old.status = "none" /\ l'.want = "ns" /\ l'.outcome = "open"
      BY <1>2, <1>5, <2>2 DEF NoLocals, Absent
    <2>4. /\ ~Retiring' /\ ~Replacing' /\ ~Sweeping' /\ pc' \notin CompactPoints /\ ~OldPoint' /\ ~NamingPoint'
      BY <1>5, <2>3 DEF Retiring, Replacing, Sweeping, CompactPoints, OldPoint, NamingPoint, IndexPoints
    <2>5. SamePending
      BY <1>2, <2>3, <2>4 DEF SamePending, NoneWanted, Wanted, Building, Awaiting
    <2>6. NameKnown'
      <3>1. Live' = Live /\ CellAt(x)' = CellAt(x)
        <4>1. Standing' = Standing
          BY <1>1 DEF flash, Standing, DataPages, WrittenHeader
        <4> QED BY <1>1, <1>2, <2>4, <4>1 DEF Live, CellAt, flash
      <3> QED BY <1>5, <2>1, <2>3, <3>1 DEF NameKnown, IsName
    <2>7. NameNew' /\ OldKnown' /\ RetiringInHand' /\ SweptInHand' /\ HeadErased' /\ Opened'
      BY <1>5, <2>3, <2>4 DEF NameNew, NamingPoint, OldKnown, RetiringInHand, SweptInHand, HeadErased, Opened
    <2> QED BY <1>1, <1>2, <2>3, <2>4, <2>5, <2>6, <2>7, TalkStore DEF ClosingPoint
  <1>6. CASE found.status = "none" /\ (\E i \in FreeIndices(Headers(bits)) : l' = [l EXCEPT !.ns = i]) /\ pc' = "room" /\ op' = op
    <2>1. \A x \in Live : ~(IsName(x) /\ CellAt(x).name = op.ns)
      BY <1>3, <1>6 DEF Found
    <2>2. /\ l'.written = 0 /\ l'.offset = 0 /\ l'.sweep = NoLocals.sweep
          /\ l'.old.status = "none" /\ l'.want = "ns" /\ l'.outcome = "open"
      BY <1>2, <1>6 DEF NoLocals, Absent
    <2>3. /\ ~Retiring' /\ ~Replacing' /\ ~Sweeping' /\ pc' \notin CompactPoints /\ ~OldPoint' /\ ~NamePoint'
      BY <1>6, <2>2 DEF Retiring, Replacing, Sweeping, CompactPoints, OldPoint, NamePoint
    <2>4. SamePending
      BY <1>2, <2>2, <2>3 DEF SamePending, NoneWanted, Wanted, Building, Awaiting
    <2>5. NameNew'
      <3>1. Live' = Live /\ \A x \in Live : CellAt(x)' = CellAt(x)
        <4>1. Standing' = Standing
          BY <1>1 DEF flash, Standing, DataPages, WrittenHeader
        <4> QED BY <1>1, <1>2, <2>3, <4>1 DEF Live, CellAt, flash
      <3> QED BY <1>6, <2>1, <3>1 DEF NameNew, IsName
    <2>6. NameKnown' /\ OldKnown' /\ RetiringInHand' /\ SweptInHand' /\ HeadErased' /\ Opened'
      BY <1>6, <2>2, <2>3 DEF NameKnown, OldKnown, RetiringInHand, SweptInHand, HeadErased, Opened
    <2> QED BY <1>1, <1>2, <2>2, <2>3, <2>4, <2>5, <2>6, TalkStore DEF ClosingPoint
  <1> QED BY <1>4, <1>5, <1>6 DEF PutBegin, Goto, Keep, found

\* A put looks the value up that it is to replace.
LEMMA PutFindOldStore ==
  ASSUME FlashTypeOK, CallState, Pages, FlashInv, HandInv, StoreInv, PutFindOld
  PROVE  StoreInv' /\ Settled
  <1>1. pc = "old" /\ op.call = "put" /\ UNCHANGED flash /\ l \in Locals /\ op.name \in Names /\ AllWhole /\ l.ns \in Nat
    <2>1. pc = "old" /\ UNCHANGED flash
      BY DEF PutFindOld
    <2>2. op.call = "put"
      BY <2>1 DEF CallState, Routing, PutPoints
    <2> QED BY <2>1, <2>2, FormatAssumption DEF CallState, Calls, FlashInv, Locals
  <1>2. ~OldPoint /\ pc \notin CompactPoints
    BY <1>1 DEF OldPoint, MorePoints, CompactPoints, WritePoints
  <1>3. /\ ~Retiring /\ ~Replacing /\ ~Sweeping /\ NoneWanted
        /\ l.written = 0 /\ l.offset = 0 /\ l.sweep = NoLocals.sweep /\ l.old.status = "none" /\ l.outcome = "open"
    BY <1>1, <1>2, NothingWritten DEF StoreInv, CallKnows, Opened
  <1> DEFINE old == FindNotChunk[Headers(bits)][<<l.ns, op.name>>]
  <1>4. /\ (\A x \in Live : ~(IsEntry(CellAt(x)) /\ OfCall(CellAt(x)))) => old = Absent
        /\ \A x \in Live : IsEntry(CellAt(x)) /\ OfCall(CellAt(x)) => old = Found(x)
    BY <1>1, Lookups DEF EntriesFound, OfCall
  <1> HIDE DEF old
  <1>5. PICK y \in Live : IsName(y) /\ CellAt(y).name = op.ns /\ CellAt(y).index = l.ns
    BY <1>1 DEF StoreInv, CallKnows, NameKnown, NamePoint
  <1>6. CASE \E e : Answer(e)
    BY <1>1, <1>2, <1>3, <1>6, AnswerStore
  <1>7. ASSUME pc' = "chunk", op' = op, l'.ns = l.ns, l'.written = 0, l'.offset = 0, l'.sweep = NoLocals.sweep, l'.outcome = "open",
               \A x \in Live : IsEntry(CellAt(x)) /\ OfCall(CellAt(x)) => l'.old.status = "found" /\ x = l'.old.place,
               l'.old.status = "found" => /\ l'.old.place \in Live /\ IsEntry(l'.oldCell)
                                          /\ l'.oldCell.ns = l.ns /\ l'.oldCell.name = op.name
                                          /\ l'.oldCell.kind = "idx" => l'.start # l'.oldCell.start
        PROVE  StoreInv' /\ Settled
    <2>1. /\ ~Retiring' /\ ~Replacing' /\ ~Sweeping' /\ pc' \notin CompactPoints /\ ~NamingPoint' /\ OldPoint' /\ ~ClosingPoint'
      BY <1>7 DEF Retiring, Replacing, Sweeping, CompactPoints, NamingPoint, IndexPoints, OldPoint, ClosingPoint
    <2>2. Live' = Live /\ \A x \in Live : CellAt(x)' = CellAt(x)
      <3>1. Standing' = Standing
        BY <1>1 DEF flash, Standing, DataPages, WrittenHeader
      <3> QED BY <1>1, <1>2, <1>3, <2>1, <3>1 DEF Live, CellAt, flash
    <2>3. SamePending
      BY <1>3, <1>7, <2>1 DEF SamePending, NoneWanted, Wanted, Building, Awaiting
    <2>4. NameKnown'
      BY <1>5, <1>7, <2>2 DEF NameKnown, IsName
    <2>5. OldKnown'
      BY <1>7, <2>2 DEF OldKnown, OfCall
    <2>6. NameNew' /\ RetiringInHand' /\ SweptInHand' /\ HeadErased' /\ Opened'
      BY <1>7, <2>1 DEF NameNew, NamingPoint, RetiringInHand, SweptInHand, HeadErased, Opened
    <2> QED BY <1>1, <1>2, <1>3, <1>7, <2>1, <2>3, <2>4, <2>5, <2>6, TalkStore
  <1>8. CASE old.status = "none" /\ pc' = "chunk" /\ op' = op /\ l' = l
    <2>1. \A x \in Live : ~(IsEntry(CellAt(x)) /\ OfCall(CellAt(x)))
      BY <1>4, <1>8 DEF Found
    <2> QED BY <1>3, <1>7, <1>8, <2>1
  <1>9. CASE /\ old.status = "found" /\ pc' = "chunk" /\ op' = op
             /\ l' = [l EXCEPT !.old = old, !.oldCell = CellAt(old.place),
                               !.start = IF CellAt(old.place).kind = "idx" THEN 1 - CellAt(old.place).start ELSE 0]
    <2>1. PICK x \in Live : IsEntry(CellAt(x)) /\ OfCall(CellAt(x))
      BY <1>4, <1>9 DEF Absent
    <2>2. old = Found(x) /\ old.place = x /\ CellAt(x) \in Cell
      BY <1>4, <2>1, LiveFacts, <1>1 DEF Found
    <2>3. /\ l'.old = old /\ l'.oldCell = CellAt(x) /\ l'.ns = l.ns /\ l'.written = 0 /\ l'.offset = 0
          /\ l'.start = (IF CellAt(x).kind = "idx" THEN 1 - CellAt(x).start ELSE 0)
          /\ l'.sweep = NoLocals.sweep /\ l'.outcome = "open"
      BY <1>1, <1>3, <1>9, <2>2 DEF Locals
    <2>4. CellAt(x).kind = "idx" => l'.start # CellAt(x).start
      BY <2>2, <2>3, EntryFields
    <2>5. \A z \in Live : IsEntry(CellAt(z)) /\ OfCall(CellAt(z)) => z = x
      BY <2>1 DEF StoreInv, KeysInv, KeysOnce, SameKey, OfCall
    <2> QED BY <1>7, <1>9, <2>1, <2>2, <2>3, <2>4, <2>5 DEF OfCall, Found
  <1> QED BY <1>6, <1>8, <1>9 DEF PutFindOld, Goto, Keep, old

\* A remove looks the key up.
LEMMA RemoveBeginStore ==
  ASSUME FlashTypeOK, CallState, Pages, FlashInv, HandInv, StoreInv, RemoveBegin
  PROVE  StoreInv' /\ Settled
  <1>1. /\ pc = "begin" /\ op.call = "remove" /\ UNCHANGED flash /\ l \in Locals /\ op.ns \in Namespaces
        /\ op.name \in Names /\ AllWhole
    <2>1. pc = "begin" /\ op.call = "remove" /\ UNCHANGED flash
      BY DEF RemoveBegin
    <2> QED BY <2>1 DEF CallState, Calls, FlashInv
  <1>2. /\ ~Retiring /\ ~Replacing /\ ~Sweeping /\ NoneWanted /\ pc \notin CompactPoints
        /\ l = NoLocals
    BY <1>1, NothingWritten DEF OldPoint, MorePoints, CompactPoints, WritePoints, CallState, Fresh
  <1> DEFINE found == FindNamespace[Headers(bits)][op.ns]
             i == CellAt(found.place).index
             old == FindNotChunk[Headers(bits)][<<i, op.name>>]
  <1>3. /\ (\A x \in Live : ~(IsName(x) /\ CellAt(x).name = op.ns)) => found = Absent
        /\ \A x \in Live : IsName(x) /\ CellAt(x).name = op.ns => found = Found(x)
    BY <1>1, Lookups DEF NamesFound
  <1>4. i \in Nat =>
          /\ (\A x \in Live : ~(IsEntry(CellAt(x)) /\ CellAt(x).ns = i /\ CellAt(x).name = op.name)) => old = Absent
          /\ \A x \in Live : IsEntry(CellAt(x)) /\ CellAt(x).ns = i /\ CellAt(x).name = op.name => old = Found(x)
    BY <1>1, Lookups DEF EntriesFound
  <1> HIDE DEF found, i, old
  <1>5. CASE \E e : Answer(e)
    BY <1>1, <1>2, <1>5, AnswerStore
  <1>6. CASE found.status = "found" /\ old.status = "found" /\ Retire(i, old.place, CellAt(old.place))
    <2>1. PICK y \in Live : IsName(y) /\ CellAt(y).name = op.ns
      BY <1>3, <1>6 DEF Absent
    <2>2. found = Found(y) /\ i = CellAt(y).index /\ i \in Nat
      <3>1. found = Found(y)
        BY <1>3, <2>1
      <3>2. i = CellAt(y).index
        BY <3>1 DEF i, Found
      <3> QED BY <1>1, <2>1, <3>1, <3>2, LiveFacts, EntryFields DEF IsName
    <2>3. PICK x \in Live : IsEntry(CellAt(x)) /\ CellAt(x).ns = i /\ CellAt(x).name = op.name
      BY <1>4, <1>6, <2>2 DEF Absent
    <2>4. old.place = x
      BY <1>4, <2>2, <2>3 DEF Found
    <2>5. /\ l'.ns = i /\ l'.at = x /\ l'.k = 0 /\ l'.outcome = "Ok" /\ pc' = "erasespan" /\ op' = op
          /\ l'.sweep = IF CellAt(x).kind = "idx"
                          THEN [start |-> CellAt(x).start, count |-> CellAt(x).count, done |-> 0]
                          ELSE [start |-> 0, count |-> 0, done |-> 0]
      BY <1>1, <1>6, <2>4 DEF Retire, Goto, Keep, Locals
    <2>6. Retiring' /\ ~Replacing' /\ ~Sweeping' /\ ~Building' /\ pc' \notin CompactPoints /\ l'.sweep.done = 0
      BY <1>1, <2>5 DEF Retiring, Replacing, Sweeping, Building, CompactPoints
    <2>7. Live' = Live /\ \A z \in Live : CellAt(z)' = CellAt(z)
      <3>1. Standing' = Standing
        BY <1>1 DEF flash, Standing, DataPages, WrittenHeader
      <3> QED BY <1>1, <1>2, <2>6, <3>1 DEF Live, CellAt, flash
    <2>8. SamePending
      BY <1>2, <2>6 DEF SamePending, NoneWanted, Wanted
    <2>9. NameKnown'
      BY <2>1, <2>2, <2>5, <2>7 DEF NameKnown, IsName
    <2>10. RetiringInHand'
      <3>1. CellAt(x)' = CellAt(x) /\ x \in Live' /\ IsEntry(CellAt(x)) /\ CellAt(x).ns = l'.ns /\ CellAt(x).name = op'.name
        BY <2>3, <2>5, <2>7
      <3>2. CellAt(l.at)' = CellAt(x)
        BY <2>5, <3>1 DEF CellAt
      <3> QED BY <2>5, <3>1, <3>2 DEF RetiringInHand, OfCall, IsIndex
    <2>11. NameNew' /\ OldKnown' /\ SweptInHand' /\ HeadErased' /\ Opened'
      BY <2>5, <2>6 DEF NameNew, NamingPoint, IndexPoints, OldKnown, OldPoint, MorePoints, WritePoints, CompactPoints,
           SweptInHand, HeadErased, Opened
    <2> QED BY <1>1, <1>2, <2>6, <2>8, <2>9, <2>10, <2>11, TalkStore
  <1> QED BY <1>5, <1>6 DEF RemoveBegin, found, i, old

\* A chunk without an index is looked up, to be erased; after the last of them the call answers.
LEMMA SweepStore ==
  ASSUME FlashTypeOK, CallState, Pages, FlashInv, HandInv, StoreInv, Sweep
  PROVE  StoreInv' /\ Settled
  <1>1. pc = "sweep" /\ UNCHANGED flash /\ l \in Locals /\ AllWhole
    <2>1. pc = "sweep" /\ UNCHANGED flash
      BY DEF Sweep
    <2> QED BY <2>1 DEF CallState, FlashInv
  <1>2. op.name \in Names /\ l.outcome # "open" /\ l.ns \in Nat
        /\ l.sweep.start \in {0, 1} /\ l.sweep.done \in Nat /\ l.sweep.count \in Nat
    BY <1>1, FormatAssumption DEF CallState, Routing, Calls, Locals
  <1>3. ~Retiring /\ ~Replacing /\ Sweeping /\ ~Building /\ pc \notin CompactPoints /\ NextSwept = l.sweep.done
    BY <1>1, <1>2 DEF Retiring, Replacing, Sweeping, Building, CompactPoints, NextSwept
  <1>4. \A start \in {0, 1} : \A number \in Nat :
          Wanted(start, number) <=> start = l.sweep.start /\ l.sweep.done <= number /\ number < l.sweep.count
    BY <1>3 DEF Wanted, Awaiting
  <1> DEFINE found == FindChunk[Headers(bits)][<<l.ns, op.name>>][<<l.sweep.start, l.sweep.done>>]
  <1>5. \A x \in Live : Numbered(x, l.ns, op.name, l.sweep.start, l.sweep.done) => found = Found(x)
    BY <1>1, <1>2, Lookups DEF ChunksFound
  <1> HIDE DEF found
  <1>6. CASE l.sweep.done >= l.sweep.count /\ Answer(l.outcome)
    <2>1. NoneWanted
      BY <1>2, <1>4, <1>6 DEF NoneWanted
    <2> QED BY <1>1, <1>3, <1>6, <2>1, AnswerStore
  <1>7. CASE l.sweep.done < l.sweep.count
    <2>1. PICK x \in Live : Numbered(x, l.ns, op.name, l.sweep.start, l.sweep.done)
      <3>1. Awaiting(l.sweep.start, l.sweep.done)
        BY <1>2, <1>3, <1>7 DEF Awaiting
      <3>2. \E x \in Live : IsChunk(x) /\ OfCall(CellAt(x)) /\ CellAt(x).start = l.sweep.start /\ CellAt(x).number = l.sweep.done
        BY <1>2, <1>3, <3>1 DEF StoreInv, ChunkInv, PendingThere
      <3> QED BY <3>2 DEF Numbered, OfCall
    <2>2. found.status = "found" /\ found.place = x
      BY <1>5, <2>1 DEF Found
    <2>3. /\ l' = [l EXCEPT !.sweep.done = @ + 1, !.at = x, !.k = 0, !.span = SpanOf(CellAt(x))]
          /\ pc' = "erasespan" /\ op' = op
      <3>1. ~(l.sweep.done >= l.sweep.count)
        BY <1>2, <1>7
      <3> QED BY <2>2, <3>1 DEF Sweep, Goto, Keep, found
    <2>4. /\ l'.at = x /\ l'.k = 0 /\ l'.outcome = l.outcome /\ l'.ns = l.ns
          /\ l'.sweep.start = l.sweep.start /\ l'.sweep.count = l.sweep.count /\ l'.sweep.done = l.sweep.done + 1
      BY <1>1, <2>3 DEF Locals
    <2>5. /\ ~Retiring' /\ ~Replacing' /\ Sweeping' /\ ~Building' /\ pc' \notin CompactPoints
          /\ NextSwept' = l.sweep.done
      BY <1>2, <2>3, <2>4 DEF Retiring, Replacing, Sweeping, Building, CompactPoints, NextSwept
    <2>6. SamePending
      <3>1. \A start \in {0, 1} : \A number \in Nat :
          Wanted(start, number)' <=> start = l.sweep.start /\ l.sweep.done <= number /\ number < l.sweep.count
        BY <2>4, <2>5 DEF Wanted, Awaiting
      <3> QED BY <1>4, <2>3, <2>4, <3>1 DEF SamePending
    <2>7. Live' = Live /\ \A z \in Live : CellAt(z)' = CellAt(z)
      <3>1. Standing' = Standing
        BY <1>1 DEF flash, Standing, DataPages, WrittenHeader
      <3> QED BY <1>1, <1>3, <2>5, <3>1 DEF Live, CellAt, flash
    <2>8. SweptInHand'
      <3>1. CellAt(x)' = CellAt(x) /\ x \in Live' /\ CellAt(l.at)' = CellAt(x)
        BY <2>4, <2>7 DEF CellAt
      <3> QED BY <1>2, <1>7, <2>1, <2>3, <2>4, <3>1 DEF SweptInHand, Numbered, IsChunk, OfCall
    <2>9. NameKnown' /\ NameNew' /\ OldKnown' /\ RetiringInHand' /\ HeadErased' /\ Opened'
      BY <2>3, <2>4, <2>5 DEF NameKnown, NamePoint, NameNew, IndexPoints, OldKnown, OldPoint, MorePoints, WritePoints,
           CompactPoints, RetiringInHand, HeadErased, Opened
    <2> QED BY <1>1, <1>3, <2>5, <2>6, <2>8, <2>9, TalkStore
  <1> QED BY <1>2, <1>6, <1>7 DEF Sweep

\* A free page is chosen, or there is none and the call fails.
LEMMA ActivatePageStore ==
  ASSUME FlashTypeOK, CallState, Pages, FlashInv, StoreInv, ActivatePage
  PROVE  StoreInv' /\ Settled
  <1>0. AllWhole /\ pc = "activate"
    BY DEF FlashInv, ActivatePage
  <1>1. CASE Fail("BufferTooSmall") /\ UNCHANGED flash
    BY <1>0, <1>1, FailStore
  <1>2. CASE pc' = "start"
    BY <1>0, <1>2, ActivatePageQuiet, QuietStore DEF Quiet
  <1> QED BY <1>1, <1>2 DEF ActivatePage, Compact, Goto

\* The next chunk is begun, or there are too many and the call fails.
LEMMA ChunkLoopStore ==
  ASSUME FlashTypeOK, CallState, Pages, FlashInv, StoreInv, ChunkLoop
  PROVE  StoreInv' /\ Settled
  <1>0. AllWhole /\ pc = "chunk" /\ UNCHANGED flash
    BY DEF FlashInv, ChunkLoop
  <1>1. CASE Fail("InvalidFormat")
    BY <1>0, <1>1, FailStore
  <1>2. CASE pc' = "room"
    BY <1>0, <1>2, ChunkLoopQuiet, QuietStore DEF Quiet
  <1> QED BY <1>1, <1>2 DEF ChunkLoop, Goto

\* A scrub compacts the next page, or answers.
LEMMA ScrubStore ==
  ASSUME FlashTypeOK, CallState, Pages, FlashInv, StoreInv, Scrub
  PROVE  StoreInv' /\ Settled
  <1>0. AllWhole /\ pc = "scrub" /\ op.call = "scrub"
    BY DEF FlashInv, Scrub, CallState, Routing
  <1>1. CASE pc' = "idle"
    <2>1. UNCHANGED flash /\ \E a : Answer(a)
      BY <1>0, <1>1 DEF Scrub, Compact, Goto
    <2>2. NoneWanted /\ ~Replacing /\ pc \notin CompactPoints
      BY <1>0, NothingWritten DEF OldPoint, CompactPoints
    <2> QED BY <1>0, <2>1, <2>2, AnswerStore
  <1>2. CASE pc' # "idle"
    BY <1>0, <1>2, ScrubQuiet, QuietStore DEF Quiet
  <1> QED BY <1>1, <1>2

----------------------------------------------------------------------------
(***************************************************************************)
(* An entry is marked: it counts from here on.                             *)
(***************************************************************************)
\* The header marked is one more that stands, and all that changes.
LEMMA EntryMarked ==
  ASSUME FlashTypeOK, CallState, Pages, FlashInv, HandInv, StoreInv, EntryMark
  PROVE  /\ pc = "entrymark" /\ op.call = "put" /\ op' = op /\ UNCHANGED <<hdr, cell>> /\ DataPages' = DataPages
         /\ l \in Locals /\ l.at \in Place /\ l.at \notin Live /\ CellAt(l.at) = EntryCell /\ CellAt(l.at) \in Cell
         /\ Live = Standing /\ Standing' = Standing \cup {l.at} /\ AllWhole
         /\ \A x \in Live \cup {l.at} : x \in Place /\ CellAt(x)' = CellAt(x) /\ SameRecord(x, x) /\ CellAt(x) \in Cell
         /\ ~Retiring /\ ~Replacing /\ ~Sweeping /\ Building /\ l.outcome = "open" /\ l.sweep = NoLocals.sweep
         /\ pc' \notin CompactPoints /\ pc' \in {"old", "fill", "room", "sweep", "erasespan"}
         /\ pc \in MorePoints /\ pc \in IndexPoints /\ CopyMap'
         /\ \A start \in {0, 1} : \A number \in Nat : Wanted(start, number) <=> start = l.start /\ number < l.written
  <1> DEFINE p == l.at[1]
             e == l.at[2]
  <1>1. pc = "entrymark" /\ Mark(p, e, "written") /\ UNCHANGED <<hdr, cell>> /\ op' = op
        /\ pc' \in {"old", "fill", "room", "sweep", "erasespan"}
    BY DEF EntryMark, Goto, Keep, Retire
  <1>2. EntryInHand /\ Writing /\ AllWhole /\ op.call = "put" /\ l \in Locals /\ l.at \in Place
    BY <1>1 DEF HandInv, FlashInv, Writing, CallState, Routing, PutPoints, WritePoints, Pages, Reserved
  <1>3. /\ p \in DataPages /\ p \in Page /\ e \in Slot /\ bits[p][e] = "empty"
    BY <1>2, EntrySlots
  <1>4. /\ \A q \in Page : \A t \in Slot : ~(q = p /\ t = e) => bits'[q][t] = bits[q][t]
        /\ bits'[p][e] = "written"
    BY <1>1, <1>3, MarkEffect
  <1>5. cell[p][e] = EntryCell /\ IsHeader(EntryCell) /\ cell[p][e] \in Cell
    <2>1. cell[p][e] = EntryCell
      BY <1>1, <1>2 DEF EntryInHand
    <2>2. l.want \in {"ns", "chunk", "idx"}
      BY <1>2 DEF Locals
    <2> QED BY <1>3, <2>1, <2>2 DEF EntryCell, IsHeader, FlashTypeOK
  <1>6. pc' \notin CompactPoints /\ pc \notin CompactPoints /\ pc \in MorePoints /\ pc \in IndexPoints /\ pc \notin {"erasespan", "sweep"}
    BY <1>1 DEF CompactPoints, MorePoints, IndexPoints, WritePoints
  <1>7. ~Retiring /\ ~Replacing /\ ~Sweeping /\ l.outcome = "open"
    BY <1>6, NotErasing DEF StoreInv, CallKnows, Opened
  <1>8. Building /\ l.sweep = NoLocals.sweep
    BY <1>2, <1>7 DEF Building, StoreInv, CallKnows, Built
  <1>9. Live = Standing
    BY <1>6, <1>7 DEF Live
  <1>10. Standing' = Standing \cup {l.at} /\ l.at \notin Standing /\ DataPages' = DataPages
    <2>1. DataPages' = DataPages
      BY <1>1 DEF DataPages
    <2>2. l.at = <<p, e>>
      BY <1>2 DEF Place
    <2>3. ASSUME NEW x \in Place PROVE /\ x # l.at => ~(x[1] = p /\ x[2] = e)
                                       /\ x[1] \in Page /\ x[2] \in Slot
      BY <2>2 DEF Place
    <2>4. ASSUME NEW x \in Place, x[1] \in DataPages
          PROVE  WrittenHeader(x[1], x[2])' <=> WrittenHeader(x[1], x[2]) \/ x = l.at
      <3>1. CASE x = l.at
        BY <1>1, <1>4, <1>5, <3>1 DEF WrittenHeader
      <3>2. CASE x # l.at
        <4>1. bits'[x[1]][x[2]] = bits[x[1]][x[2]]
          BY <1>4, <2>3, <3>2
        <4> QED BY <1>1, <3>2, <4>1 DEF WrittenHeader
      <3> QED BY <3>1, <3>2
    <2>5. Standing' = {x \in Place : x[1] \in DataPages /\ WrittenHeader(x[1], x[2])'}
      BY <2>1 DEF Standing
    <2>6. l.at \notin Standing
      BY <1>3 DEF Standing, WrittenHeader
    <2> QED BY <1>2, <1>3, <2>1, <2>4, <2>5, <2>6 DEF Standing
  <1>11. CellAt(l.at) = EntryCell /\ CellAt(l.at) \in Cell
    BY <1>5 DEF CellAt
  <1>12. \A x \in Live \cup {l.at} : x \in Place /\ CellAt(x)' = CellAt(x) /\ SameRecord(x, x) /\ CellAt(x) \in Cell
    <2> SUFFICES ASSUME NEW x \in Live \cup {l.at}
                 PROVE  x \in Place /\ CellAt(x)' = CellAt(x) /\ SameRecord(x, x) /\ CellAt(x) \in Cell
      OBVIOUS
    <2>1. x \in Place /\ CellAt(x) \in Cell
      BY <1>2, <1>11, LiveFacts
    <2>2. x[2] \in Nat
      BY <2>1, SlotsAreNat DEF Place, SlotNat
    <2> QED BY <1>1, <2>1, <2>2 DEF CellAt, SameRecord
  <1>13. CopyMap'
    BY <1>6 DEF CopyMap
  <1>14. \A start \in {0, 1} : \A number \in Nat : Wanted(start, number) <=> start = l.start /\ number < l.written
    BY <1>7, <1>8 DEF Wanted, Awaiting
  <1> QED BY <1>1, <1>2, <1>6, <1>7, <1>8, <1>9, <1>10, <1>11, <1>12, <1>13, <1>14

\* A namespace's entry: its name is known from here on.
LEMMA NameMarkStore ==
  ASSUME FlashTypeOK, CallState, Pages, FlashInv, HandInv, StoreInv, EntryMark, l.want = "ns"
  PROVE  StoreInv'
  <1>1. /\ pc = "entrymark" /\ op.call = "put" /\ op' = op /\ l \in Locals /\ l.at \notin Live /\ CellAt(l.at) = EntryCell
        /\ Live = Standing /\ Standing' = Standing \cup {l.at}
        /\ \A x \in Live \cup {l.at} : CellAt(x)' = CellAt(x) /\ CellAt(x) \in Cell
        /\ ~Retiring /\ ~Replacing /\ ~Sweeping /\ Building /\ l.outcome = "open" /\ l.sweep = NoLocals.sweep
        /\ pc \in MorePoints /\ pc \in IndexPoints /\ CopyMap'
        /\ \A start \in {0, 1} : \A number \in Nat : Wanted(start, number) <=> start = l.start /\ number < l.written
    BY EntryMarked
  <1>2. l' = l /\ pc' = "old"
    BY DEF EntryMark, Goto
  <1>3. KeysInv /\ ChunkInv /\ CallKnows
    BY DEF StoreInv
  <1>4. CellAt(l.at) = [kind |-> "ns", name |-> op.ns, index |-> l.ns]
    BY <1>1 DEF EntryCell
  <1>5. ~Retiring' /\ ~Replacing' /\ ~Sweeping' /\ Building' /\ pc' \notin CompactPoints /\ ~OldPoint'
    BY <1>1, <1>2 DEF Retiring, Replacing, Sweeping, Building, CompactPoints, OldPoint, MorePoints, WritePoints
  <1>6. Live' = Live \cup {l.at}
    <2>1. Live' = Standing'
      BY <1>5 DEF Live
    <2> QED BY <1>1, <2>1
  <1>7. l.written = 0 /\ l.offset = 0 /\ l.old.status = "none"
    <2>1. ~OldPoint
      BY <1>1 DEF OldPoint
    <2> QED BY <1>1, <1>3, <2>1 DEF CallKnows, Built
  <1>8. \A x \in Live \cup {l.at} : IsChunk(x)' => ~Pending(CellAt(x)) /\ ~Pending(CellAt(x))'
    <2> SUFFICES ASSUME NEW x \in Live \cup {l.at}, IsChunk(x)' PROVE ~Pending(CellAt(x)) /\ ~Pending(CellAt(x))'
      OBVIOUS
    <2>1. CellAt(x)' = CellAt(x) /\ CellAt(x).number \in Nat
      BY <1>1, EntryFields DEF IsChunk
    <2> QED BY <1>1, <1>2, <1>5, <1>7, <2>1 DEF Pending, Awaiting
  <1> DEFINE a == l.at
  <1>9. IsName(a) /\ CellAt(a).name = op.ns /\ CellAt(a).index = l.ns /\ ~IsChunk(a) /\ ~IsIndex(a) /\ ~IsEntry(CellAt(a))
    BY <1>4 DEF IsName, IsChunk, IsIndex, IsEntry
  <1>90. PICK b : b = a
    OBVIOUS
  <1> HIDE DEF a
  <1>91. /\ Live' = Live \cup {b} /\ \A x \in Live \cup {b} : CellAt(x)' = CellAt(x)
         /\ IsName(b) /\ CellAt(b).name = op.ns /\ CellAt(b).index = l.ns /\ ~IsChunk(b) /\ ~IsIndex(b) /\ ~IsEntry(CellAt(b))
         /\ \A x \in Live \cup {b} : IsChunk(x) => ~Pending(CellAt(x)) /\ ~Pending(CellAt(x))'
    BY <1>1, <1>6, <1>8, <1>9, <1>90 DEF a, IsChunk
  <1>10. KeysOnce' /\ ChunkOnce' /\ InNamed' /\ IndexHasChunks'
    <2>1. KeysOnce' /\ ChunkOnce'
      BY <1>3, <1>91 DEF KeysInv, KeysOnce, ChunkOnce, IsChunk
    <2>2. InNamed'
      BY <1>3, <1>91 DEF KeysInv, InNamed, IsName
    <2>3. IndexHasChunks'
      BY <1>3, <1>91 DEF KeysInv, IndexHasChunks, IsChunk, IsIndex
    <2> QED BY <2>1, <2>2, <2>3
  <1>11. NamesOnce'
    <2>1. \A x \in Live : IsName(x) => CellAt(x).name # op.ns
      BY <1>1, <1>3 DEF CallKnows, NameNew
    <2> QED BY <1>3, <1>91, <2>1 DEF KeysInv, NamesOnce, IsName
  <1>12. ChunkHasIndex'
    <2> SUFFICES ASSUME NEW x \in Live', IsChunk(x)'
                 PROVE  ~Pending(CellAt(x))' /\ \E y \in Live' : IsIndex(y)' /\ SameBlob(CellAt(x)', CellAt(y)')
      BY DEF ChunkHasIndex
    <2>1. x \in Live /\ IsChunk(x) /\ CellAt(x)' = CellAt(x)
      BY <1>91 DEF IsChunk
    <2>2. \E y \in Live : IsIndex(y) /\ SameBlob(CellAt(x), CellAt(y))
      BY <1>3, <1>91, <2>1 DEF ChunkInv, ChunkHasIndex
    <2> QED BY <1>91, <2>1, <2>2 DEF IsIndex
  <1>13. PendingThere'
    BY <1>2, <1>5, <1>7 DEF PendingThere, Awaiting
  <1>14. NameKnown'
    BY <1>1, <1>2, <1>91 DEF NameKnown, IsName
  <1>15. NameNew' /\ OldKnown' /\ RetiringInHand' /\ SweptInHand' /\ HeadErased' /\ Waiting' /\ Opened'
    BY <1>1, <1>2, <1>5 DEF NameNew, IndexPoints, CompactPoints, OldKnown, RetiringInHand, SweptInHand, HeadErased, Waiting, Opened
  <1>16. Built'
    BY <1>1, <1>2, <1>5, <1>7, <1>91 DEF Built, IsChunk
  <1> QED BY <1>1, <1>10, <1>11, <1>12, <1>13, <1>14, <1>15, <1>16 DEF StoreInv, KeysInv, ChunkInv, CallKnows

\* the data of the chunk being written
DataInHand ==
  Writing /\ l.want = "chunk" =>
    \A i \in 0 .. (IF pc = "datamark" THEN l.k ELSE l.k - 1) :
      cell[l.at[1]][l.at[2] + 1 + i] = Data(op.value, l.offset + i)

\* Once its chunks are written or begun, the version a put writes is in no index.
LEMMA NoIndexYet ==
  ASSUME FlashTypeOK, AllWhole, StoreInv, OldInPlace, OldPoint, pc \in MorePoints, ~(pc \in CompactPoints), pc # "start",
         NEW y \in Live, IsIndex(y), OfCall(CellAt(y))
  PROVE  CellAt(y).start # l.start
  <1>1. /\ l.old.status = "found" /\ y = l.old.place
        /\ l.oldCell.kind = "idx" => l.start # l.oldCell.start
    BY DEF StoreInv, CallKnows, OldKnown, IsEntry, IsIndex
  <1>2. cell[l.old.place[1]][l.old.place[2]] = l.oldCell
    BY <1>1 DEF OldInPlace, MorePoints, PutPoints
  <1> QED BY <1>1, <1>2 DEF CellAt, IsIndex

\* A chunk's entry: one more that waits for its index.
LEMMA ChunkMarkStore ==
  ASSUME FlashTypeOK, CallState, Pages, FlashInv, HandInv, StoreInv, DataInHand, EntryMark, l.want = "chunk"
  PROVE  StoreInv'
  <1>1. /\ pc = "entrymark" /\ op.call = "put" /\ op' = op /\ l \in Locals /\ l.at \notin Live /\ CellAt(l.at) = EntryCell
        /\ Live = Standing /\ Standing' = Standing \cup {l.at} /\ UNCHANGED cell /\ AllWhole /\ l.at \in Place
        /\ \A x \in Live \cup {l.at} : CellAt(x)' = CellAt(x) /\ CellAt(x) \in Cell
        /\ ~Retiring /\ ~Replacing /\ ~Sweeping /\ Building /\ l.outcome = "open" /\ l.sweep = NoLocals.sweep
        /\ pc \in MorePoints /\ pc \in IndexPoints /\ CopyMap'
        /\ \A start \in {0, 1} : \A number \in Nat : Wanted(start, number) <=> start = l.start /\ number < l.written
    BY EntryMarked
  <1>0. PICK n : n = ChunkSize
    OBVIOUS
  <1>2. /\ n \in Nat /\ l.offset \in Nat /\ l.written \in Nat /\ l.start \in {0, 1} /\ l.ns \in Nat /\ op.name \in Names
        /\ Remaining \in Nat /\ n <= Remaining /\ Size[op.value] \in Nat
    <2>1. pc \in WritePoints /\ Reserved
      BY <1>1 DEF WritePoints, Pages
    <2>2. n \in Nat /\ l.offset \in Nat /\ l.offset + n <= Size[op.value] /\ op.value \in Values /\ op.name \in Names
      BY <1>0, <2>1, WriteFields
    <2>3. Size[op.value] \in Nat
      BY <2>2, FormatAssumption
    <2> QED BY <1>1, <2>2, <2>3, FormatAssumption DEF Locals, Remaining
  <1>3. /\ l'.written = l.written + 1 /\ l'.offset = l.offset + n /\ l'.want = IF Remaining > n THEN "chunk" ELSE "idx"
        /\ l'.start = l.start /\ l'.ns = l.ns /\ l'.old = l.old /\ l'.oldCell = l.oldCell /\ l'.sweep = l.sweep
        /\ l'.outcome = l.outcome /\ pc' \in {"fill", "room"}
    BY <1>0, <1>1 DEF EntryMark, Goto, Locals
  <1>4. KeysInv /\ ChunkInv /\ CallKnows
    BY DEF StoreInv
  <1>5. PICK c : c = CellAt(l.at)
    OBVIOUS
  <1>6. c = [kind |-> "chunk", ns |-> l.ns, name |-> op.name, start |-> l.start,
             number |-> l.written, size |-> n, value |-> op.value, offset |-> l.offset]
    BY <1>0, <1>1, <1>5 DEF EntryCell
  <1>7. ~Retiring' /\ ~Replacing' /\ ~Sweeping' /\ Building' /\ pc' \notin CompactPoints /\ OldPoint' /\ OldPoint
    BY <1>1, <1>3 DEF Retiring, Replacing, Sweeping, Building, CompactPoints, OldPoint, MorePoints, WritePoints
  <1>8. PICK b : b = l.at
    OBVIOUS
  <1>9. /\ Live' = Live \cup {b} /\ b \notin Live /\ \A x \in Live \cup {b} : CellAt(x)' = CellAt(x) /\ CellAt(x) \in Cell
        /\ CellAt(b) = c /\ b \in Place
    <2>1. Live' = Standing'
      BY <1>7 DEF Live
    <2> QED BY <1>1, <1>5, <1>8, <2>1
  <1>10. IsChunk(b) /\ ~IsName(b) /\ ~IsIndex(b) /\ ~IsEntry(CellAt(b)) /\ OfCall(CellAt(b))
    BY <1>6, <1>9 DEF IsChunk, IsName, IsIndex, IsEntry, OfCall
  <1>11. \A y \in Live : IsIndex(y) /\ OfCall(CellAt(y)) => CellAt(y).start # l.start
    <2>1. ~(pc \in CompactPoints) /\ pc # "start" /\ OldInPlace
      BY <1>1 DEF CompactPoints, HandInv
    <2> QED BY <1>1, <1>7, <2>1, NoIndexYet
  <1>12. \A x \in Live : IsChunk(x) => (Pending(CellAt(x)) <=> OfCall(CellAt(x)) /\ CellAt(x).start = l.start /\ CellAt(x).number < l.written)
    BY <1>1 DEF Pending, Awaiting
  <1>13. \A x \in Live : IsChunk(x) => ~(OfCall(CellAt(x)) /\ CellAt(x).start = l.start /\ CellAt(x).number = l.written)
    <2> SUFFICES ASSUME NEW x \in Live, IsChunk(x), OfCall(CellAt(x)), CellAt(x).start = l.start, CellAt(x).number = l.written
                 PROVE  FALSE
      OBVIOUS
    <2>1. ~Pending(CellAt(x))
      BY <1>2, <1>12
    <2>2. PICK y \in Live : IsIndex(y) /\ SameBlob(CellAt(x), CellAt(y))
      BY <1>4, <2>1 DEF ChunkInv, ChunkHasIndex
    <2> QED BY <1>11, <2>2 DEF SameBlob, OfCall
  <1>14. \A x \in Live \cup {b} : IsChunk(x) =>
           (Pending(CellAt(x))' <=> OfCall(CellAt(x)) /\ CellAt(x).start = l.start /\ CellAt(x).number < l.written + 1)
    <2> SUFFICES ASSUME NEW x \in Live \cup {b}, IsChunk(x)
                 PROVE Pending(CellAt(x))' <=> OfCall(CellAt(x)) /\ CellAt(x).start = l.start /\ CellAt(x).number < l.written + 1
      OBVIOUS
    <2>1. CellAt(x)' = CellAt(x)
      BY <1>9
    <2>2. OfCall(CellAt(x))' <=> OfCall(CellAt(x))
      BY <1>1, <1>3, <2>1 DEF OfCall
    <2>3. Awaiting(CellAt(x).start, CellAt(x).number)' <=> CellAt(x).start = l.start /\ CellAt(x).number < l.written + 1
      BY <1>3, <1>7, <2>1 DEF Awaiting
    <2> QED BY <1>7, <2>1, <2>2, <2>3 DEF Pending
  <1>15. \A x \in Live : IsChunk(x) => (Pending(CellAt(x))' <=> Pending(CellAt(x)))
    <2> SUFFICES ASSUME NEW x \in Live, IsChunk(x) PROVE Pending(CellAt(x))' <=> Pending(CellAt(x))
      OBVIOUS
    <2>1. CellAt(x).number \in Nat
      BY <1>9, EntryFields DEF IsChunk
    <2> QED BY <1>2, <1>12, <1>13, <1>14, <2>1
  <1>16. Pending(CellAt(b))'
    BY <1>2, <1>6, <1>9, <1>10, <1>14
  <1>17. KeysOnce' /\ NamesOnce' /\ InNamed'
    <2>1. KeysOnce' /\ NamesOnce'
      BY <1>4, <1>9, <1>10 DEF KeysInv, KeysOnce, NamesOnce, IsName
    <2>2. InNamed'
      BY <1>4, <1>9, <1>10 DEF KeysInv, InNamed, IsName
    <2> QED BY <2>1, <2>2
  <1>18. ChunkOnce'
    <2>1. \A x \in Live : IsChunk(x) => ~SameChunk(CellAt(x), c) /\ ~SameChunk(c, CellAt(x))
      BY <1>6, <1>13 DEF SameChunk, SameKey, OfCall
    <2> QED BY <1>4, <1>9, <2>1 DEF KeysInv, ChunkOnce, IsChunk
  <1>19. IndexHasChunks'
    BY <1>4, <1>9, <1>10 DEF KeysInv, IndexHasChunks, IsChunk, IsIndex
  <1>20. ChunkHasIndex'
    <2> SUFFICES ASSUME NEW x \in Live', IsChunk(x)'
                 PROVE  IF Pending(CellAt(x))' THEN \A y \in Live' : IsIndex(y)' => ~SameBlob(CellAt(x)', CellAt(y)')
                        ELSE \E y \in Live' : IsIndex(y)' /\ SameBlob(CellAt(x)', CellAt(y)')
      BY DEF ChunkHasIndex
    <2>1. IsChunk(x) /\ CellAt(x)' = CellAt(x) /\ x \in Live \cup {b}
      BY <1>9 DEF IsChunk
    <2>2. \A y \in Live' : IsIndex(y)' => y \in Live /\ IsIndex(y) /\ CellAt(y)' = CellAt(y)
      BY <1>9, <1>10 DEF IsIndex
    <2>3. CASE x = b
      <3>1. \A y \in Live : IsIndex(y) => ~SameBlob(CellAt(x), CellAt(y))
        BY <1>6, <1>9, <1>11, <2>3 DEF SameBlob, OfCall
      <3> QED BY <1>16, <2>1, <2>2, <2>3, <3>1
    <2>4. CASE x \in Live /\ Pending(CellAt(x))'
      <3>1. \A y \in Live : IsIndex(y) => ~SameBlob(CellAt(x), CellAt(y))
        BY <1>4, <1>15, <2>1, <2>4 DEF ChunkInv, ChunkHasIndex
      <3> QED BY <2>1, <2>2, <2>4, <3>1
    <2>5. CASE x \in Live /\ ~Pending(CellAt(x))'
      <3>1. PICK y \in Live : IsIndex(y) /\ SameBlob(CellAt(x), CellAt(y))
        BY <1>4, <1>15, <2>1, <2>5 DEF ChunkInv, ChunkHasIndex
      <3>2. y \in Live' /\ IsIndex(y)' /\ SameBlob(CellAt(x)', CellAt(y)')
        BY <1>9, <2>1, <3>1 DEF IsIndex
      <3> QED BY <2>5, <3>2
    <2> QED BY <2>1, <2>3, <2>4, <2>5
  <1>21. PendingThere'
    <2> SUFFICES ASSUME NEW start \in {0, 1}, NEW number \in Nat, Awaiting(start, number)'
                 PROVE  \E x \in Live' : IsChunk(x)' /\ OfCall(CellAt(x))' /\ CellAt(x)'.start = start /\ CellAt(x)'.number = number
      BY DEF PendingThere
    <2>1. start = l.start /\ number < l.written + 1
      BY <1>3, <1>7 DEF Awaiting
    <2>2. CASE number = l.written
      <3>1. IsChunk(b)' /\ OfCall(CellAt(b))' /\ CellAt(b)'.start = start /\ CellAt(b)'.number = number /\ b \in Live'
        BY <1>1, <1>3, <1>6, <1>9, <2>1, <2>2 DEF IsChunk, OfCall
      <3> QED BY <3>1
    <2>3. CASE number # l.written
      <3>1. Awaiting(start, number)
        BY <1>1, <1>2, <2>1, <2>3 DEF Awaiting
      <3>2. PICK x \in Live : IsChunk(x) /\ OfCall(CellAt(x)) /\ CellAt(x).start = start /\ CellAt(x).number = number
        BY <1>1, <1>4, <3>1 DEF ChunkInv, PendingThere
      <3> QED BY <1>1, <1>3, <1>9, <3>2 DEF IsChunk, OfCall
    <2> QED BY <2>2, <2>3
  <1>22. NameKnown'
    <2>1. NamePoint
      BY <1>1 DEF NamePoint
    <2> QED BY <1>1, <1>3, <1>4, <1>9, <2>1 DEF CallKnows, NameKnown, IsName
  <1>23. OldKnown'
    <2>1. /\ \A x \in Live : IsEntry(CellAt(x)) /\ OfCall(CellAt(x)) => l.old.status = "found" /\ x = l.old.place
          /\ l.old.status = "found" => /\ l.old.place \in Live /\ IsEntry(l.oldCell) /\ OfCall(l.oldCell)
                                       /\ l.oldCell.kind = "idx" => l.start # l.oldCell.start
      BY <1>4, <1>7 DEF CallKnows, OldKnown
    <2> QED BY <1>1, <1>3, <1>9, <1>10, <2>1 DEF OldKnown, OfCall
  <1>24. NameNew' /\ RetiringInHand' /\ SweptInHand' /\ HeadErased' /\ Waiting' /\ Opened'
    BY <1>1, <1>3, <1>7 DEF NameNew, RetiringInHand, SweptInHand, HeadErased, Waiting, Opened
  <1>25. IntactChunk(b)'
    <2> SUFFICES ASSUME NEW i \in 0 .. n - 1
                 PROVE  b[2] + 1 + i < Slots /\ cell[b[1]][b[2] + 1 + i] = Data(op.value, l.offset + i)
      BY <1>1, <1>6, <1>9 DEF IntactChunk, DataIntact
    <2>1. Writing /\ EntryInHand
      BY <1>1 DEF Writing, HandInv
    <2>2. l.k = n /\ b[2] + n < Slots /\ b[2] \in Nat /\ Slots \in Nat
      BY <1>0, <1>1, <1>2, <1>8, <2>1, EntrySlots DEF EntryInHand
    <2>3. cell[b[1]][b[2] + 1 + i] = Data(op.value, l.offset + i)
      BY <1>1, <1>8, <2>1, <2>2 DEF DataInHand
    <2> QED BY <1>2, <2>2, <2>3
  <1>26. Built'
    <2>1. /\ l.outcome = "open" => l.sweep = NoLocals.sweep
          /\ l.written = 0 => l.offset = 0
          /\ \A x \in Live : IsChunk(x) /\ Pending(CellAt(x)) =>
               /\ CellAt(x).value = op.value /\ IntactChunk(x)
               /\ CellAt(x).number = 0 => CellAt(x).offset = 0
               /\ CellAt(x).number = l.written - 1 => CellAt(x).offset + CellAt(x).size = l.offset
               /\ \A y \in Live : IsChunk(y) /\ Pending(CellAt(y)) /\ CellAt(y).number = CellAt(x).number + 1 =>
                    CellAt(y).offset = CellAt(x).offset + CellAt(x).size
      BY <1>1, <1>4 DEF CallKnows, Built
    <2>2. \A x \in Live' : IsChunk(x)' /\ Pending(CellAt(x))' =>
            x = b \/ (x \in Live /\ IsChunk(x) /\ Pending(CellAt(x)) /\ CellAt(x).number < l.written /\ CellAt(x).number \in Nat)
      <3> SUFFICES ASSUME NEW x \in Live', IsChunk(x)', Pending(CellAt(x))', x # b
                   PROVE x \in Live /\ IsChunk(x) /\ Pending(CellAt(x)) /\ CellAt(x).number < l.written /\ CellAt(x).number \in Nat
        OBVIOUS
      <3>1. x \in Live /\ IsChunk(x)
        BY <1>9 DEF IsChunk
      <3> QED BY <1>9, <1>12, <1>15, <3>1, EntryFields DEF IsChunk
    <2>3. \A x \in Live : IsChunk(x) /\ IntactChunk(x) => IntactChunk(x)'
      BY <1>1, <1>9 DEF IntactChunk, DataIntact
    <2>4. ASSUME NEW x \in Live', IsChunk(x)', Pending(CellAt(x))'
          PROVE  /\ CellAt(x)'.value = op.value /\ IntactChunk(x)'
                 /\ CellAt(x)'.number = 0 => CellAt(x)'.offset = 0
                 /\ CellAt(x)'.number = l'.written - 1 => CellAt(x)'.offset + CellAt(x)'.size = l'.offset
      <3>1. CASE x = b
        BY <1>2, <1>3, <1>6, <1>9, <1>25, <2>1, <3>1
      <3>2. CASE x # b
        <4>1. x \in Live /\ IsChunk(x) /\ Pending(CellAt(x)) /\ CellAt(x).number < l.written /\ CellAt(x)' = CellAt(x)
              /\ CellAt(x).number \in Nat
          BY <1>9, <2>2, <2>4, <3>2
        <4> QED BY <1>2, <1>3, <2>1, <2>3, <4>1
      <3> QED BY <3>1, <3>2
    <2>5. ASSUME NEW x \in Live', IsChunk(x)', Pending(CellAt(x))',
                 NEW y \in Live', IsChunk(y)', Pending(CellAt(y))', CellAt(y)'.number = CellAt(x)'.number + 1
          PROVE  CellAt(y)'.offset = CellAt(x)'.offset + CellAt(x)'.size
      <3>0. CellAt(x)' = CellAt(x) /\ CellAt(y)' = CellAt(y)
        BY <1>9
      <3>1. CASE x = b
        <4>1. CellAt(y)'.number = l.written + 1
          BY <1>6, <1>9, <2>5, <3>1
        <4>2. y # b /\ ~(CellAt(y).number < l.written)
          BY <1>2, <1>6, <1>9, <3>0, <4>1
        <4> QED BY <2>2, <2>5, <4>2
      <3>2. CASE x # b /\ y = b
        <4>1. x \in Live /\ IsChunk(x) /\ Pending(CellAt(x)) /\ CellAt(x).number \in Nat
          BY <2>2, <2>5, <3>2
        <4>2. CellAt(x).number = l.written - 1 /\ CellAt(y).offset = l.offset
          BY <1>2, <1>6, <1>9, <2>5, <3>0, <3>2, <4>1
        <4> QED BY <2>1, <3>0, <4>1, <4>2
      <3>3. CASE x # b /\ y # b
        <4>1. x \in Live /\ IsChunk(x) /\ Pending(CellAt(x)) /\ y \in Live /\ IsChunk(y) /\ Pending(CellAt(y))
          BY <2>2, <2>5, <3>3
        <4> QED BY <2>1, <2>5, <3>0, <4>1
      <3> QED BY <3>1, <3>2, <3>3
    <2>6. l'.want = "idx" => l'.offset = Size[op.value]
      BY <1>2, <1>3 DEF Remaining
    <2>7. l'.written # 0 /\ l'.written >= 1 /\ l'.want # "ns"
      BY <1>2, <1>3
    <2> QED BY <1>1, <1>3, <1>7, <2>1, <2>4, <2>5, <2>6, <2>7 DEF Built
  <1> QED BY <1>1, <1>17, <1>18, <1>19, <1>20, <1>21, <1>22, <1>23, <1>24, <1>26 DEF StoreInv, KeysInv, ChunkInv, CallKnows

\* An index with no value to replace: the chunks that waited are its.
LEMMA IndexMarkStore ==
  ASSUME FlashTypeOK, CallState, Pages, FlashInv, HandInv, StoreInv, EntryMark, l.want = "idx", l.old.status = "none"
  PROVE  StoreInv'
  <1>1. /\ pc = "entrymark" /\ op.call = "put" /\ op' = op /\ l \in Locals /\ l.at \notin Live /\ CellAt(l.at) = EntryCell
        /\ Live = Standing /\ Standing' = Standing \cup {l.at}
        /\ \A x \in Live \cup {l.at} : CellAt(x)' = CellAt(x) /\ CellAt(x) \in Cell
        /\ ~Retiring /\ ~Replacing /\ ~Sweeping /\ Building /\ l.outcome = "open" /\ l.sweep = NoLocals.sweep
        /\ pc \in MorePoints /\ pc \in IndexPoints /\ CopyMap'
        /\ \A start \in {0, 1} : \A number \in Nat : Wanted(start, number) <=> start = l.start /\ number < l.written
    BY EntryMarked
  <1>2. l'.outcome = "Ok" /\ l'.sweep = NoLocals.sweep /\ l'.ns = l.ns /\ pc' = "sweep"
    BY <1>1 DEF EntryMark, Goto, Retire, Locals
  <1>3. KeysInv /\ ChunkInv /\ CallKnows
    BY DEF StoreInv
  <1>4. l.written \in Nat /\ l.start \in {0, 1}
    BY <1>1 DEF Locals
  <1>5. PICK b : b = l.at
    OBVIOUS
  <1>6. /\ ~Retiring' /\ ~Replacing' /\ Sweeping' /\ ~Building' /\ pc' \notin CompactPoints /\ OldPoint /\ NamePoint
        /\ l'.sweep.count = 0 /\ NextSwept' = 0
    BY <1>1, <1>2 DEF Retiring, Replacing, Sweeping, Building, CompactPoints, OldPoint, NamePoint, NextSwept, NoLocals
  <1>7. \A start, number : number \in Nat => ~Awaiting(start, number)'
    BY <1>6 DEF Awaiting
  <1>8. /\ Live' = Live \cup {b} /\ b \notin Live /\ \A x \in Live \cup {b} : CellAt(x)' = CellAt(x) /\ CellAt(x) \in Cell
    <2>1. Live' = Standing'
      BY <1>6 DEF Live
    <2> QED BY <1>1, <1>5, <2>1
  <1>9. CellAt(b) = [kind |-> "idx", ns |-> l.ns, name |-> op.name, start |-> l.start,
                     count |-> l.written, size |-> Size[op.value]]
    BY <1>1, <1>5 DEF EntryCell
  <1>10. IsIndex(b) /\ IsEntry(CellAt(b)) /\ ~IsName(b) /\ ~IsChunk(b) /\ OfCall(CellAt(b))
    BY <1>9 DEF IsIndex, IsEntry, IsName, IsChunk, OfCall
  <1>11. \A x \in Live : ~(IsEntry(CellAt(x)) /\ OfCall(CellAt(x)))
    BY <1>3, <1>6 DEF CallKnows, OldKnown
  <1>12. \A x \in Live' : IsChunk(x)' => x \in Live /\ IsChunk(x) /\ CellAt(x)' = CellAt(x) /\ ~Pending(CellAt(x))'
    <2> SUFFICES ASSUME NEW x \in Live', IsChunk(x)'
                 PROVE  x \in Live /\ IsChunk(x) /\ CellAt(x)' = CellAt(x) /\ ~Pending(CellAt(x))'
      OBVIOUS
    <2>1. x \in Live /\ IsChunk(x) /\ CellAt(x)' = CellAt(x) /\ CellAt(x) \in Cell
      BY <1>8, <1>10 DEF IsChunk
    <2>2. CellAt(x)'.number \in Nat
      BY <2>1, EntryFields DEF IsChunk
    <2> QED BY <1>7, <2>1, <2>2 DEF Pending
  <1>13. KeysOnce'
    <2>1. \A x \in Live : IsEntry(CellAt(x)) => ~SameKey(CellAt(x), CellAt(b)) /\ ~SameKey(CellAt(b), CellAt(x))
      BY <1>10, <1>11 DEF SameKey, OfCall
    <2> QED BY <1>3, <1>8, <2>1 DEF KeysInv, KeysOnce
  <1>14. NamesOnce' /\ ChunkOnce'
    BY <1>3, <1>8, <1>10 DEF KeysInv, NamesOnce, ChunkOnce, IsName, IsChunk
  <1>15. InNamed'
    <2>1. PICK y \in Live : IsName(y) /\ CellAt(y).name = op.ns /\ CellAt(y).index = l.ns
      BY <1>3, <1>6 DEF CallKnows, NameKnown
    <2>2. CellAt(b).ns = l.ns
      BY <1>9
    <2> QED BY <1>3, <1>8, <2>1, <2>2 DEF KeysInv, InNamed, IsName
  <1>16. IndexHasChunks'
    <2> SUFFICES ASSUME NEW y \in Live', IsIndex(y)', NEW c \in 0 .. CellAt(y)'.count - 1
                 PROVE  \E x \in Live' : IsChunk(x)' /\ SameBlob(CellAt(x)', CellAt(y)') /\ CellAt(x)'.number = c
      BY DEF IndexHasChunks
    <2>1. CASE y = b
      <3>1. c \in Nat /\ c < l.written /\ CellAt(y)' = CellAt(b)
        BY <1>4, <1>8, <1>9, <2>1
      <3>2. Awaiting(l.start, c)
        BY <1>1, <3>1 DEF Awaiting
      <3>3. PICK x \in Live : IsChunk(x) /\ OfCall(CellAt(x)) /\ CellAt(x).start = l.start /\ CellAt(x).number = c
        BY <1>1, <1>3, <1>4, <3>1, <3>2 DEF ChunkInv, PendingThere
      <3>4. SameBlob(CellAt(x), CellAt(b)) /\ CellAt(x)' = CellAt(x)
        BY <1>8, <1>9, <3>1, <3>3 DEF SameBlob, OfCall
      <3> QED BY <1>8, <3>1, <3>3, <3>4 DEF IsChunk
    <2>2. CASE y # b
      BY <1>3, <1>8, <2>2 DEF KeysInv, IndexHasChunks, IsChunk, IsIndex
    <2> QED BY <2>1, <2>2
  <1>17. ChunkHasIndex'
    <2> SUFFICES ASSUME NEW x \in Live', IsChunk(x)'
                 PROVE  ~Pending(CellAt(x))' /\ \E y \in Live' : IsIndex(y)' /\ SameBlob(CellAt(x)', CellAt(y)')
      BY DEF ChunkHasIndex
    <2>1. x \in Live /\ IsChunk(x) /\ CellAt(x)' = CellAt(x) /\ ~Pending(CellAt(x))'
      BY <1>12
    <2>2. CASE Pending(CellAt(x))
      <3>1. SameBlob(CellAt(x), CellAt(b))
        BY <1>1, <1>9, <2>2 DEF Pending, Awaiting, SameBlob, OfCall
      <3> QED BY <1>8, <1>10, <2>1, <3>1 DEF IsIndex
    <2>3. CASE ~Pending(CellAt(x))
      <3>1. PICK y \in Live : IsIndex(y) /\ SameBlob(CellAt(x), CellAt(y))
        BY <1>3, <2>1, <2>3 DEF ChunkInv, ChunkHasIndex
      <3> QED BY <1>8, <2>1, <3>1 DEF IsIndex
    <2> QED BY <2>2, <2>3
  <1>18. PendingThere'
    BY <1>7 DEF PendingThere
  <1>19. NameKnown' /\ NameNew' /\ OldKnown' /\ RetiringInHand' /\ SweptInHand' /\ HeadErased' /\ Waiting' /\ Opened' /\ Built'
    BY <1>2, <1>6 DEF NameKnown, NamePoint, NameNew, IndexPoints, OldKnown, OldPoint, MorePoints, WritePoints, CompactPoints,
         RetiringInHand, SweptInHand, HeadErased, Waiting, Opened, Built
  <1> QED BY <1>1, <1>13, <1>14, <1>15, <1>16, <1>17, <1>18, <1>19 DEF StoreInv, KeysInv, ChunkInv, CallKnows

\* An index beside the entry it replaces: it waits for that one to go.
LEMMA ReplaceMarkStore ==
  ASSUME FlashTypeOK, CallState, Pages, FlashInv, HandInv, StoreInv, EntryMark, l.want = "idx", l.old.status = "found"
  PROVE  StoreInv' /\ Settled
  <1>1. /\ pc = "entrymark" /\ op.call = "put" /\ op' = op /\ l \in Locals /\ l.at \notin Live /\ CellAt(l.at) = EntryCell
        /\ Live = Standing /\ Standing' = Standing \cup {l.at} /\ UNCHANGED <<hdr, cell>> /\ AllWhole /\ l.at \in Place
        /\ \A x \in Live \cup {l.at} : CellAt(x)' = CellAt(x) /\ CellAt(x) \in Cell /\ SameRecord(x, x)
        /\ ~Retiring /\ ~Replacing /\ ~Sweeping /\ Building /\ l.outcome = "open" /\ l.sweep = NoLocals.sweep
        /\ pc \in MorePoints /\ pc \in IndexPoints /\ CopyMap'
        /\ \A start \in {0, 1} : \A number \in Nat : Wanted(start, number) <=> start = l.start /\ number < l.written
    BY EntryMarked
  <1>2. KeysInv /\ ChunkInv /\ CallKnows
    BY DEF StoreInv
  <1>3. PICK b : b = l.at
    OBVIOUS
  <1>4. PICK o : o = l.old.place
    OBVIOUS
  <1>5. OldPoint /\ NamePoint /\ ClosingPoint
    BY <1>1 DEF OldPoint, NamePoint, ClosingPoint
  <1>6. /\ o \in Live /\ IsEntry(l.oldCell) /\ OfCall(l.oldCell) /\ (l.oldCell.kind = "idx" => l.start # l.oldCell.start)
        /\ \A x \in Live : IsEntry(CellAt(x)) /\ OfCall(CellAt(x)) => x = o
    BY <1>2, <1>4, <1>5 DEF CallKnows, OldKnown
  <1>7. CellAt(o) = l.oldCell /\ o \in Place /\ o[1] \in DataPages /\ WrittenHeader(o[1], o[2])
    BY <1>1, <1>4 DEF HandInv, OldInPlace, PutPoints, WritePoints, CellAt
  <1>8. /\ l'.ns = l.ns /\ l'.at = o /\ l'.k = 0 /\ l'.outcome = "Ok" /\ pc' = "erasespan"
        /\ l'.start = l.start /\ l'.written = l.written /\ l'.offset = l.offset /\ l'.want = l.want
        /\ l'.sweep = IF l.oldCell.kind = "idx" THEN [start |-> l.oldCell.start, count |-> l.oldCell.count, done |-> 0]
                      ELSE [start |-> 0, count |-> 0, done |-> 0]
    <2>1. EntryMark /\ l.want = "idx" /\ l.old.status = "found" /\ l \in Locals
      BY <1>1
    <2>2. Retire(l.ns, l.old.place, l.oldCell)
      BY <2>1, Zenon DEF EntryMark
    <2>3. l' = [l EXCEPT !.ns = l.ns, !.at = l.old.place, !.k = 0, !.span = SpanOf(l.oldCell), !.outcome = "Ok",
                         !.sweep = IF l.oldCell.kind = "idx"
                                     THEN [start |-> l.oldCell.start, count |-> l.oldCell.count, done |-> 0]
                                     ELSE [start |-> 0, count |-> 0, done |-> 0]]
          /\ pc' = "erasespan"
      BY <2>2, Zenon DEF Retire, Goto
    <2> QED BY <1>4, <2>1, <2>3 DEF Locals
  <1>9. Retiring' /\ Replacing' /\ ~Sweeping' /\ Building' /\ pc' \notin CompactPoints /\ ~OldPoint'
    <2>1. l'.sweep.done = 0
      BY <1>8
    <2> QED BY <1>1, <1>8, <2>1 DEF Retiring, Replacing, Sweeping, Building, CompactPoints, OldPoint, MorePoints, WritePoints
  <1>10. CellAt(b) = NewIndex /\ IsEntry(CellAt(b)) /\ OfCall(CellAt(b)) /\ b # o
    <2>1. CellAt(b) = NewIndex
      BY <1>1, <1>3 DEF EntryCell, NewIndex
    <2> QED BY <1>1, <1>3, <1>6, <2>1 DEF NewIndex, IsEntry, OfCall
  <1>11. Live' = Live /\ Standing' \ Live' = {b}
    <2>1. \A x \in Live \cup {b} : OfCall(CellAt(x))' <=> OfCall(CellAt(x))
      BY <1>1, <1>3, <1>8 DEF OfCall
    <2>2. \A x \in Live \cup {b} : IsEntry(CellAt(x))' <=> IsEntry(CellAt(x))
      BY <1>1, <1>3 DEF IsEntry
    <2>3. Live' = {x \in Live \cup {b} : ~(x # o /\ IsEntry(CellAt(x)) /\ OfCall(CellAt(x)))}
      BY <1>1, <1>3, <1>8, <1>9, <2>1, <2>2 DEF Live
    <2> QED BY <1>1, <1>3, <1>6, <1>10, <2>3
  <1>12. StoreKept
    BY <1>1, <1>11, StoreStays
  <1>13. SamePending
    <2>1. \A start \in {0, 1} : \A number \in Nat : Wanted(start, number)' <=> start = l.start /\ number < l.written
      BY <1>8, <1>9 DEF Wanted, Awaiting
    <2> QED BY <1>1, <1>8, <2>1 DEF SamePending
  <1>14. KeysInv' /\ ChunkInv' /\ \A c \in Cell : c.kind = "chunk" => (Pending(c)' <=> Pending(c))
    BY <1>1, <1>2, <1>12, <1>13, KeepsKeys, KeepsChunks
  <1>15. NameKnown'
    BY <1>1, <1>2, <1>5, <1>8, <1>11 DEF CallKnows, NameKnown, IsName
  <1>16. RetiringInHand'
    <2>1. CellAt(l.at)' = l.oldCell /\ l'.at \in Live'
      <3>1. CellAt(o)' = CellAt(o)
        BY <1>1, <1>6
      <3> QED BY <1>6, <1>7, <1>8, <1>11, <3>1 DEF CellAt
    <2> QED BY <1>1, <1>6, <1>8, <2>1 DEF RetiringInHand, OfCall, IsIndex
  <1>17. Waiting'
    <2>1. Before(o, b)
      <3>1. EntryInHand /\ Writing
        BY <1>1 DEF HandInv, Writing
      <3>2. /\ b[1] \in ActivePages /\ b[1] \in DataPages /\ b[2] \in Slot /\ bits[b[1]][b[2]] = "empty" /\ l.k = 0
        BY <1>1, <1>3, <3>1, EntrySlots DEF EntryInHand, Pages, Reserved, WritePoints
      <3>3. o[2] \in Slot /\ o[2] \in Nat /\ b[2] \in Nat /\ o[1] \in Page /\ b[1] \in Page
        BY <1>1, <1>3, <1>7, SlotsAreNat DEF Place, SlotNat
      <3>4. hdr[o[1]].seq <= hdr[b[1]].seq /\ (hdr[o[1]].seq = hdr[b[1]].seq => o[1] = b[1])
        BY <1>7, <3>2 DEF Pages, PageDiscipline
      <3>5. hdr[o[1]].seq \in Nat /\ hdr[b[1]].seq \in Nat
        BY <3>3 DEF Pages, HeaderState
      <3>6. CASE o[1] # b[1]
        BY <3>4, <3>5, <3>6 DEF Before, Older
      <3>7. CASE o[1] = b[1]
        <4>1. o[2] # b[2]
          BY <1>7, <3>2, <3>7 DEF WrittenHeader
        <4>2. ~(b[2] < o[2])
          <5> SUFFICES ASSUME b[2] < o[2] PROVE FALSE
            OBVIOUS
          <5>1. o[2] <= b[2] + l.k
            BY <1>3, <1>7, <3>2, <3>3, <3>7 DEF FlashInv, Appended, WrittenHeader
          <5> QED BY <3>2, <3>3, <5>1
        <4> QED BY <3>3, <3>7, <4>1, <4>2 DEF Before
      <3> QED BY <3>6, <3>7
    <2>2. Before(o, b)'
      BY <1>1, <2>1 DEF Before, Older
    <2>3. CellAt(b)' = NewIndex'
      BY <1>1, <1>3, <1>8, <1>10 DEF NewIndex
    <2>4. b \in Standing'
      BY <1>1, <1>3
    <2>5. IsIndex(l.at)' => CellAt(l.at)'.start # l'.start
      <3>1. CellAt(l.at)' = l.oldCell
        <4>1. CellAt(o)' = CellAt(o)
          BY <1>1, <1>6
        <4> QED BY <1>7, <1>8, <4>1 DEF CellAt
      <3> QED BY <1>6, <1>8, <3>1 DEF IsIndex
    <2>6. Before(l.at, b)'
      BY <1>8, <2>2 DEF Before
    <2> QED BY <1>11, <2>3, <2>4, <2>5, <2>6 DEF Waiting
  <1>18. NameNew' /\ OldKnown' /\ SweptInHand' /\ HeadErased' /\ Opened'
    BY <1>8, <1>9 DEF NameNew, IndexPoints, CompactPoints, OldKnown, SweptInHand, HeadErased, Opened
  <1>19. Built'
    <2>1. /\ l.written = 0 => l.offset = 0
          /\ l.written >= 1 /\ l.offset = Size[op.value]
          /\ \A x \in Live : IsChunk(x) /\ Pending(CellAt(x)) =>
               /\ CellAt(x).value = op.value /\ IntactChunk(x)
               /\ CellAt(x).number = 0 => CellAt(x).offset = 0
               /\ CellAt(x).number = l.written - 1 => CellAt(x).offset + CellAt(x).size = l.offset
               /\ \A y \in Live : IsChunk(y) /\ Pending(CellAt(y)) /\ CellAt(y).number = CellAt(x).number + 1 =>
                    CellAt(y).offset = CellAt(x).offset + CellAt(x).size
      BY <1>1, <1>2, <1>5 DEF CallKnows, Built, ClosingPoint
    <2>2. \A x \in Live : IsChunk(x)' => CellAt(x)' = CellAt(x) /\ IsChunk(x) /\ (Pending(CellAt(x))' <=> Pending(CellAt(x)))
      <3> SUFFICES ASSUME NEW x \in Live, IsChunk(x)'
                   PROVE CellAt(x)' = CellAt(x) /\ IsChunk(x) /\ (Pending(CellAt(x))' <=> Pending(CellAt(x)))
        OBVIOUS
      <3>1. CellAt(x)' = CellAt(x) /\ IsChunk(x) /\ CellAt(x) \in Cell
        BY <1>1 DEF IsChunk
      <3>2. PICK c \in Cell : c = CellAt(x)
        BY <3>1
      <3>3. Pending(c)' <=> Pending(c)
        BY <1>14, <3>1, <3>2 DEF IsChunk
      <3>4. Pending(CellAt(x))' <=> Pending(c)'
        BY <3>1, <3>2 DEF Pending, OfCall, Awaiting
      <3> QED BY <3>1, <3>2, <3>3, <3>4
    <2>3. \A x \in Live : IsChunk(x) /\ IntactChunk(x) => IntactChunk(x)'
      BY <1>1 DEF IntactChunk, DataIntact
    <2> QED BY <1>1, <1>8, <1>9, <1>11, <2>1, <2>2, <2>3 DEF Built
  <1> QED BY <1>1, <1>11, <1>14, <1>15, <1>16, <1>17, <1>18, <1>19 DEF StoreInv, CallKnows, Settled

\* An entry is marked, whatever it is.
LEMMA EntryMarkStore ==
  ASSUME FlashTypeOK, CallState, Pages, FlashInv, HandInv, StoreInv, DataInHand, EntryMark
  PROVE  StoreInv'
  BY NameMarkStore, ChunkMarkStore, IndexMarkStore, ReplaceMarkStore DEF EntryMark

----------------------------------------------------------------------------
(***************************************************************************)
(* A record is erased, its header first: it counts no more.                *)
(***************************************************************************)
\* A slot of the record is marked, and that is all that changes.
LEMMA EraseMarked ==
  ASSUME FlashTypeOK, CallState, Pages, FlashInv, HandInv, StoreInv, EraseMark
  PROVE  /\ pc = "erasespan" /\ pc' \in {"erasespan", "sweep"} /\ UNCHANGED <<hdr, cell, op>> /\ DataPages' = DataPages
         /\ l \in Locals /\ l.at \in Place /\ AllWhole /\ l.outcome # "open" /\ op.call \in {"put", "remove"}
         /\ l'.k = l.k + 1 /\ l.k \in Nat /\ l'.ns = l.ns /\ l'.sweep = l.sweep /\ l'.outcome = l.outcome /\ l'.at = l.at
         /\ ~Retiring' /\ ~Replacing' /\ Sweeping' /\ ~Building' /\ NextSwept' = l.sweep.done
         /\ Live' = Standing' /\ pc \notin CompactPoints
         /\ l.k = 0 => Standing' = Standing \ {l.at}
         /\ l.k > 0 => Standing' = Standing
         /\ \A x \in Standing : x \in Place /\ CellAt(x)' = CellAt(x) /\ SameRecord(x, x) /\ CellAt(x) \in Cell
         /\ NameKnown' /\ NameNew' /\ OldKnown' /\ RetiringInHand' /\ SweptInHand' /\ HeadErased' /\ Built' /\ Waiting' /\ Opened'
         /\ CopyMap'
         /\ \A start, number : number \in Nat =>
              (Awaiting(start, number)' <=> start = l.sweep.start /\ l.sweep.done <= number /\ number < l.sweep.count)
  <1> DEFINE p == l.at[1]
             a == l.at[2]
             e == a + l.k
  <1>1. /\ pc = "erasespan" /\ pc' \in {"erasespan", "sweep"} /\ UNCHANGED <<hdr, cell, op>>
        /\ Mark(p, e, "erased") /\ l' = [l EXCEPT !.k = @ + 1]
    BY DEF EraseMark, Goto, Keep
  <1>2. AllWhole /\ l \in Locals /\ l.outcome # "open" /\ op.call \in {"put", "remove"} /\ SpanInHand
    BY <1>1 DEF FlashInv, HandInv, CallState, Routing
  <1>3. l'.k = l.k + 1 /\ l'.ns = l.ns /\ l'.sweep = l.sweep /\ l'.outcome = l.outcome /\ l'.at = l.at /\ l.k \in Nat
        /\ l.span \in Nat /\ l.sweep.done \in Nat /\ l.sweep.count \in Nat
    BY <1>1, <1>2 DEF Locals
  <1>4. /\ l.at \in Place /\ p \in DataPages /\ p \in Page /\ a \in Slot /\ a \in Nat /\ Slots \in Nat
        /\ l.k < l.span /\ a + l.span <= Slots /\ l.at = <<p, a>>
        /\ \A i \in 1 .. l.span - 1 : ~IsHeader(cell[p][a + i])
        /\ l.k = 0 => WrittenHeader(p, a)
    BY <1>1, <1>2, SlotsAreNat DEF SpanInHand, Place, SlotNat
  <1>5. e \in Slot
    BY <1>3, <1>4 DEF Slot
  <1>6. /\ \A q \in Page : \A t \in Slot : ~(q = p /\ t = e) => bits'[q][t] = bits[q][t]
        /\ bits'[p][e] = "erased"
    BY <1>1, <1>4, <1>5, MarkEffect
  <1>7. DataPages' = DataPages
    BY <1>1 DEF DataPages
  <1>8. ASSUME NEW x \in Place, x[1] \in DataPages
        PROVE  WrittenHeader(x[1], x[2])' <=> WrittenHeader(x[1], x[2]) /\ ~(l.k = 0 /\ x = l.at)
    <2>1. x[1] \in Page /\ x[2] \in Slot /\ x = <<x[1], x[2]>>
      BY <1>8 DEF Place
    <2>2. CASE x[1] = p /\ x[2] = e
      <3>1. ~WrittenHeader(x[1], x[2])'
        BY <1>6, <2>2 DEF WrittenHeader
      <3>2. CASE l.k = 0
        BY <1>4, <2>1, <2>2, <3>1, <3>2
      <3>3. CASE l.k # 0
        <4>1. l.k \in 1 .. l.span - 1
          BY <1>3, <1>4, <3>3
        <4>2. ~IsHeader(cell[p][e])
          BY <1>4, <4>1
        <4> QED BY <2>2, <3>1, <4>2 DEF WrittenHeader
      <3> QED BY <3>2, <3>3
    <2>3. CASE ~(x[1] = p /\ x[2] = e)
      <3>1. bits'[x[1]][x[2]] = bits[x[1]][x[2]]
        BY <1>6, <2>1, <2>3
      <3>2. ~(l.k = 0 /\ x = l.at)
        BY <1>4, <2>3
      <3> QED BY <1>1, <3>1, <3>2 DEF WrittenHeader
    <2> QED BY <2>2, <2>3
  <1>9. Standing' = {x \in Place : x[1] \in DataPages /\ WrittenHeader(x[1], x[2])'}
    BY <1>7 DEF Standing
  <1>10. l.k = 0 => Standing' = Standing \ {l.at}
    BY <1>8, <1>9 DEF Standing
  <1>11. l.k > 0 => Standing' = Standing
    BY <1>3, <1>8, <1>9 DEF Standing
  <1>12. ~Retiring' /\ ~Replacing' /\ Sweeping' /\ ~Building' /\ pc' \notin CompactPoints /\ pc \notin CompactPoints
         /\ NextSwept' = l.sweep.done
    BY <1>1, <1>2, <1>3 DEF Retiring, Replacing, Sweeping, Building, CompactPoints, NextSwept
  <1>13. Live' = Standing'
    BY <1>12 DEF Live
  <1>14. \A x \in Standing : x \in Place /\ CellAt(x)' = CellAt(x) /\ SameRecord(x, x) /\ CellAt(x) \in Cell
    <2> SUFFICES ASSUME NEW x \in Standing PROVE x \in Place /\ CellAt(x)' = CellAt(x) /\ SameRecord(x, x) /\ CellAt(x) \in Cell
      OBVIOUS
    <2>1. x \in Place /\ x[1] \in Page /\ x[2] \in Slot /\ x[2] \in Nat
      BY SlotsAreNat DEF Standing, Place, SlotNat
    <2> QED BY <1>1, <2>1 DEF CellAt, SameRecord, FlashTypeOK
  <1>15. HeadErased'
    <2>1. CASE l.k = 0
      BY <1>3, <1>4, <1>6, <2>1 DEF HeadErased
    <2>2. CASE l.k # 0
      <3>1. bits[p][a] = "erased"
        BY <1>1, <1>3, <2>2 DEF StoreInv, CallKnows, HeadErased
      <3>2. a # e
        BY <1>3, <1>4, <2>2
      <3> QED BY <1>3, <1>4, <1>6, <3>1, <3>2 DEF HeadErased
    <2> QED BY <2>1, <2>2
  <1>16. l'.k # 0 /\ pc' \notin {"old", "chunk"} \cup MorePoints \cup IndexPoints
    BY <1>1, <1>3 DEF MorePoints, IndexPoints, WritePoints, CompactPoints
  <1>17. NameKnown' /\ NameNew' /\ OldKnown' /\ RetiringInHand' /\ SweptInHand' /\ Built' /\ Waiting' /\ Opened' /\ CopyMap'
    BY <1>1, <1>12, <1>16 DEF NameKnown, NamePoint, NameNew, OldKnown, OldPoint, RetiringInHand, SweptInHand, Built, Waiting, Opened,
       CopyMap
  <1>18. \A start, number : number \in Nat =>
           (Awaiting(start, number)' <=> start = l.sweep.start /\ l.sweep.done <= number /\ number < l.sweep.count)
    BY <1>3, <1>12 DEF Awaiting
  <1> QED BY <1>1, <1>2, <1>3, <1>4, <1>7, <1>10, <1>11, <1>12, <1>13, <1>14, <1>15, <1>17, <1>18

\* Its data follows: nothing that counts changes.
LEMMA DataEraseStore ==
  ASSUME FlashTypeOK, CallState, Pages, FlashInv, HandInv, StoreInv, EraseMark, l.k > 0
  PROVE  StoreInv' /\ Settled
  <1>1. /\ pc = "erasespan" /\ pc' \in {"erasespan", "sweep"} /\ UNCHANGED <<hdr, cell, op>>
        /\ AllWhole /\ l.outcome # "open" /\ l'.ns = l.ns /\ l.k \in Nat
        /\ Live' = Standing' /\ pc \notin CompactPoints /\ Standing' = Standing /\ Sweeping' /\ ~Building'
        /\ \A x \in Standing : x \in Place /\ CellAt(x)' = CellAt(x) /\ SameRecord(x, x) /\ CellAt(x) \in Cell
        /\ NameKnown' /\ NameNew' /\ OldKnown' /\ RetiringInHand' /\ SweptInHand' /\ HeadErased' /\ Built' /\ Waiting' /\ Opened'
        /\ CopyMap'
        /\ \A start, number : number \in Nat =>
             (Awaiting(start, number)' <=> start = l.sweep.start /\ l.sweep.done <= number /\ number < l.sweep.count)
    BY EraseMarked
  <1>2. ~Retiring /\ ~Replacing /\ Sweeping /\ ~Building /\ NextSwept = l.sweep.done
    BY <1>1 DEF Retiring, Replacing, Sweeping, Building, NextSwept
  <1>3. Live = Standing /\ Live' = Live
    BY <1>1, <1>2 DEF Live
  <1>4. SamePending
    BY <1>1, <1>2 DEF SamePending, Wanted, Awaiting
  <1>5. Settled /\ StoreKept
    BY <1>1, <1>3, StoreStays DEF Settled
  <1>6. KeysInv' /\ ChunkInv'
    BY <1>1, <1>4, <1>5, KeepsKeys, KeepsChunks DEF StoreInv
  <1> QED BY <1>1, <1>5, <1>6 DEF StoreInv, CallKnows

\* A chunk without an index goes.
LEMMA ChunkEraseStore ==
  ASSUME FlashTypeOK, CallState, Pages, FlashInv, HandInv, StoreInv, EraseMark, l.k = 0, ~Retiring
  PROVE  StoreInv'
  <1>1. /\ pc = "erasespan" /\ pc' \in {"erasespan", "sweep"} /\ UNCHANGED <<hdr, cell, op>> /\ l \in Locals
        /\ AllWhole /\ l.outcome # "open" /\ l'.ns = l.ns
        /\ Live' = Standing' /\ pc \notin CompactPoints /\ Standing' = Standing \ {l.at} /\ Sweeping' /\ ~Building'
        /\ \A x \in Standing : x \in Place /\ CellAt(x)' = CellAt(x) /\ SameRecord(x, x) /\ CellAt(x) \in Cell
        /\ NameKnown' /\ NameNew' /\ OldKnown' /\ RetiringInHand' /\ SweptInHand' /\ HeadErased' /\ Built' /\ Waiting' /\ Opened'
        /\ CopyMap'
        /\ \A start, number : number \in Nat =>
             (Awaiting(start, number)' <=> start = l.sweep.start /\ l.sweep.done <= number /\ number < l.sweep.count)
    BY EraseMarked
  <1>2. ~Replacing /\ Sweeping /\ ~Building /\ NextSwept = l.sweep.done - 1
    BY <1>1 DEF Retiring, Replacing, Sweeping, Building, NextSwept
  <1>3. KeysInv /\ ChunkInv /\ CallKnows
    BY DEF StoreInv
  <1>4. PICK b : b = l.at
    OBVIOUS
  <1>5. l.sweep.done \in Nat /\ l.sweep.count \in Nat /\ l.sweep.start \in {0, 1}
    BY <1>1 DEF Locals
  <1>6. /\ b \in Live /\ IsChunk(b) /\ OfCall(CellAt(b)) /\ l.sweep.done >= 1 /\ l.sweep.done <= l.sweep.count
        /\ CellAt(b).start = l.sweep.start /\ CellAt(b).number = l.sweep.done - 1
    BY <1>1, <1>3, <1>4 DEF CallKnows, SweptInHand
  <1>7. Live = Standing /\ Live' = Live \ {b}
    BY <1>1, <1>2, <1>4 DEF Live
  <1>8. \A x \in Live : CellAt(x)' = CellAt(x) /\ CellAt(x) \in Cell
    BY <1>1, <1>7
  <1>9. \A start, number : number \in Nat =>
          (Awaiting(start, number) <=> start = l.sweep.start /\ l.sweep.done - 1 <= number /\ number < l.sweep.count)
    BY <1>2 DEF Awaiting
  <1>10. \A x \in Live : IsChunk(x) =>
           /\ Pending(CellAt(x)) <=> OfCall(CellAt(x)) /\ CellAt(x).start = l.sweep.start
                                     /\ l.sweep.done - 1 <= CellAt(x).number /\ CellAt(x).number < l.sweep.count
           /\ Pending(CellAt(x))' <=> OfCall(CellAt(x)) /\ CellAt(x).start = l.sweep.start
                                     /\ l.sweep.done <= CellAt(x).number /\ CellAt(x).number < l.sweep.count
    <2> SUFFICES ASSUME NEW x \in Live, IsChunk(x)
                 PROVE /\ Pending(CellAt(x)) <=> OfCall(CellAt(x)) /\ CellAt(x).start = l.sweep.start
                                     /\ l.sweep.done - 1 <= CellAt(x).number /\ CellAt(x).number < l.sweep.count
                       /\ Pending(CellAt(x))' <=> OfCall(CellAt(x)) /\ CellAt(x).start = l.sweep.start
                                     /\ l.sweep.done <= CellAt(x).number /\ CellAt(x).number < l.sweep.count
      OBVIOUS
    <2>1. CellAt(x).number \in Nat /\ CellAt(x)' = CellAt(x)
      BY <1>8, EntryFields DEF IsChunk
    <2>2. Awaiting(CellAt(x).start, CellAt(x).number)' <=>
            CellAt(x).start = l.sweep.start /\ l.sweep.done <= CellAt(x).number /\ CellAt(x).number < l.sweep.count
      <3>1. PICK s : s = CellAt(x).start
        OBVIOUS
      <3>4. PICK m \in Nat : m = CellAt(x).number
        BY <2>1
      <3>2. Awaiting(s, m)' <=> s = l.sweep.start /\ l.sweep.done <= m /\ m < l.sweep.count
        BY <1>1
      <3>3. Awaiting(CellAt(x).start, CellAt(x).number)' <=> Awaiting(s, m)'
        BY <2>1, <3>1, <3>4 DEF Awaiting
      <3> QED BY <3>1, <3>2, <3>3, <3>4
    <2>3. OfCall(CellAt(x))' <=> OfCall(CellAt(x))
      BY <1>1, <2>1 DEF OfCall
    <2>4. Pending(CellAt(x))' <=> OfCall(CellAt(x))' /\ Awaiting(CellAt(x).start, CellAt(x).number)'
      BY <1>1, <2>1 DEF Pending
    <2> QED BY <1>2, <1>9, <2>1, <2>2, <2>3, <2>4 DEF Pending
  <1>11. \A x \in Live : IsChunk(x) /\ x # b => (Pending(CellAt(x))' <=> Pending(CellAt(x)))
    <2> SUFFICES ASSUME NEW x \in Live, IsChunk(x), x # b PROVE Pending(CellAt(x))' <=> Pending(CellAt(x))
      OBVIOUS
    <2>1. ~(OfCall(CellAt(x)) /\ CellAt(x).start = l.sweep.start /\ CellAt(x).number = l.sweep.done - 1)
      BY <1>3, <1>6 DEF KeysInv, ChunkOnce, SameChunk, SameKey, OfCall
    <2>2. CellAt(x).number \in Nat
      BY <1>8, EntryFields DEF IsChunk
    <2> QED BY <1>5, <1>10, <2>1, <2>2
  <1>12. ~IsName(b) /\ ~IsIndex(b) /\ ~IsEntry(CellAt(b)) /\ Pending(CellAt(b))
    BY <1>5, <1>6, <1>10 DEF IsName, IsIndex, IsEntry, IsChunk
  <1>13. KeysOnce' /\ NamesOnce' /\ ChunkOnce' /\ InNamed'
    <2>1. KeysOnce' /\ NamesOnce' /\ ChunkOnce'
      BY <1>3, <1>7, <1>8 DEF KeysInv, KeysOnce, NamesOnce, ChunkOnce, IsName, IsChunk
    <2>2. InNamed'
      BY <1>3, <1>7, <1>8, <1>12 DEF KeysInv, InNamed, IsName
    <2> QED BY <2>1, <2>2
  <1>14. IndexHasChunks'
    <2> SUFFICES ASSUME NEW y \in Live', IsIndex(y)', NEW c \in 0 .. CellAt(y)'.count - 1
                 PROVE  \E x \in Live' : IsChunk(x)' /\ SameBlob(CellAt(x)', CellAt(y)') /\ CellAt(x)'.number = c
      BY DEF IndexHasChunks
    <2>1. y \in Live /\ IsIndex(y) /\ CellAt(y)' = CellAt(y)
      BY <1>7, <1>8 DEF IsIndex
    <2>2. PICK x \in Live : IsChunk(x) /\ SameBlob(CellAt(x), CellAt(y)) /\ CellAt(x).number = c
      BY <1>3, <2>1 DEF KeysInv, IndexHasChunks
    <2>3. x # b
      BY <1>3, <1>6, <1>12, <2>1, <2>2 DEF ChunkInv, ChunkHasIndex
    <2> QED BY <1>7, <1>8, <2>1, <2>2, <2>3 DEF IsChunk
  <1>15. ChunkHasIndex'
    <2> SUFFICES ASSUME NEW x \in Live', IsChunk(x)'
                 PROVE  IF Pending(CellAt(x))' THEN \A y \in Live' : IsIndex(y)' => ~SameBlob(CellAt(x)', CellAt(y)')
                        ELSE \E y \in Live' : IsIndex(y)' /\ SameBlob(CellAt(x)', CellAt(y)')
      BY DEF ChunkHasIndex
    <2>1. x \in Live /\ IsChunk(x) /\ CellAt(x)' = CellAt(x) /\ x # b /\ (Pending(CellAt(x))' <=> Pending(CellAt(x)))
      BY <1>7, <1>8, <1>11 DEF IsChunk
    <2>2. CASE Pending(CellAt(x))'
      <3>1. \A y \in Live : IsIndex(y) => ~SameBlob(CellAt(x), CellAt(y))
        BY <1>3, <2>1, <2>2 DEF ChunkInv, ChunkHasIndex
      <3> QED BY <1>7, <1>8, <2>1, <2>2, <3>1 DEF IsIndex
    <2>3. CASE ~Pending(CellAt(x))'
      <3>1. PICK y \in Live : IsIndex(y) /\ SameBlob(CellAt(x), CellAt(y))
        BY <1>3, <2>1, <2>3 DEF ChunkInv, ChunkHasIndex
      <3>2. y \in Live' /\ IsIndex(y)' /\ SameBlob(CellAt(x)', CellAt(y)')
        BY <1>7, <1>8, <1>12, <2>1, <3>1 DEF IsIndex
      <3> QED BY <2>3, <3>2
    <2> QED BY <2>2, <2>3
  <1>16. PendingThere'
    <2> SUFFICES ASSUME NEW start \in {0, 1}, NEW number \in Nat, Awaiting(start, number)'
                 PROVE  \E x \in Live' : IsChunk(x)' /\ OfCall(CellAt(x))' /\ CellAt(x)'.start = start /\ CellAt(x)'.number = number
      BY DEF PendingThere
    <2>1. start = l.sweep.start /\ l.sweep.done <= number /\ number < l.sweep.count
      BY <1>1
    <2>2. Awaiting(start, number)
      BY <1>5, <1>9, <2>1
    <2>3. PICK x \in Live : IsChunk(x) /\ OfCall(CellAt(x)) /\ CellAt(x).start = start /\ CellAt(x).number = number
      BY <1>2, <1>3, <2>2 DEF ChunkInv, PendingThere
    <2>4. x # b
      BY <1>5, <1>6, <2>1, <2>3
    <2> QED BY <1>1, <1>7, <1>8, <2>3, <2>4 DEF IsChunk, OfCall
  <1> QED BY <1>1, <1>13, <1>14, <1>15, <1>16 DEF StoreInv, KeysInv, ChunkInv, CallKnows

\* The entry removed or replaced goes: a new index counts now, and the chunks of the old one wait
\* for their end.
LEMMA RetireEraseStore ==
  ASSUME FlashTypeOK, CallState, Pages, FlashInv, HandInv, StoreInv, EraseMark, l.k = 0, Retiring
  PROVE  StoreInv'
  <1>1. /\ pc = "erasespan" /\ UNCHANGED <<hdr, cell, op>> /\ l \in Locals /\ l'.ns = l.ns /\ op.call \in {"put", "remove"}
        /\ Live' = Standing' /\ Standing' = Standing \ {l.at} /\ Sweeping' /\ ~Building'
        /\ \A x \in Standing : CellAt(x)' = CellAt(x) /\ CellAt(x) \in Cell
        /\ NameKnown' /\ NameNew' /\ OldKnown' /\ RetiringInHand' /\ SweptInHand' /\ HeadErased' /\ Built' /\ Waiting' /\ Opened'
        /\ CopyMap'
        /\ \A start, number : number \in Nat =>
             (Awaiting(start, number)' <=> start = l.sweep.start /\ l.sweep.done <= number /\ number < l.sweep.count)
    BY EraseMarked
  <1>2. KeysInv /\ ChunkInv /\ CallKnows
    BY DEF StoreInv
  <1>3. PICK b : b = l.at
    OBVIOUS
  <1>4. PICK S, C : S = l.sweep.start /\ C = l.sweep.count
    OBVIOUS
  <1>5. ~Sweeping /\ (Building <=> op.call = "put") /\ (Replacing <=> op.call = "put") /\ NamePoint /\ l.sweep.done = 0
    BY DEF Sweeping, Building, Replacing, NamePoint, Retiring
  <1>6. /\ b \in Live /\ IsEntry(CellAt(b)) /\ OfCall(CellAt(b)) /\ S \in {0, 1} /\ C \in Nat
        /\ IsIndex(b) => S = CellAt(b).start /\ C = CellAt(b).count
        /\ ~IsIndex(b) => C = 0
    <2>1. l.at \in Live /\ IsEntry(CellAt(l.at)) /\ OfCall(CellAt(l.at))
          /\ l.sweep = IF IsIndex(l.at) THEN [start |-> CellAt(l.at).start, count |-> CellAt(l.at).count, done |-> 0]
                       ELSE [start |-> 0, count |-> 0, done |-> 0]
      BY <1>2 DEF CallKnows, RetiringInHand
    <2>2. S \in {0, 1} /\ C \in Nat
      BY <1>1, <1>4 DEF Locals
    <2> QED BY <1>3, <1>4, <2>1, <2>2
  <1>7. PICK N : N = Standing \ Live
    OBVIOUS
  <1>8. /\ \A y \in N : CellAt(y) = NewIndex /\ op.call = "put"
        /\ op.call = "put" => \E y : N = {y}
        /\ op.call = "put" /\ IsIndex(b) => S # l.start
        /\ Live \subseteq Standing
    <2>0. Live \subseteq Standing
      BY DEF Live
    <2>1. CASE op.call = "put"
      BY <1>2, <1>3, <1>5, <1>6, <1>7, <2>0, <2>1 DEF CallKnows, Waiting
    <2>2. CASE op.call # "put"
      <3>1. N = {}
        BY <1>1, <1>5, <1>7, <2>2 DEF Live, CompactPoints
      <3> QED BY <2>0, <2>2, <3>1
    <2> QED BY <2>1, <2>2
  <1>9. Live' = (Live \ {b}) \cup N
    BY <1>1, <1>3, <1>6, <1>7, <1>8
  <1>10. \A x \in Live \cup N : CellAt(x)' = CellAt(x) /\ CellAt(x) \in Cell
    BY <1>1, <1>7, <1>8
  <1>11. \A y \in N : IsIndex(y) /\ IsEntry(CellAt(y)) /\ ~IsName(y) /\ ~IsChunk(y) /\ OfCall(CellAt(y))
    BY <1>8 DEF IsIndex, IsEntry, IsName, IsChunk, OfCall, NewIndex
  <1>12. ~IsName(b) /\ ~IsChunk(b)
    BY <1>6 DEF IsName, IsChunk, IsEntry
  <1>13. \A x \in Live : IsEntry(CellAt(x)) /\ OfCall(CellAt(x)) => x = b
    BY <1>2, <1>6 DEF KeysInv, KeysOnce, OfCall, SameKey
  <1>14. \A start, number : number \in Nat =>
           /\ Awaiting(start, number)' <=> start = S /\ number < C
           /\ Awaiting(start, number) <=> op.call = "put" /\ start = l.start /\ number < l.written
    <2> SUFFICES ASSUME NEW start, NEW number, number \in Nat
                 PROVE  /\ Awaiting(start, number)' <=> start = S /\ number < C
                        /\ Awaiting(start, number) <=> op.call = "put" /\ start = l.start /\ number < l.written
      OBVIOUS
    <2>1. Awaiting(start, number)' <=> start = l.sweep.start /\ l.sweep.done <= number /\ number < l.sweep.count
      BY <1>1
    <2>2. Awaiting(start, number)' <=> start = S /\ number < C
      BY <1>4, <1>5, <2>1
    <2> QED BY <1>5, <2>2 DEF Awaiting
  <1>15. \A x \in Live' : IsChunk(x)' =>
           /\ x \in Live /\ IsChunk(x) /\ CellAt(x)' = CellAt(x) /\ CellAt(x).number \in Nat
           /\ Pending(CellAt(x)) <=> OfCall(CellAt(x)) /\ op.call = "put" /\ CellAt(x).start = l.start
                                       /\ CellAt(x).number < l.written
           /\ Pending(CellAt(x))' <=> OfCall(CellAt(x)) /\ CellAt(x).start = S /\ CellAt(x).number < C
    <2> SUFFICES ASSUME NEW x \in Live', IsChunk(x)'
                 PROVE  /\ x \in Live /\ IsChunk(x) /\ CellAt(x)' = CellAt(x) /\ CellAt(x).number \in Nat
                        /\ Pending(CellAt(x)) <=> OfCall(CellAt(x)) /\ op.call = "put" /\ CellAt(x).start = l.start
                                                    /\ CellAt(x).number < l.written
                        /\ Pending(CellAt(x))' <=> OfCall(CellAt(x)) /\ CellAt(x).start = S /\ CellAt(x).number < C
      OBVIOUS
    <2>1. CellAt(x)' = CellAt(x) /\ CellAt(x) \in Cell
      BY <1>9, <1>10
    <2>2. x \in Live /\ IsChunk(x)
      BY <1>9, <1>11, <2>1 DEF IsChunk
    <2>3. CellAt(x).number \in Nat
      BY <2>1, <2>2, EntryFields DEF IsChunk
    <2>4. PICK s : s = CellAt(x).start
      OBVIOUS
    <2>5. PICK m \in Nat : m = CellAt(x).number
      BY <2>3
    <2>6. Awaiting(CellAt(x).start, CellAt(x).number)' <=> Awaiting(s, m)'
      BY <2>1, <2>4, <2>5 DEF Awaiting
    <2>7. Pending(CellAt(x))' <=> OfCall(CellAt(x))' /\ Awaiting(CellAt(x).start, CellAt(x).number)'
      BY <1>1 DEF Pending
    <2>8. OfCall(CellAt(x))' <=> OfCall(CellAt(x))
      BY <1>1, <2>1 DEF OfCall
    <2>9. Awaiting(s, m)' <=> s = S /\ m < C
      BY <1>14
    <2>10. Pending(CellAt(x)) <=> OfCall(CellAt(x)) /\ op.call = "put" /\ CellAt(x).start = l.start
                                  /\ CellAt(x).number < l.written
      BY <1>5, <1>14, <2>3 DEF Pending
    <2> QED BY <2>1, <2>2, <2>3, <2>4, <2>5, <2>6, <2>7, <2>8, <2>9, <2>10
  <1>16. KeysOnce'
    <2> SUFFICES ASSUME NEW x \in Live', NEW y \in Live', IsEntry(CellAt(x)'), IsEntry(CellAt(y)'),
                        SameKey(CellAt(x)', CellAt(y)')
                 PROVE  x = y
      BY DEF KeysOnce
    <2>1. x \in Live \cup N /\ y \in Live \cup N /\ CellAt(x)' = CellAt(x) /\ CellAt(y)' = CellAt(y) /\ (x # b \/ x \in N)
      BY <1>9, <1>10
    <2>2. OfCall(CellAt(x)) <=> OfCall(CellAt(y))
      BY <1>9, <1>10 DEF SameKey, OfCall
    <2>3. CASE OfCall(CellAt(x))
      <3>1. x \in N /\ y \in N
        BY <1>9, <1>10, <1>13, <2>2, <2>3
      <3> QED BY <1>8, <3>1
    <2>4. CASE ~OfCall(CellAt(x))
      <3>1. x \in Live /\ y \in Live
        BY <1>9, <1>11, <2>2, <2>4
      <3> QED BY <1>2, <1>10, <3>1 DEF KeysInv, KeysOnce
    <2> QED BY <2>3, <2>4
  <1>17. NamesOnce' /\ ChunkOnce'
    BY <1>2, <1>9, <1>10, <1>11 DEF KeysInv, NamesOnce, ChunkOnce, IsName, IsChunk
  <1>18. InNamed'
    <2>1. PICK w \in Live : IsName(w) /\ CellAt(w).index = l.ns
      BY <1>2, <1>5 DEF CallKnows, NameKnown
    <2> SUFFICES ASSUME NEW x \in Live', IsEntry(CellAt(x)')
                 PROVE  \E y \in Live' : IsName(y)' /\ CellAt(y)'.index = CellAt(x)'.ns
      BY DEF InNamed
    <2>2. \E y \in Live : IsName(y) /\ CellAt(y).index = CellAt(x).ns
      <3>1. CASE x \in N
        <4>1. CellAt(x).ns = l.ns
          BY <1>11, <3>1 DEF OfCall
        <4> QED BY <2>1, <4>1
      <3>2. CASE x \notin N
        BY <1>2, <1>9, <1>10, <3>2 DEF KeysInv, InNamed
      <3> QED BY <3>1, <3>2
    <2>3. PICK y \in Live : IsName(y) /\ CellAt(y).index = CellAt(x).ns
      BY <2>2
    <2>4. y \in Live' /\ IsName(y)' /\ CellAt(y)' = CellAt(y)
      BY <1>9, <1>10, <1>12, <2>3 DEF IsName
    <2> QED BY <1>9, <1>10, <2>3, <2>4
  <1>19. IndexHasChunks'
    <2> SUFFICES ASSUME NEW y \in Live', IsIndex(y)', NEW c \in 0 .. CellAt(y)'.count - 1
                 PROVE  \E x \in Live' : IsChunk(x)' /\ SameBlob(CellAt(x)', CellAt(y)') /\ CellAt(x)'.number = c
      BY DEF IndexHasChunks
    <2>1. y \in Live \cup N /\ CellAt(y)' = CellAt(y) /\ CellAt(y) \in Cell /\ IsIndex(y) /\ (y # b \/ y \in N)
      BY <1>9, <1>10 DEF IsIndex
    <2>2. \E x \in Live : IsChunk(x) /\ SameBlob(CellAt(x), CellAt(y)) /\ CellAt(x).number = c
      <3>1. CASE y \in N
        <4>1. CellAt(y) = NewIndex /\ op.call = "put" /\ CellAt(y)' = CellAt(y)
          BY <1>8, <1>10, <3>1
        <4>2. l.written \in Nat /\ l.start \in {0, 1}
          BY <1>1 DEF Locals
        <4>3. c \in Nat /\ c < l.written
          BY <4>1, <4>2 DEF NewIndex
        <4>4. Awaiting(l.start, c)
          BY <1>14, <4>1, <4>3
        <4>5. PICK x \in Live : IsChunk(x) /\ OfCall(CellAt(x)) /\ CellAt(x).start = l.start /\ CellAt(x).number = c
          BY <1>2, <1>5, <4>1, <4>2, <4>3, <4>4 DEF ChunkInv, PendingThere
        <4>6. SameBlob(CellAt(x), CellAt(y))
          BY <4>1, <4>3, <4>5 DEF SameBlob, OfCall, NewIndex
        <4> QED BY <4>5, <4>6
      <3>2. CASE y \notin N
        BY <1>2, <1>9, <1>10, <3>2 DEF KeysInv, IndexHasChunks, IsIndex
      <3> QED BY <3>1, <3>2
    <2>3. PICK x \in Live : IsChunk(x) /\ SameBlob(CellAt(x), CellAt(y)) /\ CellAt(x).number = c
      BY <2>2
    <2>4. x \in Live' /\ IsChunk(x)' /\ CellAt(x)' = CellAt(x) /\ CellAt(y)' = CellAt(y)
      BY <1>9, <1>10, <1>12, <2>3 DEF IsChunk
    <2> QED BY <2>3, <2>4
  <1>20. ChunkHasIndex'
    <2> SUFFICES ASSUME NEW x \in Live', IsChunk(x)'
                 PROVE  IF Pending(CellAt(x))' THEN \A y \in Live' : IsIndex(y)' => ~SameBlob(CellAt(x)', CellAt(y)')
                        ELSE \E y \in Live' : IsIndex(y)' /\ SameBlob(CellAt(x)', CellAt(y)')
      BY DEF ChunkHasIndex
    <2>1. /\ x \in Live /\ IsChunk(x) /\ CellAt(x)' = CellAt(x) /\ CellAt(x).number \in Nat
          /\ Pending(CellAt(x)) <=> OfCall(CellAt(x)) /\ op.call = "put" /\ CellAt(x).start = l.start
                                      /\ CellAt(x).number < l.written
          /\ Pending(CellAt(x))' <=> OfCall(CellAt(x)) /\ CellAt(x).start = S /\ CellAt(x).number < C
      BY <1>15
    <2>2. CASE Pending(CellAt(x))
      <3>1. PICK y : y \in N
        BY <1>8, <2>1, <2>2
      <3>2. CellAt(y) = NewIndex /\ y \in Live' /\ IsIndex(y) /\ CellAt(y)' = CellAt(y)
        BY <1>8, <1>9, <1>10, <1>11, <3>1
      <3>3. SameBlob(CellAt(x), CellAt(y))
        BY <2>1, <2>2, <3>2 DEF SameBlob, OfCall, NewIndex
      <3>4. ~Pending(CellAt(x))'
        BY <1>6, <1>8, <2>1, <2>2
      <3> QED BY <2>1, <3>2, <3>3, <3>4 DEF IsIndex
    <2>3. CASE ~Pending(CellAt(x))
      <3>1. PICK z \in Live : IsIndex(z) /\ SameBlob(CellAt(x), CellAt(z))
        BY <1>2, <2>1, <2>3 DEF ChunkInv, ChunkHasIndex
      <3>2. CASE z = b
        <4>1. Pending(CellAt(x))'
          BY <1>6, <2>1, <3>1, <3>2 DEF SameBlob, OfCall
        <4> SUFFICES ASSUME NEW y \in Live', IsIndex(y)', SameBlob(CellAt(x)', CellAt(y)') PROVE FALSE
          BY <4>1
        <4>2. CellAt(y)' = CellAt(y) /\ IsIndex(y) /\ SameBlob(CellAt(x), CellAt(y))
          BY <1>9, <1>10, <2>1 DEF IsIndex
        <4>3. CASE y \in N
          <5>1. CellAt(x).start = l.start /\ op.call = "put"
            BY <1>8, <3>2, <4>2, <4>3 DEF SameBlob, NewIndex
          <5> QED BY <1>6, <1>8, <3>1, <3>2, <5>1 DEF SameBlob
        <4>4. CASE y \notin N
          <5>1. y \in Live /\ y # b
            BY <1>9, <4>4
          <5>2. IsEntry(CellAt(y)) /\ OfCall(CellAt(y))
            BY <2>1, <4>1, <4>2 DEF IsEntry, IsIndex, SameBlob, OfCall
          <5> QED BY <1>13, <5>1, <5>2
        <4> QED BY <4>3, <4>4
      <3>3. CASE z # b
        <4>1. z \in Live' /\ IsIndex(z)' /\ CellAt(z)' = CellAt(z)
          BY <1>9, <1>10, <3>1, <3>3 DEF IsIndex
        <4>2. ~OfCall(CellAt(x))
          BY <1>13, <3>1, <3>3 DEF SameBlob, OfCall, IsEntry, IsIndex
        <4> QED BY <2>1, <3>1, <4>1, <4>2
      <3> QED BY <3>2, <3>3
    <2> QED BY <2>2, <2>3
  <1>21. PendingThere'
    <2> SUFFICES ASSUME NEW start \in {0, 1}, NEW number \in Nat, Awaiting(start, number)'
                 PROVE  \E x \in Live' : IsChunk(x)' /\ OfCall(CellAt(x))' /\ CellAt(x)'.start = start /\ CellAt(x)'.number = number
      BY DEF PendingThere
    <2>1. start = S /\ number < C
      BY <1>14
    <2>2. IsIndex(b) /\ S = CellAt(b).start /\ number \in 0 .. CellAt(b).count - 1
      BY <1>6, <2>1
    <2>3. PICK x \in Live : IsChunk(x) /\ SameBlob(CellAt(x), CellAt(b)) /\ CellAt(x).number = number
      BY <1>2, <1>6, <2>2 DEF KeysInv, IndexHasChunks
    <2>4. x \in Live' /\ CellAt(x)' = CellAt(x) /\ OfCall(CellAt(x))
      BY <1>6, <1>9, <1>10, <1>12, <2>3 DEF SameBlob, OfCall
    <2> QED BY <1>1, <2>1, <2>2, <2>3, <2>4 DEF IsChunk, OfCall, SameBlob
  <1> QED BY <1>1, <1>16, <1>17, <1>18, <1>19, <1>20, <1>21 DEF StoreInv, KeysInv, ChunkInv, CallKnows

\* Every erasing step keeps the store in order.
LEMMA EraseMarkStore ==
  ASSUME FlashTypeOK, CallState, Pages, FlashInv, HandInv, StoreInv, EraseMark
  PROVE  StoreInv'
  <1>1. l.k \in Nat
    BY DEF CallState, Locals
  <1>2. CASE l.k > 0
    BY <1>2, DataEraseStore
  <1>3. CASE l.k = 0
    BY <1>3, ChunkEraseStore, RetireEraseStore
  <1> QED BY <1>1, <1>2, <1>3

----------------------------------------------------------------------------
(***************************************************************************)
(* The data of the chunk being written, and the steps that move entries.   *)
(***************************************************************************)
\* The data slots programmed so far hold the value the put was given.
LEMMA DataWriteHolds ==
  ASSUME FlashTypeOK, CallState, Pages, EmptyBlank, FlashInv, HandInv, DataInHand, DataWrite
  PROVE  DataInHand'
  <1> DEFINE p == l.at[1]
             e == l.at[2] + 1 + l.k
             c == Data(op.value, l.offset + l.k)
  <1>1. /\ pc = "data" /\ pc' = "datamark" /\ UNCHANGED <<hdr, bits, l, op>> /\ ProgramCell(p, e, c)
    BY DEF DataWrite, Goto, Keep
  <1>2. EntryInHand /\ Writing
    BY <1>1 DEF HandInv, Writing
  <1>3. p \in Page /\ l.at[2] \in Nat /\ l.k \in Nat /\ e \in Slot /\ bits[p][e] = "empty" /\ Slots \in Nat
    BY <1>1, <1>2, EntrySlots, NextDataSlot
  <1>4. cell[p][e] = Blank
    BY <1>1, <1>3 DEF EmptyBlank, InHand
  <1>5. cell'[p][e] = c /\ \A t \in Slot : t # e => cell'[p][t] = cell[p][t]
    BY <1>1, <1>3, <1>4, ProgramEffect
  <1> SUFFICES ASSUME l.want = "chunk", NEW i \in 0 .. l.k
               PROVE  cell'[p][l.at[2] + 1 + i] = Data(op.value, l.offset + i)
    BY <1>1 DEF DataInHand
  <1>6. CASE i = l.k
    BY <1>5, <1>6
  <1>7. CASE i # l.k
    <2>1. i \in 0 .. l.k - 1
      BY <1>3, <1>7
    <2>2. cell[p][l.at[2] + 1 + i] = Data(op.value, l.offset + i)
      BY <1>1, <1>2, <2>1 DEF DataInHand
    <2>3. l.at[2] + 1 + i \in Slot /\ l.at[2] + 1 + i # e
      BY <1>3, <2>1 DEF Slot
    <2> QED BY <1>5, <2>2, <2>3
  <1> QED BY <1>6, <1>7

\* The entry goes to the slot before them.
LEMMA EntryWriteHolds ==
  ASSUME FlashTypeOK, CallState, Pages, HandInv, DataInHand, EntryWrite
  PROVE  DataInHand'
  <1> DEFINE p == l.at[1]
             e == l.at[2]
  <1>1. /\ pc = "entry" /\ pc' = "entrymark" /\ UNCHANGED <<hdr, bits, l, op>> /\ ProgramCell(p, e, EntryCell)
    BY DEF EntryWrite, Goto, Keep
  <1>2. EntryInHand /\ Writing
    BY <1>1 DEF HandInv, Writing
  <1>3. p \in Page /\ e \in Nat /\ l.k \in Nat /\ e \in Slot /\ Slots \in Nat /\ e + l.k < Slots
    BY <1>1, <1>2, EntrySlots DEF EntryInHand
  <1>4. \A t \in Slot : t # e => cell'[p][t] = cell[p][t]
    BY <1>1, <1>3, ProgramEffect
  <1> SUFFICES ASSUME l.want = "chunk", NEW i \in 0 .. l.k - 1
               PROVE  cell'[p][e + 1 + i] = Data(op.value, l.offset + i)
    BY <1>1 DEF DataInHand
  <1>5. cell[p][e + 1 + i] = Data(op.value, l.offset + i)
    BY <1>1, <1>2 DEF DataInHand
  <1>6. e + 1 + i \in Slot /\ e + 1 + i # e
    BY <1>3 DEF Slot
  <1> QED BY <1>4, <1>5, <1>6

\* Marking them changes none, and where room is found there is none yet.
LEMMA WriterHolds ==
  ASSUME FlashTypeOK, CallState, Pages, EmptyBlank, FlashInv, HandInv, DataInHand, Writer
  PROVE  DataInHand'
  <1>0. l \in Locals /\ l.k \in Nat
    BY DEF CallState, Locals
  <1>1. CASE DataWrite
    BY <1>1, DataWriteHolds
  <1>2. CASE EntryWrite
    BY <1>2, EntryWriteHolds
  <1>3. CASE DataMark
    <2>1. /\ pc = "datamark" /\ pc' \in {"data", "entry"} /\ UNCHANGED <<cell, op>> /\ l' = [l EXCEPT !.k = l.k + 1]
      BY <1>3 DEF DataMark, Goto, Keep
    <2>2. l'.k = l.k + 1 /\ l'.at = l.at /\ l'.want = l.want /\ l'.offset = l.offset
      BY <1>0, <2>1 DEF Locals
    <2> SUFFICES ASSUME l.want = "chunk", NEW i \in 0 .. l'.k - 1
                 PROVE  cell'[l'.at[1]][l'.at[2] + 1 + i] = Data(op'.value, l'.offset + i)
      BY <2>1, <2>2 DEF DataInHand
    <2>3. i \in 0 .. l.k
      BY <1>0, <2>2
    <2>4. cell[l.at[1]][l.at[2] + 1 + i] = Data(op.value, l.offset + i)
      BY <2>1, <2>3 DEF DataInHand, Writing
    <2> QED BY <2>1, <2>2, <2>4 DEF Data
  <1>4. ASSUME NEW p, Deliver(p) PROVE DataInHand'
    <2>1. pc' \in {"data", "entry"} /\ l'.k = 0
      BY <1>0, <1>4 DEF Deliver, Goto, Locals
    <2> QED BY <2>1 DEF DataInHand
  <1>5. CASE PageWithRoom
    BY <1>4, <1>5 DEF PageWithRoom, Goto, DataInHand, Writing
  <1>6. CASE CheckRoom
    BY <1>4, <1>6 DEF CheckRoom, Goto, DataInHand, Writing
  <1>7. ASSUME NEW e, Fail(e) PROVE pc' \in {"sweep", "idle"}
    BY <1>7 DEF Fail, Answer, Goto
  <1>8. CASE PutBegin \/ PutFindOld \/ RemoveBegin
    BY <1>8 DEF PutBegin, PutFindOld, RemoveBegin, Retire, Answer, Goto, DataInHand, Writing
  <1>9. CASE ActivatePage \/ StartErase \/ StartHeader \/ ChunkLoop \/ Scrub
    BY <1>7, <1>9 DEF ActivatePage, Compact, StartErase, StartHeader, ChunkLoop, Scrub, Answer, Goto, DataInHand, Writing
  <1>10. CASE CopyCell \/ CopyMark \/ CopyDone \/ Reclaim
    BY <1>10 DEF CopyCell, CopyMark, CopyDone, Reclaim, Goto, DataInHand, Writing
  <1>11. CASE EntryMark \/ Fill \/ EraseMark \/ Sweep
    BY <1>11 DEF EntryMark, Retire, Fill, EraseMark, Sweep, Answer, Goto, DataInHand, Writing
  <1> QED BY <1>1, <1>2, <1>3, <1>5, <1>6, <1>8, <1>9, <1>10, <1>11 DEF Writer

\* The victim goes, and each of its entries counts where it was copied to.
LEMMA ReclaimMoves ==
  ASSUME FlashTypeOK, CallState, Pages, HandInv, CopyMap, Reclaim
  PROVE  StoreKept /\ l.old.status # "found" /\ Steady /\ CopyMap'
  <1>1. /\ pc = "reclaim" /\ pc' = (IF op.call = "scrub" THEN "scrub" ELSE "check") /\ l' = l /\ op' = op
        /\ l.victim \in Page /\ ErasePage(l.victim)
    BY DEF Reclaim, Goto, Keep, Pages, Reserved, CompactPoints
  <1>2. PICK v, t : v = l.victim /\ t = l.target
    OBVIOUS
  <1>3. v # t /\ v \in DataPages /\ t \in DataPages /\ v \in Page /\ t \in Page
    <2>1. l.target \in ActivePages /\ l.victim \in Page /\ hdr[l.victim].state = "full"
      BY <1>1 DEF Pages, Reserved, CompactPoints
    <2> QED BY <1>2, <2>1 DEF ActivePages, DataPages
  <1>4. /\ DataPages' = DataPages \ {v}
        /\ \A q \in Page : q # v => bits'[q] = bits[q] /\ cell'[q] = cell[q]
    BY <1>1, <1>2, EraseEffect
  <1>5. Live = {x \in Standing : x[1] # t}
    BY <1>1, <1>2 DEF Live, CompactPoints, Replacing, Retiring
  <1>6. Live' = {x \in Standing : x[1] # v}
    <2>1. Live' = Standing'
      BY <1>1 DEF Live, CompactPoints, Replacing, Retiring
    <2>2. \A x \in Place : x[1] \in Page
      BY DEF Place
    <2> QED BY <1>4, <2>1, <2>2 DEF Standing, WrittenHeader
  <1>7. l.old.status # "found"
    BY <1>1 DEF HandInv, OldInPlace, CompactPoints
  <1>8. CopyMap'
    BY <1>1 DEF CopyMap, CompactPoints
  <1>9. Steady
    BY <1>1 DEF Steady, SameProgress, NamePoint, NamingPoint, OldPoint, ClosingPoint, Retiring, MorePoints, IndexPoints,
       CompactPoints
  <1>10. StoreKept
    <2>1. PICK f \in [Copied -> Copies] :
            /\ \A s \in Copied : SameCopy(s, f[s]) /\ f[s] <= s
            /\ \A s, u \in Copied : f[s] = f[u] => s = u
            /\ \A u \in Copies : \E s \in Copied : f[s] = u
      BY <1>1 DEF CopyMap, CompactPoints
    <2>2. Copied = {s \in Slot : WrittenHeader(v, s)} /\ Copies = {u \in Slot : WrittenHeader(t, u)}
      BY <1>1, <1>2 DEF Copied, Copies, CopyingCell
    <2>3. \A s \in Copied : /\ f[s] \in Nat /\ s \in Nat
                            /\ f[s] <= s
                            /\ \A i \in 0 .. SpanOf(cell[v][s]) - 1 : cell[t][f[s] + i] = cell[v][s + i]
      BY <1>2, <2>1, <2>2, SlotsAreNat DEF SlotNat, SameCopy
    <2> DEFINE Origin(y) == IF y[1] = t THEN <<v, CHOOSE s \in Copied : f[s] = y[2]>> ELSE y
               m == [y \in Live' |-> Origin(y)]
    <2>0. \A y \in Live' : (y[1] # t => m[y] = y) /\ (y[1] = t => m[y] = <<v, CHOOSE s \in Copied : f[s] = y[2]>>)
      OBVIOUS
    <2> HIDE DEF m
    <2>4. ASSUME NEW y \in Live'
          PROVE  /\ m[y] \in Live /\ y \in Place
                 /\ y[1] # t => m[y] = y
                 /\ y[1] = t => \E s \in Copied : m[y] = <<v, s>> /\ f[s] = y[2]
      <3>1. y \in Place /\ y[1] \in DataPages /\ WrittenHeader(y[1], y[2]) /\ y[1] # v /\ y \in Standing /\ y[2] \in Slot
        BY <1>6 DEF Standing, Place
      <3>2. CASE y[1] # t
        BY <1>5, <2>0, <3>1, <3>2
      <3>3. CASE y[1] = t
        <4>1. \E s \in Copied : f[s] = y[2]
          BY <2>1, <2>2, <3>1, <3>3
        <4>2. PICK s : s \in Copied /\ f[s] = y[2] /\ m[y] = <<v, s>>
          BY <2>0, <3>3, <4>1
        <4>3. <<v, s>> \in Place
          BY <1>3, <2>2, <4>2 DEF Place
        <4>4. <<v, s>> \in Standing
          BY <1>3, <2>2, <4>2, <4>3 DEF Standing
        <4> QED BY <1>3, <1>5, <3>1, <3>3, <4>2, <4>4
      <3> QED BY <3>2, <3>3
    <2>5. m \in [Live' -> Live]
      <3>1. m = [y \in Live' |-> m[y]]
        BY DEF m
      <3> QED BY <2>4, <3>1
    <2>6. ASSUME NEW y \in Live' PROVE SameRecord(m[y], y)
      <3>1. y \in Place /\ y[1] # v /\ y[1] \in Page /\ y[2] \in Nat
        BY <1>6, <2>4, SlotsAreNat DEF Place, SlotNat
      <3>2. cell'[y[1]] = cell[y[1]]
        BY <1>4, <3>1
      <3>3. CASE y[1] # t
        BY <2>4, <3>1, <3>2, <3>3 DEF SameRecord
      <3>4. CASE y[1] = t
        <4>1. PICK s \in Copied : m[y] = <<v, s>> /\ f[s] = y[2]
          BY <2>4, <3>4
        <4>2. CellAt(m[y]) = cell[v][s] /\ m[y][1] = v /\ m[y][2] = s
          BY <4>1 DEF CellAt
        <4>3. f[s] <= s /\ \A i \in 0 .. SpanOf(cell[v][s]) - 1 : cell[t][f[s] + i] = cell[v][s + i]
          BY <2>3, <4>1
        <4> QED BY <3>2, <3>4, <4>1, <4>2, <4>3 DEF SameRecord
      <3> QED BY <3>3, <3>4
    <2>7. ASSUME NEW y \in Live', NEW z \in Live', m[y] = m[z] PROVE y = z
      <3>1. y[1] # v /\ z[1] # v
        BY <1>6
      <3>2. CASE y[1] = t /\ z[1] = t
        <4>1. PICK s \in Copied : m[y] = <<v, s>> /\ f[s] = y[2]
          BY <2>4, <3>2
        <4>2. PICK u \in Copied : m[z] = <<v, u>> /\ f[u] = z[2]
          BY <2>4, <3>2
        <4>3. s = u
          <5>1. <<v, s>> = <<v, u>>
            BY <2>7, <4>1, <4>2
          <5> QED BY <5>1
        <4>4. y = <<y[1], y[2]>> /\ z = <<z[1], z[2]>>
          BY <2>4 DEF Place
        <4> QED BY <3>2, <4>1, <4>2, <4>3, <4>4
      <3>3. CASE y[1] # t /\ z[1] # t
        BY <2>4, <2>7, <3>3
      <3>4. CASE y[1] = t /\ z[1] # t
        <4>1. m[y][1] = v /\ m[z] = z
          BY <2>4, <3>4
        <4> QED BY <2>7, <3>1, <4>1
      <3>5. CASE y[1] # t /\ z[1] = t
        <4>1. m[z][1] = v /\ m[y] = y
          BY <2>4, <3>5
        <4> QED BY <2>7, <3>1, <4>1
      <3> QED BY <3>2, <3>3, <3>4, <3>5
    <2>8. ASSUME NEW x \in Live PROVE \E y \in Live' : m[y] = x
      <3>1. x \in Standing /\ x[1] # t /\ x \in Place /\ x[1] \in DataPages /\ WrittenHeader(x[1], x[2]) /\ x[2] \in Slot
        BY <1>5 DEF Standing, Place
      <3>2. CASE x[1] # v
        <4>1. x \in Live'
          BY <1>6, <3>1, <3>2
        <4> QED BY <2>4, <3>1, <4>1
      <3>3. CASE x[1] = v
        <4>1. x[2] \in Copied /\ x = <<v, x[2]>>
          BY <2>2, <3>1, <3>3 DEF Place
        <4>2. PICK y : y = <<t, f[x[2]]>>
          OBVIOUS
        <4>3. f[x[2]] \in Slot /\ WrittenHeader(t, f[x[2]])
          BY <2>2, <4>1
        <4>4. y \in Standing /\ y[1] = t /\ y[2] = f[x[2]]
          BY <1>3, <4>2, <4>3 DEF Standing, Place
        <4>5. y \in Live'
          BY <1>3, <1>6, <4>4
        <4>6. PICK s \in Copied : m[y] = <<v, s>> /\ f[s] = y[2]
          BY <2>4, <4>4, <4>5
        <4>7. s = x[2]
          BY <2>1, <4>1, <4>4, <4>6
        <4> QED BY <4>1, <4>5, <4>6, <4>7
      <3> QED BY <3>2, <3>3
    <2> QED BY <2>5, <2>6, <2>7, <2>8 DEF StoreKept
  <1> QED BY <1>7, <1>8, <1>9, <1>10

\* Every step of the writer keeps the store in order.
LEMMA WriterStore ==
  ASSUME IInv, CleanInv, TidyInv, StoreInv, DataInHand, Writer
  PROVE  StoreInv'
  <1>1. FlashTypeOK /\ CallState /\ Pages /\ EmptyBlank /\ FlashInv /\ HandInv /\ l \in Locals
    BY DEF IInv, CallState, CleanInv, TidyInv
  <1>2. AllWhole /\ FreeEmpty /\ CopyInHand /\ CopyMap
    BY <1>1 DEF FlashInv, HandInv, StoreInv
  <1>3. CASE Quiet /\ CopyMap'
    BY <1>1, <1>2, <1>3, QuietStore
  <1>4. CASE PutBegin \/ PutFindOld \/ RemoveBegin
    BY <1>1, <1>4, PutBeginStore, PutFindOldStore, RemoveBeginStore
  <1>5. CASE PageWithRoom \/ CheckRoom \/ StartErase \/ StartHeader
    BY <1>1, <1>2, <1>3, <1>5, PageWithRoomQuiet, CheckRoomQuiet, StartEraseQuiet, StartHeaderQuiet
  <1>6. CASE ActivatePage \/ ChunkLoop \/ Scrub
    BY <1>1, <1>2, <1>6, ActivatePageStore, ChunkLoopStore, ScrubStore
  <1>7. CASE CopyCell \/ CopyMark \/ CopyDone
    BY <1>1, <1>2, <1>3, <1>7, CopyCellQuiet, CopyMarkQuiet, CopyDoneQuiet
  <1>8. CASE Reclaim
    BY <1>1, <1>2, <1>8, ReclaimMoves, SteadyStore
  <1>9. CASE DataWrite \/ DataMark \/ EntryWrite \/ Fill
    BY <1>1, <1>3, <1>9, DataWriteQuiet, DataMarkQuiet, EntryWriteQuiet, FillQuiet
  <1>10. CASE EntryMark \/ EraseMark
    BY <1>1, <1>10, EntryMarkStore, EraseMarkStore
  <1>11. CASE Sweep
    BY <1>1, <1>11, SweepStore
  <1> QED BY <1>4, <1>5, <1>6, <1>7, <1>8, <1>9, <1>10, <1>11 DEF Writer

----------------------------------------------------------------------------
(***************************************************************************)
(* The store stays in order.                                               *)
(***************************************************************************)
IdlePoint == pc = "idle" /\ l = NoLocals

\* Between calls everything counts and nothing waits.
LEMMA IdleLive ==
  ASSUME FlashTypeOK, AllWhole, IdlePoint
  PROVE  Live = Standing /\ \A x \in Live : IsChunk(x) => ~Pending(CellAt(x))
  <1>1. pc = "idle" /\ l = NoLocals /\ ~Retiring /\ ~Replacing /\ ~Sweeping /\ pc \notin CompactPoints /\ l.written = 0
    BY DEF IdlePoint, Retiring, Replacing, Sweeping, CompactPoints, NoLocals
  <1>2. Live = Standing
    BY <1>1 DEF Live
  <1>3. ASSUME NEW x \in Live, IsChunk(x) PROVE ~Pending(CellAt(x))
    <2>1. CellAt(x).number \in Nat
      BY <1>3, LiveFacts, EntryFields DEF IsChunk
    <2> QED BY <1>1, <2>1 DEF Pending, Awaiting
  <1> QED BY <1>2, <1>3

\* The places of a partition are finitely many.
LEMMA FinitePlaces ==
  ASSUME NEW S \in SUBSET Standing
  PROVE  IsFiniteSet(S)
  <1>1. IsFiniteSet(Page) /\ IsFiniteSet(Slot)
    BY FormatAssumption, FS_Interval DEF Page, Slot
  <1>2. IsFiniteSet(Page \X Slot)
    BY <1>1, FS_Product
  <1>3. S \subseteq Page \X Slot
    BY DEF Standing, Place
  <1> QED BY <1>2, <1>3, FS_Subset

\* Between calls, what the store invariant says of what counts is what the two properties say.
LEMMA IdleChunks ==
  ASSUME FlashTypeOK, AllWhole, IdlePoint, Headers(bits) = Standing
  PROVE  /\ KeysOnce /\ ChunkOnce /\ IndexHasChunks /\ ChunkHasIndex => ChunksOwned
         /\ ChunksOwned => ChunkOnce /\ IndexHasChunks /\ ChunkHasIndex
         /\ OneEntryEach <=> KeysOnce /\ NamesOnce /\ InNamed
  <1>1. pc = "idle" /\ Live = Standing /\ \A x \in Live : IsChunk(x) => ~Pending(CellAt(x))
    BY IdleLive DEF IdlePoint
  <1>2. PICK chunks, indices : /\ chunks = {x \in Live : IsChunk(x)}
                               /\ indices = {x \in Live : IsIndex(x)}
    OBVIOUS
  <1>3. ChunksOwned <=>
          /\ \A x \in chunks : Cardinality({y \in indices : SameBlob(CellAt(x), CellAt(y))}) = 1
          /\ \A y \in indices : \A c \in 0 .. CellAt(y).count - 1 :
               Cardinality({x \in chunks : SameBlob(CellAt(x), CellAt(y)) /\ CellAt(x).number = c}) = 1
    BY <1>1, <1>2 DEF ChunksOwned, IsChunk, IsIndex
  <1>4. \A x \in Live : IsChunk(x) => CellAt(x).number \in Nat
    BY LiveFacts, EntryFields DEF IsChunk
  <1>5. \A y \in Live : IsIndex(y) => CellAt(y).count \in Nat
    BY LiveFacts, EntryFields DEF IsIndex
  <1>6. ASSUME KeysOnce, ChunkOnce, IndexHasChunks, ChunkHasIndex PROVE ChunksOwned
    <2>1. ASSUME NEW x \in chunks PROVE Cardinality({y \in indices : SameBlob(CellAt(x), CellAt(y))}) = 1
      <3>1. PICK z \in Live : IsIndex(z) /\ SameBlob(CellAt(x), CellAt(z))
        BY <1>1, <1>2, <1>6, <2>1 DEF ChunkHasIndex
      <3>2. \A y \in indices : SameBlob(CellAt(x), CellAt(y)) => y = z
        BY <1>2, <1>6, <3>1 DEF KeysOnce, SameBlob, SameKey, IsEntry, IsIndex
      <3>3. {y \in indices : SameBlob(CellAt(x), CellAt(y))} = {z}
        BY <1>2, <3>1, <3>2
      <3> QED BY <3>3, FS_Singleton
    <2>2. ASSUME NEW y \in indices, NEW c \in 0 .. CellAt(y).count - 1
          PROVE  Cardinality({x \in chunks : SameBlob(CellAt(x), CellAt(y)) /\ CellAt(x).number = c}) = 1
      <3>1. PICK z \in Live : IsChunk(z) /\ SameBlob(CellAt(z), CellAt(y)) /\ CellAt(z).number = c
        BY <1>2, <1>6, <2>2 DEF IndexHasChunks
      <3>2. \A x \in chunks : SameBlob(CellAt(x), CellAt(y)) /\ CellAt(x).number = c => x = z
        BY <1>2, <1>6, <3>1 DEF ChunkOnce, SameBlob, SameChunk, SameKey
      <3>3. {x \in chunks : SameBlob(CellAt(x), CellAt(y)) /\ CellAt(x).number = c} = {z}
        BY <1>2, <3>1, <3>2
      <3> QED BY <3>3, FS_Singleton
    <2> QED BY <1>3, <2>1, <2>2
  <1>7. ASSUME ChunksOwned PROVE ChunkOnce /\ IndexHasChunks /\ ChunkHasIndex
    <2>1. ASSUME NEW x \in Live, IsChunk(x) PROVE \E y \in Live : IsIndex(y) /\ SameBlob(CellAt(x), CellAt(y))
      <3>1. Cardinality({y \in indices : SameBlob(CellAt(x), CellAt(y))}) = 1
        BY <1>2, <1>3, <1>7, <2>1
      <3>2. {y \in indices : SameBlob(CellAt(x), CellAt(y))} # {}
        BY <3>1, FS_EmptySet
      <3> QED BY <1>2, <3>2
    <2>2. ASSUME NEW y \in Live, IsIndex(y), NEW c \in 0 .. CellAt(y).count - 1
          PROVE  \E x \in Live : IsChunk(x) /\ SameBlob(CellAt(x), CellAt(y)) /\ CellAt(x).number = c
                                 /\ \A z \in Live : /\ IsChunk(z) /\ SameBlob(CellAt(z), CellAt(y)) /\ CellAt(z).number = c
                                                    => z = x
      <3> DEFINE S == {x \in chunks : SameBlob(CellAt(x), CellAt(y)) /\ CellAt(x).number = c}
      <3>1. Cardinality(S) = 1
        BY <1>2, <1>3, <1>7, <2>2
      <3>2. S \in SUBSET Standing
        BY <1>1, <1>2
      <3>3. S = {x \in Live : IsChunk(x) /\ SameBlob(CellAt(x), CellAt(y)) /\ CellAt(x).number = c}
        BY <1>2
      <3> HIDE DEF S
      <3>4. \E x : S = {x}
        BY <3>1, <3>2, FinitePlaces, FS_Singleton
      <3> QED BY <3>3, <3>4
    <2>3. ChunkOnce
      <3> SUFFICES ASSUME NEW x \in Live, NEW z \in Live, IsChunk(x), IsChunk(z), SameChunk(CellAt(x), CellAt(z)) PROVE x = z
        BY DEF ChunkOnce
      <3>1. PICK y \in Live : IsIndex(y) /\ SameBlob(CellAt(x), CellAt(y))
        BY <2>1
      <3>2. PICK c : c = CellAt(x).number
        OBVIOUS
      <3>3. c \in 0 .. CellAt(y).count - 1
        BY <1>4, <1>5, <3>1, <3>2 DEF SameBlob
      <3>4. SameBlob(CellAt(z), CellAt(y)) /\ CellAt(z).number = c
        BY <3>1, <3>2 DEF SameBlob, SameChunk, SameKey
      <3> QED BY <2>2, <3>1, <3>2, <3>3, <3>4
    <2> QED BY <1>1, <2>1, <2>2, <2>3 DEF IndexHasChunks, ChunkHasIndex
  <1>8. OneEntryEach <=> KeysOnce /\ NamesOnce /\ InNamed
    BY <1>1 DEF OneEntryEach, KeysOnce, NamesOnce, InNamed, IsName
  <1> QED BY <1>6, <1>7, <1>8

\* A store in order is one the invariant holds of.
LEMMA InitStore ==
  ASSUME Init, IInv, TidyInv, OneEntryEach, ChunksOwned
  PROVE  StoreInv /\ DataInHand
  <1>1. /\ pc = "idle" /\ l = NoLocals /\ op = [call |-> "scrub"] /\ FlashTypeOK /\ CallState /\ Pages /\ FlashInv /\ HandInv
    BY DEF Init, IInv, TidyInv
  <1>2. AllWhole /\ IdlePoint
    BY <1>1 DEF FlashInv, IdlePoint
  <1>3. HeadErased /\ SettledBits = bits
    BY <1>1 DEF HeadErased, SettledBits
  <1>4. Headers(bits) = Standing
    BY <1>1, <1>3, SeesStanding
  <1>5. KeysInv /\ ChunkHasIndex
    BY <1>1, <1>2, <1>4, IdleChunks DEF KeysInv
  <1>6. ~Retiring /\ ~Replacing /\ ~Sweeping /\ ~Building /\ op.call = "scrub" /\ l.outcome = "open"
    BY <1>1 DEF Retiring, Replacing, Sweeping, Building, NoLocals
  <1>7. PendingThere /\ Built /\ Waiting /\ RetiringInHand
    BY <1>6 DEF PendingThere, Built, Waiting, RetiringInHand
  <1>8. ~NamePoint /\ ~OldPoint /\ NameNew
    BY <1>1, <1>6 DEF NamePoint, OldPoint, NameNew
  <1>9. NameKnown /\ OldKnown /\ SweptInHand /\ Opened /\ CopyMap /\ DataInHand
    BY <1>1, <1>6, <1>8 DEF NameKnown, OldKnown, SweptInHand, Opened, CopyMap, CompactPoints, DataInHand, Writing
  <1> QED BY <1>3, <1>5, <1>7, <1>8, <1>9 DEF StoreInv, ChunkInv, CallKnows

\* A step that changes nothing.
LEMMA StutterStore ==
  ASSUME FlashTypeOK, CallState, AllWhole, StoreInv, DataInHand, UNCHANGED vars
  PROVE  StoreInv' /\ Settled /\ DataInHand'
  <1>1. UNCHANGED <<hdr, bits, cell, pc, op, l>>
    BY DEF vars
  <1>2. Standing' = Standing
    BY <1>1 DEF Standing, DataPages, WrittenHeader
  <1>3. Live' = Live
    BY <1>1, <1>2 DEF Live, Replacing, Retiring, OfCall, IsEntry, CellAt
  <1>4. Settled
    <2>1. \A x \in Live : x[2] \in Nat
      BY SlotsAreNat DEF Live, Standing, Place, SlotNat
    <2> QED BY <1>1, <1>3, <2>1 DEF Settled, SameRecord
  <1>5. /\ Building' = Building /\ Sweeping' = Sweeping /\ Retiring' = Retiring /\ Replacing' = Replacing
        /\ NextSwept' = NextSwept
    BY <1>1 DEF Building, Sweeping, Retiring, Replacing, NextSwept
  <1>6. SamePending
    BY <1>1, <1>5 DEF SamePending, Wanted, Awaiting
  <1>7. KeysInv' /\ ChunkInv'
    BY <1>4, <1>6, StoreStays, KeepsKeys, KeepsChunks DEF Settled, StoreInv
  <1>8. NamePoint' = NamePoint /\ OldPoint' = OldPoint
    BY <1>1, <1>5 DEF NamePoint, OldPoint
  <1>9. NameKnown' /\ NameNew' /\ OldKnown'
    BY <1>1, <1>3, <1>8 DEF StoreInv, CallKnows, NameKnown, NameNew, OldKnown, OfCall, IsName, IsEntry, CellAt
  <1>10. RetiringInHand' /\ SweptInHand' /\ HeadErased' /\ Opened'
    BY <1>1, <1>3, <1>5 DEF StoreInv, CallKnows, RetiringInHand, SweptInHand, HeadErased, Opened, OfCall, IsIndex, IsChunk,
       IsEntry, CellAt
  <1>11. Waiting'
    BY <1>1, <1>2, <1>3, <1>5 DEF StoreInv, CallKnows, Waiting, NewIndex, Before, Older, IsIndex, CellAt
  <1>12. CopyMap'
    <2>1. Copied' = Copied /\ Copies' = Copies
      BY <1>1 DEF Copied, Copies, CopyingCell, WrittenHeader
    <2>2. \A s, t : SameCopy(s, t)' = SameCopy(s, t)
      BY <1>1 DEF SameCopy
    <2> QED BY <1>1, <2>1, <2>2 DEF StoreInv, CopyMap
  <1>13. Built'
    <2>1. \A x : CellAt(x)' = CellAt(x) /\ IntactChunk(x)' = IntactChunk(x) /\ IsChunk(x)' = IsChunk(x)
      BY <1>1 DEF IntactChunk, DataIntact, IsChunk, CellAt
    <2>2. \A x : Pending(CellAt(x))' = Pending(CellAt(x))
      BY <1>1, <1>5 DEF Pending, OfCall, Awaiting, CellAt
    <2> QED BY <1>1, <1>3, <1>5, <1>8, <2>1, <2>2 DEF StoreInv, CallKnows, Built
  <1>14. DataInHand'
    BY <1>1 DEF DataInHand, Writing
  <1> QED BY <1>4, <1>7, <1>9, <1>10, <1>11, <1>12, <1>13, <1>14 DEF StoreInv, CallKnows

\* what a call under way rests on, the flash and the store together
FlashOrder == IInv /\ CleanInv /\ TidyInv
OrderInv == FlashOrder /\ StoreInv /\ DataInHand

\* Every step keeps the store in order, as long as it does not fail and moves no value to be replaced.
LEMMA NextStore ==
  FlashOrder /\ StoreInv /\ DataInHand /\ FlashOrder' /\ (NothingFailed /\ OldUnmoved)' /\ [Next]_vars =>
    StoreInv' /\ DataInHand'
  <1> SUFFICES ASSUME FlashOrder, StoreInv, DataInHand, NothingFailed', [Next]_vars PROVE StoreInv' /\ DataInHand'
    OBVIOUS
  <1>0. FlashTypeOK /\ CallState /\ Pages /\ EmptyBlank /\ FlashInv /\ HandInv /\ AllWhole
    BY DEF FlashOrder, IInv, CleanInv, TidyInv, FlashInv
  <1>1. CASE Writer
    BY <1>0, <1>1, WriterStore, WriterHolds DEF FlashOrder
  <1>2. CASE \E c \in Calls : Call(c)
    <2>1. pc' \in {"begin", "scrub"}
      BY <1>2 DEF Call, Goto
    <2> QED BY <1>0, <1>2, <2>1, CallStore DEF DataInHand, Writing
  <1>3. CASE UNCHANGED vars
    BY <1>0, <1>3, StutterStore
  <1> QED BY <1>1, <1>2, <1>3, FailuresCounted DEF FlashOrder, IInv

\* a partition and a store in order, as a call finds them and leaves them
InOrder == TidyFlash /\ OneEntryEach /\ ChunksOwned

\* The invariants together, from a store in order on.
LEMMA StoreAlways == Spec /\ InOrder /\ [](NothingFailed /\ OldUnmoved) => []OrderInv
  <1>1. Spec /\ InOrder /\ [](NothingFailed /\ OldUnmoved) => []FlashOrder
    BY TidyAlways, PTL DEF FlashOrder, InOrder
  <1>2. Init /\ FlashOrder /\ InOrder => StoreInv /\ DataInHand
    BY InitStore DEF FlashOrder, InOrder
  <1> QED BY <1>1, <1>2, NextStore, PTL DEF Spec, OrderInv

\* Between calls nothing waits: the store is in order.
LEMMA StoreIsOwned == OrderInv => ChunksOwned /\ OneEntryEach
  <1> SUFFICES ASSUME OrderInv, pc = "idle" PROVE ChunksOwned /\ OneEntryEach
    BY DEF ChunksOwned, OneEntryEach
  <1>1. /\ FlashTypeOK /\ CallState /\ Pages /\ FlashInv /\ HandInv /\ StoreInv /\ AllWhole /\ l = NoLocals
        /\ KeysInv /\ ChunkHasIndex
    BY DEF OrderInv, FlashOrder, IInv, TidyInv, FlashInv, StoreInv, ChunkInv, CallState, Fresh
  <1>2. Headers(bits) = Standing
    BY <1>1, Lookups
  <1> QED BY <1>1, <1>2, IdleChunks DEF IdlePoint, KeysInv

\* Without failures, and while no compaction runs under a value being replaced, every chunk
\* belongs to one index and every index has each of its chunks once, from call to call: nothing a
\* put replaced, gave up or a remove took away is left behind.
THEOREM ChunksStayOwned == Spec /\ InOrder /\ [](NothingFailed /\ OldUnmoved) => []ChunksOwned
  BY StoreAlways, StoreIsOwned, PTL

\* And a key has one entry, a namespace name one.
THEOREM OneEntryStays == Spec /\ InOrder /\ [](NothingFailed /\ OldUnmoved) => []OneEntryEach
  BY StoreAlways, StoreIsOwned, PTL

----------------------------------------------------------------------------
(***************************************************************************)
(* What is read of a value: the sum and the content of its chunks.         *)
(***************************************************************************)
(***************************************************************************)
(* What a value's chunks read as, put together in order.                   *)
(***************************************************************************)
\* the sizes of the first chunks add up
LEMMA SumsExist ==
  ASSUME NEW n \in Nat, NEW S \in [0 .. n - 1 -> Nat]
  PROVE  \E d \in [0 .. n -> Nat] : d = [c \in 0 .. n |-> IF c = 0 THEN 0 ELSE d[c - 1] + S[c - 1]]
  <1> DEFINE Adds(g, m) == g[0] = 0 /\ \A c \in Nat : 1 <= c /\ c <= m /\ c <= n => g[c] = g[c - 1] + S[c - 1]
             M == {m \in Nat : \E g \in [Nat -> Nat] : Adds(g, m)}
  <1>1. 0 \in M
    <2> DEFINE zero == [c \in Nat |-> 0]
    <2>1. zero \in [Nat -> Nat] /\ Adds(zero, 0)
      OBVIOUS
    <2> HIDE DEF zero, Adds
    <2> QED BY <2>1
  <1>2. ASSUME NEW m \in Nat, m \in M PROVE m + 1 \in M
    <2>1. PICK g \in [Nat -> Nat] : g[0] = 0 /\ \A c \in Nat : 1 <= c /\ c <= m /\ c <= n => g[c] = g[c - 1] + S[c - 1]
      BY <1>2
    <2> DEFINE h == [g EXCEPT ![m + 1] = IF m + 1 <= n THEN g[m] + S[m] ELSE 0]
    <2>2. h \in [Nat -> Nat] /\ h[0] = 0
      <3>1. m + 1 <= n => m \in 0 .. n - 1
        OBVIOUS
      <3>2. m + 1 <= n => g[m] + S[m] \in Nat
        BY <2>1, <3>1
      <3> QED BY <2>1, <3>2
    <2>3. ASSUME NEW c \in Nat, 1 <= c, c <= m + 1, c <= n PROVE h[c] = h[c - 1] + S[c - 1]
      <3>1. c - 1 \in Nat /\ c - 1 # m + 1
        BY <2>3
      <3>2. h[c - 1] = g[c - 1]
        BY <3>1
      <3>3. CASE c = m + 1
        BY <2>3, <3>2, <3>3
      <3>4. CASE c # m + 1
        BY <2>1, <2>3, <3>2, <3>4
      <3> QED BY <3>3, <3>4
    <2> HIDE DEF h
    <2>4. Adds(h, m + 1)
      BY <2>2, <2>3
    <2>5. m + 1 \in Nat
      OBVIOUS
    <2> HIDE DEF Adds
    <2> QED BY <2>2, <2>4, <2>5
  <1> HIDE DEF M
  <1>3. n \in M
    BY <1>1, <1>2, SetInduction
  <1>4. PICK g \in [Nat -> Nat] : g[0] = 0 /\ \A c \in Nat : 1 <= c /\ c <= n => g[c] = g[c - 1] + S[c - 1]
    BY <1>3 DEF M
  <1> DEFINE d == [c \in 0 .. n |-> g[c]]
  <1>5. d \in [0 .. n -> Nat]
    BY <1>4
  <1>6. \A c \in 0 .. n : d[c] = IF c = 0 THEN 0 ELSE d[c - 1] + S[c - 1]
    <2> SUFFICES ASSUME NEW c \in 0 .. n, c # 0 PROVE d[c] = d[c - 1] + S[c - 1]
      BY <1>4
    <2>1. c \in Nat /\ 1 <= c /\ c <= n /\ c - 1 \in 0 .. n
      OBVIOUS
    <2> QED BY <1>4, <2>1
  <1>7. d = [c \in 0 .. n |-> IF c = 0 THEN 0 ELSE d[c - 1] + S[c - 1]]
    BY <1>5, <1>6
  <1> QED BY <1>5, <1>7

\* `d` sums up the sizes of the `n` chunks at `places`
AddsUp(places, n, d) == d[0] = 0 /\ \A c \in 0 .. n - 1 : d[c + 1] = d[c] + CellAt(places[c]).size

\* the values whose parts the chunks at `places` are, the chunks before each being as long as `d` says
WholeValues(places, n, d) ==
  {v \in Values : /\ Size[v] = d[n]
                  /\ \A c \in 0 .. n - 1 : CellAt(places[c]).value = v /\ CellAt(places[c]).offset = d[c]}

\* what they read as, the value `size` long
ContentGiven(places, n, d, size) ==
  IF d[n] # size \/ \E c \in 0 .. n - 1 : ~IntactChunk(places[c]) THEN Corrupt
  ELSE IF WholeValues(places, n, d) = {} THEN Mixed ELSE CHOOSE v \in WholeValues(places, n, d) : TRUE

\* What the chunks at some places read as, the sums of their sizes given.
LEMMA ContentSums ==
  ASSUME NEW n \in Nat, NEW places \in [0 .. n - 1 -> Place], NEW size,
         \A c \in 0 .. n - 1 : CellAt(places[c]).size \in Nat
  PROVE  \E d \in [0 .. n -> Nat] : AddsUp(places, n, d) /\ Content(places, size) = ContentGiven(places, n, d, size)
  <1>1. DOMAIN places = 0 .. n - 1 /\ Cardinality(0 .. n - 1) = n
    BY FS_Interval
  <1> DEFINE S == [c \in 0 .. n - 1 |-> CellAt(places[c]).size]
             Sums(d) == [c \in 0 .. Cardinality(DOMAIN places) |->
                           IF c = 0 THEN 0 ELSE d[c - 1] + CellAt(places[c - 1]).size]
             done == CHOOSE d : d = Sums(d)
  <1>2. PICK e \in [0 .. n -> Nat] : e = [c \in 0 .. n |-> IF c = 0 THEN 0 ELSE e[c - 1] + S[c - 1]]
    <2>1. S \in [0 .. n - 1 -> Nat]
      OBVIOUS
    <2> HIDE DEF S
    <2> QED BY <2>1, SumsExist
  <1>3. e = Sums(e)
    <2>1. \A c \in 0 .. n : c # 0 => S[c - 1] = CellAt(places[c - 1]).size
      OBVIOUS
    <2> HIDE DEF S
    <2>2. \A c \in 0 .. n : e[c] = IF c = 0 THEN 0 ELSE e[c - 1] + CellAt(places[c - 1]).size
      BY <1>2, <2>1
    <2> QED BY <1>1, <1>2, <2>2
  <1>4. done = Sums(done)
    BY <1>3
  <1> DEFINE whole(d) == {v \in Values : /\ Size[v] = size
                                         /\ \A c \in DOMAIN places : /\ CellAt(places[c]).value = v
                                                                     /\ CellAt(places[c]).offset = d[c]}
  <1>5. Content(places, size) =
          IF done[Cardinality(DOMAIN places)] # size \/ \E c \in DOMAIN places : ~IntactChunk(places[c]) THEN Corrupt
          ELSE IF whole(done) = {} THEN Mixed ELSE CHOOSE v \in whole(done) : TRUE
    BY DEF Content, IntactChunk
  <1> HIDE DEF done
  <1>6. done[0] = 0 /\ \A c \in 0 .. n - 1 : done[c + 1] = done[c] + CellAt(places[c]).size
    <2>1. 0 \in 0 .. n
      OBVIOUS
    <2>2. \A c \in 0 .. n - 1 : c + 1 \in 0 .. n /\ c + 1 # 0 /\ c + 1 - 1 = c
      OBVIOUS
    <2> QED BY <1>1, <1>4, <2>1, <2>2
  <1>7. done \in [0 .. n -> Nat]
    <2> DEFINE M == {m \in Nat : m <= n => done[m] \in Nat}
    <2>1. 0 \in M
      BY <1>6
    <2>2. ASSUME NEW m \in Nat, m \in M PROVE m + 1 \in M
      <3> SUFFICES ASSUME m + 1 <= n PROVE done[m + 1] \in Nat
        OBVIOUS
      <3>1. m \in 0 .. n - 1 /\ m <= n
        OBVIOUS
      <3>2. done[m] \in Nat /\ CellAt(places[m]).size \in Nat
        BY <2>2, <3>1
      <3>3. done[m + 1] = done[m] + CellAt(places[m]).size
        BY <1>6, <3>1
      <3> HIDE DEF M
      <3> QED BY <3>2, <3>3
    <2> HIDE DEF M
    <2>3. \A m \in Nat : m \in M
      BY <2>1, <2>2, SetInduction
    <2>4. \A m \in 0 .. n : done[m] \in Nat
      BY <2>3 DEF M
    <2> QED BY <1>1, <1>4, <2>4
  <1>8. done[n] = size => WholeValues(places, n, done) = whole(done)
    BY <1>1 DEF WholeValues
  <1> HIDE DEF whole
  <1>9. Content(places, size) =
          IF done[n] # size \/ \E c \in 0 .. n - 1 : ~IntactChunk(places[c]) THEN Corrupt
          ELSE IF whole(done) = {} THEN Mixed ELSE CHOOSE v \in whole(done) : TRUE
    BY <1>1, <1>5
  <1> SUFFICES Content(places, size) = ContentGiven(places, n, done, size)
    BY <1>6, <1>7 DEF AddsUp
  <1>10. CASE done[n] # size \/ \E c \in 0 .. n - 1 : ~IntactChunk(places[c])
    BY <1>9, <1>10 DEF ContentGiven
  <1>11. CASE ~(done[n] # size \/ \E c \in 0 .. n - 1 : ~IntactChunk(places[c]))
    <2>1. WholeValues(places, n, done) = whole(done)
      BY <1>8, <1>11
    <2> QED BY <1>9, <1>11, <2>1 DEF ContentGiven
  <1> QED BY <1>10, <1>11

\* the entry at `y` and its chunks hold the value `v`, whole and in order
HoldsValue(y, v) ==
  IF IsIndex(y)
    THEN /\ CellAt(y).count >= 1 /\ CellAt(y).size = Size[v]
         /\ \A x \in Live : IsChunk(x) /\ SameBlob(CellAt(x), CellAt(y)) =>
              /\ CellAt(x).value = v /\ IntactChunk(x)
              /\ CellAt(x).number = 0 => CellAt(x).offset = 0
              /\ CellAt(x).number = CellAt(y).count - 1 => CellAt(x).offset + CellAt(x).size = Size[v]
              /\ \A z \in Live :
                   IsChunk(z) /\ SameBlob(CellAt(z), CellAt(y)) /\ CellAt(z).number = CellAt(x).number + 1 =>
                     CellAt(z).offset = CellAt(x).offset + CellAt(x).size
    ELSE CellAt(y).value = v /\ DataIntact(y, v, 0, CellAt(y).size)

\* What get reads of an index is the content of its chunks, each where it counts.
LEMMA IndexReads ==
  ASSUME FlashTypeOK, AllWhole, ChunksFound, IndexHasChunks, NEW y \in Live, IsIndex(y),
         NEW n \in Nat, n = CellAt(y).count
  PROVE  \E places \in [0 .. n - 1 -> Place] :
           /\ \A c \in 0 .. n - 1 : /\ places[c] \in Live /\ IsChunk(places[c])
                                    /\ SameBlob(CellAt(places[c]), CellAt(y)) /\ CellAt(places[c]).number = c
                                    /\ CellAt(places[c]).size \in Nat /\ CellAt(places[c]).offset \in Nat
           /\ ReadEntry[Standing][y] = Content(places, CellAt(y).size)
  <1> DEFINE At(x, c) == IsChunk(x) /\ SameBlob(CellAt(x), CellAt(y)) /\ CellAt(x).number = c
             places == [c \in 0 .. n - 1 |-> CHOOSE x \in Live : At(x, c)]
             found == [c \in 0 .. CellAt(y).count - 1 |->
                         FindChunk[Standing][<<CellAt(y).ns, CellAt(y).name>>][<<CellAt(y).start, c>>]]
  <1>1. /\ y \in Place /\ CellAt(y) \in Cell /\ CellAt(y).kind = "idx"
        /\ CellAt(y).ns \in Nat /\ CellAt(y).name \in Names /\ CellAt(y).start \in {0, 1}
    <2>1. y \in Place /\ CellAt(y) \in Cell
      BY LiveFacts
    <2> QED BY <2>1, EntryFields DEF IsIndex
  <1>2. ASSUME NEW c \in 0 .. n - 1
        PROVE  places[c] \in Live /\ At(places[c], c) /\ c \in Nat
    <2>1. \E x \in Live : At(x, c)
      BY DEF IndexHasChunks
    <2>2. (CHOOSE x \in Live : At(x, c)) \in Live /\ At(CHOOSE x \in Live : At(x, c), c)
      <3> HIDE DEF At
      <3> QED BY <2>1
    <2>3. places[c] = CHOOSE x \in Live : At(x, c)
      OBVIOUS
    <2> QED BY <2>2, <2>3
  <1>3. DOMAIN places = 0 .. n - 1 /\ DOMAIN found = 0 .. n - 1 /\ places = [c \in 0 .. n - 1 |-> places[c]]
    OBVIOUS
  <1>4. ASSUME NEW c \in 0 .. n - 1 PROVE found[c] = Found(places[c])
    <2>0. found[c] = FindChunk[Standing][<<CellAt(y).ns, CellAt(y).name>>][<<CellAt(y).start, c>>]
      OBVIOUS
    <2> HIDE DEF places, found
    <2>1. Numbered(places[c], CellAt(y).ns, CellAt(y).name, CellAt(y).start, c)
      BY <1>2 DEF Numbered, SameBlob
    <2> QED BY <1>1, <1>2, <2>0, <2>1 DEF ChunksFound
  <1>5. ReadEntry[Standing][y] = Assemble(Standing, CellAt(y))
    <2>1. Standing \in Visits
      BY DEF Standing, Visits
    <2> QED BY <1>1, <2>1 DEF ReadEntry
  <1>6. Assemble(Standing, CellAt(y)) =
          IF \E c \in DOMAIN found : found[c].status # "found" THEN Corrupt
          ELSE Content([c \in DOMAIN found |-> found[c].place], CellAt(y).size)
    BY DEF Assemble
  <1> HIDE DEF places, found
  <1>11. ASSUME NEW c \in 0 .. n - 1 PROVE found[c].status = "found" /\ found[c].place = places[c]
    <2>1. found[c] = Found(places[c])
      BY <1>4
    <2> QED BY <2>1 DEF Found
  <1>7. [c \in DOMAIN found |-> found[c].place] = [c \in 0 .. n - 1 |-> places[c]]
    <2>1. \A c \in 0 .. n - 1 : found[c].place = places[c]
      BY <1>11
    <2> QED BY <1>3, <2>1
  <1>8. ReadEntry[Standing][y] = Content(places, CellAt(y).size)
    <2>1. ~(\E c \in DOMAIN found : found[c].status # "found")
      BY <1>3, <1>11
    <2> QED BY <1>3, <1>5, <1>6, <1>7, <2>1
  <1>9. ASSUME NEW c \in 0 .. n - 1
        PROVE  places[c] \in Place /\ CellAt(places[c]).size \in Nat /\ CellAt(places[c]).offset \in Nat
    <2>1. places[c] \in Place /\ CellAt(places[c]) \in Cell
      BY <1>2, LiveFacts
    <2> QED BY <1>2, <2>1, EntryFields DEF IsChunk
  <1>10. places \in [0 .. n - 1 -> Place]
    BY <1>3, <1>9
  <1> QED BY <1>2, <1>8, <1>9, <1>10

\* What an entry holds is what is read of it.
LEMMA HeldIsRead ==
  ASSUME FlashTypeOK, AllWhole, ChunksFound, IndexHasChunks, NEW y \in Live, IsEntry(CellAt(y)),
         NEW v \in Values, HoldsValue(y, v)
  PROVE  ReadEntry[Standing][y] = v
  <1>1. y \in Place /\ CellAt(y) \in Cell /\ Standing \in Visits
    BY LiveFacts DEF Standing, Visits
  <1>2. CASE ~IsIndex(y)
    <2>1. ReadEntry[Standing][y] = IF DataIntact(y, CellAt(y).value, 0, CellAt(y).size) THEN CellAt(y).value ELSE Corrupt
      BY <1>1, <1>2 DEF ReadEntry, IsIndex
    <2> QED BY <1>2, <2>1 DEF HoldsValue
  <1>3. CASE IsIndex(y)
    <2>1. PICK n \in Nat : n = CellAt(y).count
      BY <1>1, <1>3, EntryFields DEF IsIndex
    <2>2. PICK places \in [0 .. n - 1 -> Place] :
           /\ \A c \in 0 .. n - 1 : /\ places[c] \in Live /\ IsChunk(places[c])
                                    /\ SameBlob(CellAt(places[c]), CellAt(y)) /\ CellAt(places[c]).number = c
                                    /\ CellAt(places[c]).size \in Nat /\ CellAt(places[c]).offset \in Nat
           /\ ReadEntry[Standing][y] = Content(places, CellAt(y).size)
      BY <1>3, <2>1, IndexReads
    <2>21. \A c \in 0 .. n - 1 : CellAt(places[c]).size \in Nat
      BY <2>2
    <2>22. PICK size : size = CellAt(y).size
      OBVIOUS
    <2>23. PICK d \in [0 .. n -> Nat] : AddsUp(places, n, d) /\ Content(places, size) = ContentGiven(places, n, d, size)
      BY <2>21, ContentSums
    <2>3. /\ d[0] = 0 /\ \A c \in 0 .. n - 1 : d[c + 1] = d[c] + CellAt(places[c]).size
          /\ Content(places, CellAt(y).size) = ContentGiven(places, n, d, CellAt(y).size)
      BY <2>22, <2>23 DEF AddsUp
    <2>4. n >= 1 /\ CellAt(y).size = Size[v] /\ Size[v] \in Nat
      BY <1>3, <2>1, FormatAssumption DEF HoldsValue
    <2>5. ASSUME NEW c \in 0 .. n - 1
          PROVE  /\ CellAt(places[c]).value = v /\ IntactChunk(places[c])
                 /\ c = 0 => CellAt(places[c]).offset = 0
                 /\ c = n - 1 => CellAt(places[c]).offset + CellAt(places[c]).size = Size[v]
                 /\ c + 1 \in 0 .. n - 1 => CellAt(places[c + 1]).offset = CellAt(places[c]).offset + CellAt(places[c]).size
      <3>1. ASSUME NEW i \in 0 .. n - 1
            PROVE  places[i] \in Live /\ IsChunk(places[i]) /\ SameBlob(CellAt(places[i]), CellAt(y))
                   /\ CellAt(places[i]).number = i
        BY <2>2
      <3>2. /\ CellAt(places[c]).value = v /\ IntactChunk(places[c])
            /\ c = 0 => CellAt(places[c]).offset = 0
            /\ c = CellAt(y).count - 1 => CellAt(places[c]).offset + CellAt(places[c]).size = Size[v]
        BY <1>3, <3>1 DEF HoldsValue
      <3>3. \A z \in Live : IsChunk(z) /\ SameBlob(CellAt(z), CellAt(y)) /\ CellAt(z).number = c + 1 =>
                             CellAt(z).offset = CellAt(places[c]).offset + CellAt(places[c]).size
        BY <1>3, <3>1 DEF HoldsValue
      <3> QED BY <2>1, <3>1, <3>2, <3>3
    <2> DEFINE M == {m \in Nat : m \in 0 .. n - 1 => d[m] = CellAt(places[m]).offset}
    <2>6. 0 \in M
      BY <2>3, <2>5
    <2>7. ASSUME NEW m \in Nat, m \in M PROVE m + 1 \in M
      <3> SUFFICES ASSUME m + 1 \in 0 .. n - 1 PROVE d[m + 1] = CellAt(places[m + 1]).offset
        OBVIOUS
      <3>1. m \in 0 .. n - 1
        OBVIOUS
      <3>2. d[m] = CellAt(places[m]).offset
        BY <2>7, <3>1
      <3> HIDE DEF M
      <3> QED BY <2>3, <2>5, <3>1, <3>2
    <2> HIDE DEF M
    <2>8. \A m \in Nat : m \in M
      BY <2>6, <2>7, SetInduction
    <2>9. \A c \in 0 .. n - 1 : d[c] = CellAt(places[c]).offset
      BY <2>8 DEF M
    <2>10. d[n] = Size[v]
      <3>1. n - 1 \in 0 .. n - 1 /\ n - 1 + 1 = n
        BY <2>4
      <3>2. d[n] = d[n - 1] + CellAt(places[n - 1]).size
        BY <2>3, <3>1
      <3> QED BY <2>5, <2>9, <3>1, <3>2
    <2>11. WholeValues(places, n, d) = {v}
      <3>1. v \in WholeValues(places, n, d)
        BY <2>5, <2>9, <2>10 DEF WholeValues
      <3>2. 0 \in 0 .. n - 1
        BY <2>4
      <3>3. \A w \in WholeValues(places, n, d) : w = v
        BY <2>5, <3>2 DEF WholeValues
      <3> QED BY <3>1, <3>3
    <2>12. (CHOOSE w \in WholeValues(places, n, d) : TRUE) = v
      BY <2>11
    <2> QED BY <2>2, <2>3, <2>4, <2>5, <2>10, <2>11, <2>12 DEF ContentGiven
  <1> QED BY <1>2, <1>3

\* A value that is read of an entry is what it holds.
LEMMA ReadIsHeld ==
  ASSUME FlashTypeOK, AllWhole, ChunksFound, IndexHasChunks, ChunkOnce, NEW y \in Live, IsEntry(CellAt(y)),
         NEW v \in Values \cup {None}, ReadEntry[Standing][y] = v
  PROVE  v \in Values /\ HoldsValue(y, v)
  <1>1. y \in Place /\ CellAt(y) \in Cell /\ Standing \in Visits
    BY LiveFacts DEF Standing, Visits
  <1>0. v # Corrupt /\ v # Mixed
    BY AnswersAssumption
  <1>2. CASE ~IsIndex(y)
    <2>1. ReadEntry[Standing][y] = IF DataIntact(y, CellAt(y).value, 0, CellAt(y).size) THEN CellAt(y).value ELSE Corrupt
      BY <1>1, <1>2 DEF ReadEntry, IsIndex
    <2>2. CellAt(y).value \in Values
      BY <1>1, <1>2, EntryFields DEF IsIndex, IsEntry
    <2> QED BY <1>0, <1>2, <2>1, <2>2 DEF HoldsValue
  <1>3. CASE IsIndex(y)
    <2>1. PICK n \in Nat : n = CellAt(y).count
      BY <1>1, <1>3, EntryFields DEF IsIndex
    <2>2. PICK places \in [0 .. n - 1 -> Place] :
           /\ \A c \in 0 .. n - 1 : /\ places[c] \in Live /\ IsChunk(places[c])
                                    /\ SameBlob(CellAt(places[c]), CellAt(y)) /\ CellAt(places[c]).number = c
                                    /\ CellAt(places[c]).size \in Nat /\ CellAt(places[c]).offset \in Nat
           /\ ReadEntry[Standing][y] = Content(places, CellAt(y).size)
      BY <1>3, <2>1, IndexReads
    <2>21. \A c \in 0 .. n - 1 : CellAt(places[c]).size \in Nat
      BY <2>2
    <2>22. PICK size : size = CellAt(y).size
      OBVIOUS
    <2>23. PICK d \in [0 .. n -> Nat] : AddsUp(places, n, d) /\ Content(places, size) = ContentGiven(places, n, d, size)
      BY <2>21, ContentSums
    <2>3. /\ d[0] = 0 /\ \A c \in 0 .. n - 1 : d[c + 1] = d[c] + CellAt(places[c]).size
          /\ Content(places, CellAt(y).size) = ContentGiven(places, n, d, CellAt(y).size)
      BY <2>22, <2>23 DEF AddsUp
    <2>4. d[n] = CellAt(y).size /\ \A c \in 0 .. n - 1 : IntactChunk(places[c])
      BY <1>0, <2>2, <2>3 DEF ContentGiven
    <2>5. v \in WholeValues(places, n, d)
      <3>1. WholeValues(places, n, d) # {}
        BY <1>0, <2>2, <2>3, <2>4 DEF ContentGiven
      <3>2. (CHOOSE w \in WholeValues(places, n, d) : TRUE) \in WholeValues(places, n, d)
        BY <3>1
      <3>3. v = CHOOSE w \in WholeValues(places, n, d) : TRUE
        BY <2>2, <2>3, <2>4, <3>1 DEF ContentGiven
      <3> QED BY <3>2, <3>3
    <2>6. /\ v \in Values /\ Size[v] = d[n]
          /\ \A c \in 0 .. n - 1 : CellAt(places[c]).value = v /\ CellAt(places[c]).offset = d[c]
      BY <2>5 DEF WholeValues
    <2>7. n >= 1
      BY <2>3, <2>6, FormatAssumption
    <2>8. ASSUME NEW x \in Live, IsChunk(x), SameBlob(CellAt(x), CellAt(y))
          PROVE  CellAt(x).number \in 0 .. n - 1 /\ x = places[CellAt(x).number]
      <3>1. CellAt(x).number \in Nat
        BY <2>8, LiveFacts, EntryFields DEF IsChunk
      <3>2. CellAt(x).number \in 0 .. n - 1
        BY <2>1, <2>8, <3>1 DEF SameBlob
      <3>3. PICK c \in 0 .. n - 1 : c = CellAt(x).number
        BY <3>2
      <3>4. SameChunk(CellAt(x), CellAt(places[c]))
        BY <2>2, <2>8, <3>3 DEF SameChunk, SameKey, SameBlob
      <3> QED BY <2>2, <2>8, <3>2, <3>3, <3>4 DEF ChunkOnce
    <2>9. ASSUME NEW x \in Live, IsChunk(x), SameBlob(CellAt(x), CellAt(y))
          PROVE  /\ CellAt(x).value = v /\ IntactChunk(x)
                 /\ CellAt(x).number = 0 => CellAt(x).offset = 0
                 /\ CellAt(x).number = CellAt(y).count - 1 => CellAt(x).offset + CellAt(x).size = Size[v]
                 /\ \A z \in Live :
                      IsChunk(z) /\ SameBlob(CellAt(z), CellAt(y)) /\ CellAt(z).number = CellAt(x).number + 1 =>
                        CellAt(z).offset = CellAt(x).offset + CellAt(x).size
      <3>1. PICK c \in 0 .. n - 1 : c = CellAt(x).number /\ x = places[c]
        BY <2>8, <2>9
      <3>2. CellAt(x).value = v /\ IntactChunk(x) /\ CellAt(x).offset = d[c] /\ d[c + 1] = d[c] + CellAt(x).size
        BY <2>3, <2>4, <2>6, <3>1
      <3>3. c = n - 1 => c + 1 = n
        BY <2>1
      <3>4. ASSUME NEW z \in Live, IsChunk(z), SameBlob(CellAt(z), CellAt(y)), CellAt(z).number = CellAt(x).number + 1
            PROVE  CellAt(z).offset = CellAt(x).offset + CellAt(x).size
        <4>1. c + 1 \in 0 .. n - 1 /\ z = places[c + 1]
          BY <2>8, <3>1, <3>4
        <4> QED BY <2>6, <3>2, <4>1
      <3> QED BY <2>1, <2>3, <2>6, <3>1, <3>2, <3>3, <3>4
    <2> QED BY <1>3, <2>1, <2>4, <2>6, <2>7, <2>9 DEF HoldsValue
  <1> QED BY <1>2, <1>3

----------------------------------------------------------------------------
(***************************************************************************)
(* What a key reads, said of what counts, and the map read of it.          *)
(***************************************************************************)
\* the entry at `y` stands under the key `m` of the namespace `n`
Under(y, n, m) ==
  /\ IsEntry(CellAt(y)) /\ CellAt(y).name = m
  /\ \E x \in Live : IsName(x) /\ CellAt(x).name = n /\ CellAt(x).index = CellAt(y).ns

\* what the key reads, said of the entries and chunks that count
Reading(n, m, r) ==
  \/ r = None /\ \A y \in Live : ~Under(y, n, m)
  \/ r \in Values /\ \E y \in Live : Under(y, n, m) /\ HoldsValue(y, r)

\* every key reads a value or none
Answers   == Values \cup {None}
EachReads == \A n \in Namespaces : \A m \in Names : \E r \in Answers : Reading(n, m, r)

\* what the look-ups of the code find in a store in order, and what of it is needed to say so
Sound ==
  /\ FlashTypeOK /\ AllWhole /\ Headers(SettledBits) = Standing /\ NamesFound /\ EntriesFound /\ ChunksFound
  /\ KeysInv

\* the map read is what stands under each key
SeenAs ==
  /\ View \in [Keys -> Answers]
  /\ \A n \in Namespaces : \A m \in Names : \A r \in Answers : Reading(n, m, r) => View[<<n, m>>] = r

\* What a reader finds under a key is what stands there.
LEMMA ViewReads ==
  ASSUME Sound, NEW n \in Namespaces, NEW m \in Names, NEW r, Reading(n, m, r)
  PROVE  View[<<n, m>>] = r
  <1>1. /\ FlashTypeOK /\ AllWhole /\ Headers(SettledBits) = Standing /\ NamesFound /\ EntriesFound /\ ChunksFound
        /\ IndexHasChunks /\ NamesOnce
    BY DEF Sound, KeysInv
  <1>2. Standing \in Visits /\ <<n, m>> \in Keys
    BY DEF Standing, Visits, Keys
  <1> DEFINE i == FindNamespace[Standing][n]
             x == FindNotChunk[Standing][<<CellAt(i.place).index, m>>]
  <1>3. View[<<n, m>>] =
          IF i.status = "corrupt" THEN Corrupt
          ELSE IF i.status = "none" THEN None
          ELSE IF x.status = "corrupt" THEN Corrupt
          ELSE IF x.status = "none" THEN None
          ELSE ReadEntry[Standing][x.place]
    BY <1>1, <1>2 DEF View, Reads
  <1>4. \A z \in Live : CellAt(z) \in Cell
    BY <1>1, LiveFacts
  <1>5. CASE \A z \in Live : ~(IsName(z) /\ CellAt(z).name = n)
    <2>1. i = Absent
      BY <1>1, <1>5 DEF NamesFound
    <2>2. r = None
      BY <1>5 DEF Reading, Under
    <2> QED BY <1>3, <2>1, <2>2 DEF Absent
  <1>6. ASSUME NEW z \in Live, IsName(z), CellAt(z).name = n PROVE View[<<n, m>>] = r
    <2>1. i = Found(z)
      BY <1>1, <1>6 DEF NamesFound
    <2>2. i.status = "found" /\ i.place = z
      BY <2>1 DEF Found
    <2>3. x = FindNotChunk[Standing][<<CellAt(z).index, m>>] /\ CellAt(z).index \in Nat
      BY <1>4, <1>6, <2>2, EntryFields DEF IsName
    <2>4. \A y \in Live : Under(y, n, m) <=> IsEntry(CellAt(y)) /\ CellAt(y).ns = CellAt(z).index /\ CellAt(y).name = m
      BY <1>1, <1>6 DEF Under, NamesOnce
    <2> HIDE DEF i, x
    <2>5. CASE r = None /\ \A y \in Live : ~Under(y, n, m)
      <3>1. x = Absent
        BY <1>1, <2>3, <2>4, <2>5 DEF EntriesFound
      <3> QED BY <1>3, <2>2, <2>5, <3>1 DEF Absent
    <2>6. ASSUME r \in Values, NEW y \in Live, Under(y, n, m), HoldsValue(y, r) PROVE View[<<n, m>>] = r
      <3>1. IsEntry(CellAt(y)) /\ CellAt(y).ns = CellAt(z).index /\ CellAt(y).name = m
        BY <2>4, <2>6
      <3>2. x = Found(y)
        BY <1>1, <2>3, <3>1 DEF EntriesFound
      <3>3. x.status = "found" /\ x.place = y
        BY <3>2 DEF Found
      <3>4. ReadEntry[Standing][y] = r
        BY <1>1, <2>6, <3>1, HeldIsRead
      <3> QED BY <1>3, <2>2, <3>3, <3>4
    <2> QED BY <2>5, <2>6 DEF Reading
  <1> QED BY <1>5, <1>6

\* When every key has a value whole or none, the map read is that.
LEMMA SoundIsSeen == Sound /\ EachReads => SeenAs
  <1> SUFFICES ASSUME Sound, EachReads PROVE SeenAs
    OBVIOUS
  <1>1. Standing \in Visits /\ Headers(SettledBits) = Standing
    BY DEF Standing, Visits, Sound
  <1>2. DOMAIN View = Keys /\ View = [key \in Keys |-> View[key]]
    BY <1>1 DEF View, Reads
  <1>3. \A n \in Namespaces : \A m \in Names : \A r \in Answers : Reading(n, m, r) => View[<<n, m>>] = r
    BY ViewReads
  <1>4. ASSUME NEW key \in Keys PROVE View[key] \in Answers
    <2>1. PICK n \in Namespaces, m \in Names : key = <<n, m>>
      BY DEF Keys
    <2>2. PICK r \in Answers : Reading(n, m, r)
      BY DEF EachReads
    <2> QED BY <1>3, <2>1, <2>2
  <1> QED BY <1>2, <1>3, <1>4 DEF SeenAs

\* every key but `key` reads what it read
ReadingsKeptBut(key) ==
  \A n \in Namespaces : \A m \in Names : <<n, m>> # key =>
    \A r \in Answers : Reading(n, m, r) => Reading(n, m, r)'

\* every key reads what it read
ReadingsKept ==
  \A n \in Namespaces : \A m \in Names : \A r \in Answers : Reading(n, m, r) => Reading(n, m, r)'

\* When a step keeps what every key reads but one, the map read changes there only.
LEMMA ViewChanges ==
  ASSUME SeenAs, SeenAs', EachReads, NEW n \in Namespaces, NEW m \in Names, NEW r \in Answers, Reading(n, m, r)',
         ReadingsKeptBut(<<n, m>>)
  PROVE  View' = [View EXCEPT ![<<n, m>>] = r]
  <1>1. View \in [Keys -> Answers] /\ View' \in [Keys -> Answers]
    BY DEF SeenAs, Answers, Keys
  <1>2. ASSUME NEW key \in Keys PROVE View'[key] = [View EXCEPT ![<<n, m>>] = r][key]
    <2>1. PICK n2 \in Namespaces, m2 \in Names : key = <<n2, m2>>
      BY DEF Keys
    <2>2. CASE key = <<n, m>>
      <3>1. View'[<<n, m>>] = r
        BY DEF SeenAs, Answers
      <3> QED BY <1>1, <2>2, <3>1
    <2>3. CASE key # <<n, m>>
      <3>1. PICK s \in Answers : Reading(n2, m2, s)
        BY DEF EachReads
      <3>2. View[<<n2, m2>>] = s
        BY <3>1 DEF SeenAs
      <3>3. Reading(n2, m2, s)'
        BY <2>1, <2>3, <3>1 DEF ReadingsKeptBut
      <3>4. View'[<<n2, m2>>] = s
        BY <3>3 DEF SeenAs, Answers
      <3> QED BY <1>1, <2>1, <2>3, <3>2, <3>4
    <2> QED BY <2>2, <2>3
  <1> QED BY <1>1, <1>2

\* When a step keeps what every key reads, the map read stays.
LEMMA ViewStays ==
  ASSUME SeenAs, SeenAs', EachReads, ReadingsKept
  PROVE  View' = View
  <1>1. View \in [Keys -> Answers] /\ View' \in [Keys -> Answers]
    BY DEF SeenAs, Answers, Keys
  <1>2. ASSUME NEW key \in Keys PROVE View'[key] = View[key]
    <2>1. PICK n \in Namespaces, m \in Names : key = <<n, m>>
      BY DEF Keys
    <2>2. PICK s \in Answers : Reading(n, m, s)
      BY DEF EachReads
    <2>3. View[<<n, m>>] = s
      BY <2>2 DEF SeenAs
    <2>4. Reading(n, m, s)'
      BY <2>2 DEF ReadingsKept
    <2>5. View'[<<n, m>>] = s
      BY <2>4 DEF SeenAs, Answers
    <2> QED BY <2>1, <2>3, <2>5
  <1> QED BY <1>1, <1>2

----------------------------------------------------------------------------
(***************************************************************************)
(* What the steps do to it: all but two leave every key alone.             *)
(***************************************************************************)
\* An entry that is where it was, or moved, holds what it held when it gets no chunk more.
LEMMA HoldsMoves ==
  ASSUME FlashTypeOK, AllWhole, NEW x \in Live, NEW y \in Place, SameRecord(x, y), IsEntry(CellAt(x)),
         NEW v, HoldsValue(x, v),
         \A z \in Live' : IsIndex(x) /\ IsChunk(z)' /\ SameBlob(CellAt(z)', CellAt(x)) =>
           z \in Place /\ \E w \in Live : SameRecord(w, z)
  PROVE  HoldsValue(y, v)'
  <1>1. CellAt(y)' = CellAt(x) /\ CellAt(x) \in Cell
    BY RecordSame, LiveFacts
  <1>2. CASE ~IsIndex(x)
    <2>1. ~IsIndex(y)' /\ CellAt(x).kind = "single"
      BY <1>1, <1>2 DEF IsIndex, IsEntry
    <2>2. CellAt(x).value = v /\ DataIntact(x, v, 0, CellAt(x).size)
      BY <1>2 DEF HoldsValue
    <2>3. CellAt(x).size \in Nat /\ CellAt(x).size < SpanOf(CellAt(x))
      BY <1>1, <2>1, EntryFields DEF SpanOf
    <2>4. PICK n \in Nat : n = CellAt(x).size
      BY <2>3
    <2>5. DataIntact(y, v, 0, n)'
      BY <2>2, <2>3, <2>4, RecordSame
    <2> QED BY <1>1, <2>1, <2>2, <2>4, <2>5 DEF HoldsValue
  <1>3. CASE IsIndex(x)
    <2>1. IsIndex(y)'
      BY <1>1, <1>3 DEF IsIndex
    <2>2. /\ CellAt(x).count >= 1 /\ CellAt(x).size = Size[v]
          /\ \A w \in Live : IsChunk(w) /\ SameBlob(CellAt(w), CellAt(x)) =>
              /\ CellAt(w).value = v /\ IntactChunk(w)
              /\ CellAt(w).number = 0 => CellAt(w).offset = 0
              /\ CellAt(w).number = CellAt(x).count - 1 => CellAt(w).offset + CellAt(w).size = Size[v]
              /\ \A z \in Live :
                   IsChunk(z) /\ SameBlob(CellAt(z), CellAt(x)) /\ CellAt(z).number = CellAt(w).number + 1 =>
                     CellAt(z).offset = CellAt(w).offset + CellAt(w).size
      BY <1>3 DEF HoldsValue
    <2>3. ASSUME NEW z \in Live', IsChunk(z)', SameBlob(CellAt(z)', CellAt(x))
          PROVE  \E w \in Live : /\ CellAt(z)' = CellAt(w) /\ IsChunk(w) /\ SameBlob(CellAt(w), CellAt(x))
                                 /\ IntactChunk(w) => IntactChunk(z)'
      <3>1. PICK w \in Live : SameRecord(w, z)
        BY <1>3, <2>3
      <3>2. z \in Place
        BY <1>3, <2>3
      <3>3. CellAt(z)' = CellAt(w) /\ (IsChunk(w) /\ IntactChunk(w) => IntactChunk(z)')
        BY <3>1, <3>2, ChunkSame
      <3> QED BY <2>3, <3>3 DEF IsChunk
    <2>4. ASSUME NEW z \in Live', IsChunk(z)', SameBlob(CellAt(z)', CellAt(x))
          PROVE  /\ CellAt(z)'.value = v /\ IntactChunk(z)'
                 /\ CellAt(z)'.number = 0 => CellAt(z)'.offset = 0
                 /\ CellAt(z)'.number = CellAt(x).count - 1 => CellAt(z)'.offset + CellAt(z)'.size = Size[v]
                 /\ \A u \in Live' :
                      IsChunk(u)' /\ SameBlob(CellAt(u)', CellAt(x)) /\ CellAt(u)'.number = CellAt(z)'.number + 1 =>
                        CellAt(u)'.offset = CellAt(z)'.offset + CellAt(z)'.size
      <3>1. PICK w \in Live : /\ CellAt(z)' = CellAt(w) /\ IsChunk(w) /\ SameBlob(CellAt(w), CellAt(x))
                              /\ IntactChunk(w) => IntactChunk(z)'
        BY <2>3, <2>4
      <3>2. ASSUME NEW u \in Live', IsChunk(u)', SameBlob(CellAt(u)', CellAt(x)), CellAt(u)'.number = CellAt(z)'.number + 1
            PROVE  CellAt(u)'.offset = CellAt(z)'.offset + CellAt(z)'.size
        <4>1. PICK t \in Live : CellAt(u)' = CellAt(t) /\ IsChunk(t) /\ SameBlob(CellAt(t), CellAt(x))
          BY <2>3, <3>2
        <4> QED BY <2>2, <3>1, <3>2, <4>1
      <3> QED BY <2>2, <3>1, <3>2
    <2> QED BY <1>1, <2>1, <2>2, <2>4 DEF HoldsValue
  <1> QED BY <1>2, <1>3

\* Moving what counts changes no key.
LEMMA KeptReadings ==
  ASSUME FlashTypeOK, AllWhole, StoreKept
  PROVE  ReadingsKept
  <1>1. PICK m \in [Live' -> Live] :
          /\ \A y \in Live' : SameRecord(m[y], y)
          /\ \A y, z \in Live' : m[y] = m[z] => y = z
          /\ \A x \in Live : \E y \in Live' : m[y] = x
    BY DEF StoreKept
  <1>2. ASSUME NEW y \in Live' PROVE y \in Place /\ m[y] \in Live /\ SameRecord(m[y], y) /\ CellAt(y)' = CellAt(m[y])
    <2>1. y \in Place
      BY <1>2 DEF Live, Standing, Place, Page, Slot
    <2> QED BY <1>1, <2>1, RecordSame
  <1> SUFFICES ASSUME NEW n \in Namespaces, NEW k \in Names, NEW r \in Answers, Reading(n, k, r)
               PROVE  Reading(n, k, r)'
    BY DEF ReadingsKept
  <1>3. ASSUME NEW y \in Live' PROVE Under(y, n, k)' <=> Under(m[y], n, k)
    <2>1. (\E x \in Live' : IsName(x)' /\ CellAt(x)'.name = n /\ CellAt(x)'.index = CellAt(y)'.ns)
            <=> \E x \in Live : IsName(x) /\ CellAt(x).name = n /\ CellAt(x).index = CellAt(m[y]).ns
      BY <1>1, <1>2, <1>3 DEF IsName
    <2> QED BY <1>2, <1>3, <2>1 DEF Under
  <1>4. CASE r = None /\ \A y \in Live : ~Under(y, n, k)
    <2>1. \A y \in Live' : ~Under(y, n, k)'
      BY <1>2, <1>3, <1>4
    <2> QED BY <1>4, <2>1 DEF Reading
  <1>5. ASSUME r \in Values, NEW x \in Live, Under(x, n, k), HoldsValue(x, r) PROVE Reading(n, k, r)'
    <2>1. PICK y \in Live' : m[y] = x
      BY <1>1
    <2>2. \A z \in Live' : z \in Place /\ \E w \in Live : SameRecord(w, z)
      BY <1>2
    <2>3. HoldsValue(y, r)'
      <3>1. SameRecord(x, y) /\ y \in Place /\ IsEntry(CellAt(x))
        BY <1>2, <1>5, <2>1 DEF Under
      <3> QED BY <1>5, <2>2, <3>1, HoldsMoves
    <2>4. Under(y, n, k)'
      BY <1>3, <1>5, <2>1
    <2> QED BY <1>5, <2>3, <2>4 DEF Reading
  <1> QED BY <1>4, <1>5 DEF Reading

\* the step leaves in place what counts before it and after it, and gives no index a chunk
StoreEdited ==
  /\ \A x \in Live' : x \in Place
  /\ \A x \in Live : x \in Live' => SameRecord(x, x)
  /\ \A x \in Live' : x \notin Live /\ IsChunk(x)' =>
       \A y \in Live : y \in Live' /\ IsIndex(y) => ~SameBlob(CellAt(x)', CellAt(y))
\* ... and the entries under the key are those that were
SameUnder(n, m) ==
  /\ \A y \in Live  : Under(y, n, m)  => y \in Live' /\ Under(y, n, m)'
  /\ \A y \in Live' : Under(y, n, m)' => y \in Live  /\ Under(y, n, m)

\* A key whose entries are left alone reads what it read.
LEMMA ReadingStays ==
  ASSUME FlashTypeOK, AllWhole, StoreEdited, NEW n, NEW m, SameUnder(n, m), NEW r, Reading(n, m, r)
  PROVE  Reading(n, m, r)'
  <1>1. CASE r = None /\ \A y \in Live : ~Under(y, n, m)
    BY <1>1 DEF Reading, SameUnder
  <1>2. ASSUME r \in Values, NEW y \in Live, Under(y, n, m), HoldsValue(y, r) PROVE Reading(n, m, r)'
    <2>1. y \in Live' /\ Under(y, n, m)' /\ SameRecord(y, y) /\ IsEntry(CellAt(y)) /\ y \in Place
      BY <1>2 DEF SameUnder, StoreEdited, Under
    <2>2. ASSUME NEW z \in Live', IsIndex(y), IsChunk(z)', SameBlob(CellAt(z)', CellAt(y))
          PROVE  z \in Place /\ \E w \in Live : SameRecord(w, z)
      <3>1. CASE z \in Live
        BY <2>2, <3>1 DEF StoreEdited
      <3>2. CASE z \notin Live
        BY <1>2, <2>1, <2>2, <3>2 DEF StoreEdited
      <3> QED BY <3>1, <3>2
    <2>3. HoldsValue(y, r)'
      BY <1>2, <2>1, <2>2, HoldsMoves
    <2> QED BY <1>2, <2>1, <2>3 DEF Reading
  <1> QED BY <1>1, <1>2 DEF Reading

\* The index a put writes last holds the value, once it counts.
LEMMA NewIndexHolds ==
  ASSUME FlashTypeOK, AllWhole, Built, Building, l.written >= 1, l.written \in Nat, l.offset = Size[op.value],
         l.start \in {0, 1}, NEW v, v = op.value, NEW y, CellAt(y)' = NewIndex,
         \A x \in Live' : IsChunk(x)' => x \in Live /\ SameRecord(x, x)
  PROVE  HoldsValue(y, v)'
  <1>1. PICK c : c = CellAt(y)'
    OBVIOUS
  <1>2. /\ c.kind = "idx" /\ c.count = l.written /\ c.size = Size[v] /\ c.ns = l.ns /\ c.name = op.name
        /\ c.start = l.start
    BY <1>1 DEF NewIndex
  <1>3. ASSUME NEW x \in Live', IsChunk(x)', SameBlob(CellAt(x)', c)
        PROVE  /\ x \in Live /\ IsChunk(x) /\ CellAt(x)' = CellAt(x) /\ Pending(CellAt(x))
               /\ IntactChunk(x) => IntactChunk(x)'
    <2>1. x \in Live /\ SameRecord(x, x) /\ x \in Place
      BY <1>3, LiveFacts
    <2>2. CellAt(x)' = CellAt(x) /\ (IsChunk(x) /\ IntactChunk(x) => IntactChunk(x)')
      BY <2>1, ChunkSame
    <2>3. OfCall(CellAt(x)) /\ CellAt(x).start = l.start /\ CellAt(x).number < l.written
      BY <1>2, <1>3, <2>2 DEF OfCall, SameBlob
    <2> QED BY <1>3, <2>1, <2>2, <2>3 DEF Pending, Awaiting, IsChunk
  <1>4. ASSUME NEW x \in Live', IsChunk(x)', SameBlob(CellAt(x)', c)
        PROVE  /\ CellAt(x)'.value = v /\ IntactChunk(x)'
               /\ CellAt(x)'.number = 0 => CellAt(x)'.offset = 0
               /\ CellAt(x)'.number = c.count - 1 => CellAt(x)'.offset + CellAt(x)'.size = Size[v]
               /\ \A z \in Live' :
                    IsChunk(z)' /\ SameBlob(CellAt(z)', c) /\ CellAt(z)'.number = CellAt(x)'.number + 1 =>
                      CellAt(z)'.offset = CellAt(x)'.offset + CellAt(x)'.size
    <2>1. /\ x \in Live /\ IsChunk(x) /\ CellAt(x)' = CellAt(x) /\ Pending(CellAt(x))
          /\ IntactChunk(x) => IntactChunk(x)'
      BY <1>3, <1>4
    <2>2. /\ CellAt(x).value = op.value /\ IntactChunk(x)
          /\ CellAt(x).number = 0 => CellAt(x).offset = 0
          /\ CellAt(x).number = l.written - 1 => CellAt(x).offset + CellAt(x).size = l.offset
          /\ \A z \in Live : IsChunk(z) /\ Pending(CellAt(z)) /\ CellAt(z).number = CellAt(x).number + 1 =>
               CellAt(z).offset = CellAt(x).offset + CellAt(x).size
      BY <2>1 DEF Built
    <2> QED BY <1>2, <1>3, <2>1, <2>2
  <1> QED BY <1>1, <1>2, <1>4 DEF HoldsValue, IsIndex

\* The namespace entry of the call's namespace is the one with the index the call has found.
LEMMA CallsNamespace ==
  ASSUME FlashTypeOK, AllWhole, NameKnown, NamePoint, NamesOnce, NamespacesApart, NEW x \in Live, IsName(x)
  PROVE  CellAt(x).name = op.ns <=> CellAt(x).index = l.ns
  <1>1. PICK z \in Live : IsName(z) /\ CellAt(z).name = op.ns /\ CellAt(z).index = l.ns
    BY DEF NameKnown
  <1>2. CellAt(x).index = CellAt(z).index => CellAt(x).name = CellAt(z).name
    <2>1. /\ x[1] \in DataPages /\ x[2] \in Slot /\ bits[x[1]][x[2]] = "written" /\ CellAt(x) = cell[x[1]][x[2]]
          /\ z[1] \in DataPages /\ z[2] \in Slot /\ bits[z[1]][z[2]] = "written" /\ CellAt(z) = cell[z[1]][z[2]]
      BY LiveFacts DEF WrittenHeader
    <2> QED BY <1>1, <2>1 DEF NamespacesApart, IsName
  <1>3. CellAt(x).name = CellAt(z).name => x = z
    BY <1>1 DEF NamesOnce
  <1> QED BY <1>1, <1>2, <1>3

\* A namespace's entry gives no key a value: no entry has its index yet.
LEMMA NameMarkReads ==
  ASSUME FlashTypeOK, CallState, Pages, FlashInv, HandInv, StoreInv, EntryMark, l.want = "ns"
  PROVE  ReadingsKept
  <1>1. /\ pc = "entrymark" /\ op.call = "put" /\ l.at \notin Live /\ CellAt(l.at) = EntryCell
        /\ Live = Standing /\ Standing' = Standing \cup {l.at} /\ AllWhole
        /\ \A x \in Live \cup {l.at} : x \in Place /\ CellAt(x)' = CellAt(x) /\ SameRecord(x, x)
        /\ pc \in IndexPoints
    BY EntryMarked
  <1>2. l' = l /\ pc' = "old"
    BY DEF EntryMark, Goto
  <1>3. PICK b : b = l.at
    OBVIOUS
  <1>4. IsName(b) /\ CellAt(b).index = l.ns
    BY <1>1, <1>3 DEF EntryCell, IsName
  <1>5. Live' = Live \cup {b}
    BY <1>1, <1>2, <1>3 DEF Live, Replacing, Retiring, CompactPoints
  <1>6. /\ \A x \in Live \cup {b} : x \in Place /\ CellAt(x)' = CellAt(x) /\ SameRecord(x, x)
    BY <1>1, <1>3
  <1>7. ~IsChunk(b) /\ ~IsEntry(CellAt(b))
    BY <1>4 DEF IsName, IsChunk, IsEntry
  <1>8. ASSUME NEW z \in Live, IsName(z) PROVE CellAt(z).index # l.ns
    <2>1. z[1] \in DataPages /\ z[2] \in Slot /\ bits[z[1]][z[2]] = "written" /\ CellAt(z) = cell[z[1]][z[2]]
      BY <1>1, LiveFacts DEF WrittenHeader
    <2> QED BY <1>1, <1>8, <2>1 DEF HandInv, IndexFresh, IsName
  <1>9. StoreEdited
    <2>1. ~IsChunk(b)'
      BY <1>6, <1>7 DEF IsChunk
    <2> QED BY <1>5, <1>6, <2>1 DEF StoreEdited
  <1>10. InNamed /\ AllWhole
    BY <1>1 DEF StoreInv, KeysInv
  <1>11. ASSUME NEW n \in Namespaces, NEW m \in Names PROVE SameUnder(n, m)
    <2>1. \A y \in Live : Under(y, n, m) => Under(y, n, m)'
      BY <1>5, <1>6 DEF Under, IsName
    <2>2. ASSUME NEW y \in Live', Under(y, n, m)' PROVE y \in Live /\ Under(y, n, m)
      <3>1. y \in Live /\ CellAt(y)' = CellAt(y) /\ IsEntry(CellAt(y)) /\ CellAt(y).name = m
        BY <1>5, <1>6, <1>7, <2>2 DEF Under
      <3>2. PICK x \in Live' : IsName(x)' /\ CellAt(x)'.name = n /\ CellAt(x)'.index = CellAt(y).ns
        BY <2>2, <3>1 DEF Under
      <3>3. x # b
        BY <1>4, <1>6, <1>8, <1>10, <3>1, <3>2 DEF InNamed
      <3> QED BY <1>5, <1>6, <3>1, <3>2, <3>3 DEF Under, IsName
    <2> QED BY <1>5, <2>1, <2>2 DEF SameUnder
  <1> QED BY <1>9, <1>10, <1>11, ReadingStays DEF ReadingsKept

\* A chunk that waits for its index is no part of any value there is.
LEMMA ChunkMarkReads ==
  ASSUME FlashTypeOK, CallState, Pages, FlashInv, HandInv, StoreInv, EntryMark, l.want = "chunk"
  PROVE  ReadingsKept
  <1>1. /\ pc = "entrymark" /\ op.call = "put" /\ l.at \notin Live /\ CellAt(l.at) = EntryCell
        /\ Live = Standing /\ Standing' = Standing \cup {l.at} /\ AllWhole
        /\ \A x \in Live \cup {l.at} : x \in Place /\ CellAt(x)' = CellAt(x) /\ SameRecord(x, x)
        /\ pc \in MorePoints /\ l \in Locals
    BY EntryMarked
  <1>2. pc' \in {"fill", "room"}
    BY DEF EntryMark, Goto
  <1>3. PICK b : b = l.at
    OBVIOUS
  <1>4. CellAt(b).kind = "chunk" /\ CellAt(b).ns = l.ns /\ CellAt(b).name = op.name /\ CellAt(b).start = l.start
    BY <1>1, <1>3 DEF EntryCell
  <1>5. Live' = Live \cup {b}
    BY <1>1, <1>2, <1>3 DEF Live, Replacing, Retiring, CompactPoints
  <1>6. /\ \A x \in Live \cup {b} : x \in Place /\ CellAt(x)' = CellAt(x) /\ SameRecord(x, x)
    BY <1>1, <1>3
  <1>7. ~IsName(b) /\ ~IsEntry(CellAt(b))
    BY <1>4 DEF IsName, IsEntry
  <1>8. ASSUME NEW y \in Live, IsIndex(y) PROVE ~SameBlob(CellAt(b), CellAt(y))
    <2>1. OldPoint /\ OldInPlace /\ ~(pc \in CompactPoints) /\ pc # "start"
      BY <1>1 DEF OldPoint, HandInv, CompactPoints
    <2>2. OfCall(CellAt(y)) => CellAt(y).start # l.start
      BY <1>1, <1>8, <2>1, NoIndexYet
    <2> QED BY <1>4, <2>2 DEF OfCall, SameBlob
  <1>9. StoreEdited
    BY <1>5, <1>6, <1>8 DEF StoreEdited
  <1>10. ASSUME NEW n \in Namespaces, NEW m \in Names PROVE SameUnder(n, m)
    BY <1>5, <1>6, <1>7 DEF SameUnder, Under, IsName
  <1> QED BY <1>1, <1>9, <1>10, ReadingStays DEF ReadingsKept

\* what the call leaves under its key
Leaves == IF op.call = "put" THEN op.value ELSE None

\* the call takes effect whole, on its own key
Decides ==
  /\ op.call \in {"put", "remove"} /\ op' = op
  /\ ~Applied /\ Applied'
  /\ ReadingsKeptBut(<<op.ns, op.name>>) /\ Reading(op.ns, op.name, Leaves)'

\* The first index of a key: the value is there.
LEMMA IndexMarkReads ==
  ASSUME FlashTypeOK, CallState, Pages, FlashInv, HandInv, StoreInv, EntryMark, l.want = "idx", l.old.status = "none"
  PROVE  Decides
  <1>1. /\ pc = "entrymark" /\ op.call = "put" /\ op' = op /\ l.at \notin Live /\ CellAt(l.at) = EntryCell
        /\ Live = Standing /\ Standing' = Standing \cup {l.at} /\ AllWhole
        /\ \A x \in Live \cup {l.at} : x \in Place /\ CellAt(x)' = CellAt(x) /\ SameRecord(x, x)
        /\ pc \in MorePoints /\ l \in Locals /\ Building /\ l.outcome = "open"
    BY EntryMarked
  <1>2. pc' = "sweep" /\ l' = [l EXCEPT !.outcome = "Ok"]
    BY DEF EntryMark, Goto
  <1>3. PICK b : b = l.at
    OBVIOUS
  <1>4. CellAt(b) = NewIndex
    BY <1>1, <1>3 DEF EntryCell, NewIndex
  <1>5. Live' = Live \cup {b}
    BY <1>1, <1>2, <1>3 DEF Live, Replacing, Retiring, CompactPoints
  <1>6. /\ \A x \in Live \cup {b} : x \in Place /\ CellAt(x)' = CellAt(x) /\ SameRecord(x, x)
    BY <1>1, <1>3
  <1>7. IsIndex(b) /\ IsEntry(CellAt(b)) /\ OfCall(CellAt(b)) /\ ~IsName(b) /\ ~IsChunk(b)
    BY <1>4 DEF NewIndex, IsIndex, IsEntry, OfCall, IsName, IsChunk
  <1>8. ~Applied /\ Applied'
    BY <1>1, <1>2 DEF Applied, Locals
  <1>9. NamePoint /\ NameKnown /\ Built /\ NamesOnce /\ NamespacesApart
    BY <1>1 DEF NamePoint, StoreInv, CallKnows, KeysInv, FlashInv
  <1>10. \A x \in Live : IsName(x) => (CellAt(x).name = op.ns <=> CellAt(x).index = l.ns)
    BY <1>1, <1>9, CallsNamespace
  <1>11. StoreEdited
    <2>1. ~IsChunk(b)'
      BY <1>6, <1>7 DEF IsChunk
    <2> QED BY <1>5, <1>6, <2>1 DEF StoreEdited
  <1>12. ReadingsKeptBut(<<op.ns, op.name>>)
    <2>1. ASSUME NEW n \in Namespaces, NEW m \in Names, <<n, m>> # <<op.ns, op.name>> PROVE SameUnder(n, m)
      <3>1. ~Under(b, n, m)'
        <4>1. ASSUME Under(b, n, m)' PROVE FALSE
          <5>1. CellAt(b)' = CellAt(b) /\ CellAt(b).name = op.name /\ CellAt(b).ns = l.ns
            BY <1>6, <1>7 DEF OfCall
          <5>2. m = op.name /\ \E x \in Live' : IsName(x)' /\ CellAt(x)'.name = n /\ CellAt(x)'.index = l.ns
            BY <4>1, <5>1 DEF Under
          <5>3. \E x \in Live : IsName(x) /\ CellAt(x).name = n /\ CellAt(x).index = l.ns
            BY <1>5, <1>6, <1>7, <5>2 DEF IsName
          <5> QED BY <1>10, <2>1, <5>2, <5>3
        <4> QED BY <4>1
      <3> QED BY <1>5, <1>6, <1>7, <3>1 DEF SameUnder, Under, IsName
    <2> QED BY <1>1, <1>11, <2>1, ReadingStays DEF ReadingsKeptBut
  <1>13. Reading(op.ns, op.name, Leaves)'
    <2>1. PICK v : v = op.value
      OBVIOUS
    <2>2. v \in Values /\ Leaves' = v
      BY <1>1, <2>1 DEF CallState, Calls, Leaves
    <2>3. HoldsValue(b, v)'
      <3>1. ~(OldPoint /\ pc # "chunk" /\ l.want = "idx") \/ (l.written >= 1 /\ l.offset = Size[op.value])
        BY <1>1, <1>9 DEF Built
      <3>2. l.written >= 1 /\ l.offset = Size[op.value] /\ l.written \in Nat /\ l.start \in {0, 1}
        BY <1>1, <3>1 DEF OldPoint, Locals
      <3>3. \A x \in Live' : IsChunk(x)' => x \in Live /\ SameRecord(x, x)
        BY <1>5, <1>6, <1>7 DEF IsChunk
      <3>4. CellAt(b)' = NewIndex
        BY <1>4, <1>6
      <3> QED BY <1>1, <1>9, <2>1, <2>2, <3>2, <3>3, <3>4, NewIndexHolds
    <2>4. Under(b, op.ns, op.name)'
      <3>1. PICK x \in Live : IsName(x) /\ CellAt(x).name = op.ns /\ CellAt(x).index = l.ns
        BY <1>9 DEF NameKnown
      <3> QED BY <1>1, <1>5, <1>6, <1>7, <3>1 DEF Under, IsName, OfCall
    <2>5. b \in Live'
      BY <1>5
    <2> QED BY <1>1, <2>2, <2>3, <2>4, <2>5 DEF Reading
  <1> QED BY <1>1, <1>8, <1>12, <1>13 DEF Decides

\* Erasing a chunk that no index names takes no value away.
LEMMA ChunkEraseReads ==
  ASSUME FlashTypeOK, CallState, Pages, FlashInv, HandInv, StoreInv, EraseMark, l.k = 0, ~Retiring
  PROVE  ReadingsKept
  <1>1. /\ pc = "erasespan" /\ Live' = Standing' /\ Standing' = Standing \ {l.at} /\ AllWhole /\ pc \notin CompactPoints
        /\ \A x \in Standing : x \in Place /\ CellAt(x)' = CellAt(x) /\ SameRecord(x, x)
    BY EraseMarked
  <1>2. PICK b : b = l.at
    OBVIOUS
  <1>3. Live' = Live \ {b}
    BY <1>1, <1>2 DEF Live, Replacing
  <1>4. \A x \in Live : x \in Place /\ CellAt(x)' = CellAt(x) /\ SameRecord(x, x)
    BY <1>1 DEF Live
  <1>5. ~IsName(b) /\ ~IsEntry(CellAt(b))
    BY <1>1, <1>2 DEF StoreInv, CallKnows, SweptInHand, IsChunk, IsName, IsEntry
  <1>6. StoreEdited
    BY <1>3, <1>4 DEF StoreEdited
  <1>7. ASSUME NEW n \in Namespaces, NEW m \in Names PROVE SameUnder(n, m)
    BY <1>3, <1>4, <1>5 DEF SameUnder, Under, IsName
  <1> QED BY <1>1, <1>6, <1>7, ReadingStays DEF ReadingsKept

\* Marking the head of the old value erased: the new one is there, or the key is gone.
LEMMA RetireReads ==
  ASSUME FlashTypeOK, CallState, Pages, FlashInv, HandInv, StoreInv, EraseMark, Retiring
  PROVE  Decides
  <1>1. /\ pc = "erasespan" /\ pc' \in {"erasespan", "sweep"} /\ op' = op
        /\ Live' = Standing' /\ Standing' = Standing \ {l.at} /\ AllWhole /\ pc \notin CompactPoints
        /\ \A x \in Standing : x \in Place /\ CellAt(x)' = CellAt(x) /\ SameRecord(x, x)
        /\ op.call \in {"put", "remove"} /\ l.k = 0 /\ l'.k = l.k + 1 /\ l'.outcome = l.outcome
        /\ l \in Locals
    BY EraseMarked DEF Retiring
  <1>2. PICK b : b = l.at
    OBVIOUS
  <1>3. /\ b \in Live /\ IsEntry(CellAt(b)) /\ OfCall(CellAt(b)) /\ l.outcome = "Ok" /\ l.sweep.done = 0
    BY <1>2 DEF StoreInv, CallKnows, RetiringInHand, Retiring
  <1>4. ~Applied /\ Applied'
    BY <1>1, <1>3 DEF Applied
  <1>5. NamePoint /\ NameKnown /\ Built /\ NamesOnce /\ KeysOnce /\ NamespacesApart /\ Waiting
    BY DEF NamePoint, StoreInv, CallKnows, KeysInv, FlashInv
  <1>6. \A x \in Live : IsName(x) => (CellAt(x).name = op.ns <=> CellAt(x).index = l.ns)
    BY <1>1, <1>5, CallsNamespace
  <1>7. /\ Live \subseteq Standing
        /\ \A w \in Standing \ Live : /\ IsEntry(CellAt(w)) /\ OfCall(CellAt(w))
                                      /\ op.call = "put" /\ CellAt(w) = NewIndex
    <2>1. \A w \in Standing \ Live : Replacing /\ IsEntry(CellAt(w)) /\ OfCall(CellAt(w))
      BY <1>1 DEF Live
    <2>2. Replacing => \A w \in Standing \ Live : CellAt(w) = NewIndex
      BY <1>5 DEF Waiting
    <2> QED BY <2>1, <2>2 DEF Replacing, Live
  <1>8. /\ \A x \in Live' : x \in Standing /\ x # b /\ x \in Place /\ CellAt(x)' = CellAt(x)
        /\ \A x \in Live : x # b => x \in Live' /\ SameRecord(x, x)
        /\ \A x \in Standing \ Live : x \in Live'
    BY <1>1, <1>2, <1>3, <1>7
  <1>9. \A x \in Live' : IsChunk(x)' \/ IsName(x)' => x \in Live
    BY <1>7, <1>8 DEF IsChunk, IsName, IsEntry
  <1>10. \A x \in Live : IsName(x) => x \in Live' /\ IsName(x)' /\ CellAt(x)' = CellAt(x)
    BY <1>3, <1>8 DEF IsName, IsEntry
  <1>11. StoreEdited
    BY <1>8, <1>9 DEF StoreEdited
  <1>12. ASSUME NEW y \in Live', NEW n, NEW m
         PROVE  /\ y \in Live => (Under(y, n, m)' <=> Under(y, n, m))
                /\ y \notin Live => (Under(y, n, m)' => <<n, m>> = <<op.ns, op.name>>)
    <2>1. CellAt(y)' = CellAt(y)
      BY <1>8
    <2>2. (\E x \in Live' : IsName(x)' /\ CellAt(x)'.name = n /\ CellAt(x)'.index = CellAt(y).ns)
            <=> \E x \in Live : IsName(x) /\ CellAt(x).name = n /\ CellAt(x).index = CellAt(y).ns
      BY <1>8, <1>9, <1>10 DEF IsName
    <2>3. Under(y, n, m)' <=>
            /\ IsEntry(CellAt(y)) /\ CellAt(y).name = m
            /\ \E x \in Live : IsName(x) /\ CellAt(x).name = n /\ CellAt(x).index = CellAt(y).ns
      BY <2>1, <2>2 DEF Under
    <2>4. CASE y \in Live
      BY <2>3, <2>4 DEF Under
    <2>5. CASE y \notin Live
      <3>1. OfCall(CellAt(y))
        BY <1>7, <1>8, <2>5
      <3> QED BY <1>6, <2>3, <2>5, <3>1 DEF OfCall
    <2> QED BY <2>4, <2>5
  <1>13. ReadingsKeptBut(<<op.ns, op.name>>)
    <2>1. ASSUME NEW n \in Namespaces, NEW m \in Names, <<n, m>> # <<op.ns, op.name>> PROVE SameUnder(n, m)
      <3>1. ~Under(b, n, m)
        BY <1>3, <1>6, <2>1 DEF Under, OfCall
      <3>2. \A y \in Live : Under(y, n, m) => y \in Live' /\ Under(y, n, m)'
        BY <1>8, <1>12, <3>1
      <3>3. \A y \in Live' : Under(y, n, m)' => y \in Live /\ Under(y, n, m)
        BY <1>12, <2>1
      <3> QED BY <3>2, <3>3 DEF SameUnder
    <2> QED BY <1>1, <1>11, <2>1, ReadingStays DEF ReadingsKeptBut
  <1>14. CASE op.call = "put"
    <2>1. PICK v : v = op.value
      OBVIOUS
    <2>2. v \in Values /\ Leaves' = v
      BY <1>1, <1>14, <2>1 DEF CallState, Calls, Leaves
    <2>3. Replacing /\ Building
      BY <1>14 DEF Replacing, Building
    <2>4. PICK w \in Standing : CellAt(w) = NewIndex /\ Standing \ Live = {w}
      BY <1>5, <2>3 DEF Waiting
    <2>5. w \in Live' /\ w \in Place /\ CellAt(w)' = NewIndex
      BY <1>8, <2>4
    <2>6. HoldsValue(w, v)'
      <3>1. l.written >= 1 /\ l.offset = Size[op.value] /\ l.written \in Nat /\ l.start \in {0, 1}
        BY <1>1, <1>5, <2>3 DEF Built, Locals
      <3>2. \A x \in Live' : IsChunk(x)' => x \in Live /\ SameRecord(x, x)
        BY <1>8, <1>9
      <3> QED BY <1>1, <1>5, <2>1, <2>2, <2>3, <2>5, <3>1, <3>2, NewIndexHolds
    <2>7. Under(w, op.ns, op.name)'
      <3>1. PICK x \in Live : IsName(x) /\ CellAt(x).name = op.ns /\ CellAt(x).index = l.ns
        BY <1>5 DEF NameKnown
      <3>2. x \in Live' /\ IsName(x)' /\ CellAt(x)'.name = op.ns /\ CellAt(x)'.index = l.ns
        BY <1>10, <3>1
      <3>3. CellAt(w)'.kind = "idx" /\ CellAt(w)'.name = op.name /\ CellAt(w)'.ns = l.ns
        BY <2>5 DEF NewIndex
      <3> QED BY <1>1, <3>2, <3>3 DEF Under, IsEntry
    <2>8. Reading(op.ns, op.name, Leaves)'
      BY <1>1, <2>2, <2>5, <2>6, <2>7 DEF Reading
    <2> QED BY <1>1, <1>4, <1>13, <2>8 DEF Decides
  <1>15. CASE op.call = "remove"
    <2>1. Live' \subseteq Live
      BY <1>7, <1>8, <1>15
    <2>2. ASSUME NEW y \in Live', Under(y, op.ns, op.name)' PROVE FALSE
      <3>1. PICK n, m : n = op.ns /\ m = op.name
        OBVIOUS
      <3>2. Under(y, n, m)'
        BY <1>1, <2>2, <3>1
      <3>3. y \in Live /\ y # b /\ Under(y, n, m)
        BY <1>8, <1>12, <2>1, <3>2
      <3>4. CellAt(y).ns = l.ns /\ CellAt(y).name = op.name /\ IsEntry(CellAt(y))
        BY <1>6, <3>1, <3>3 DEF Under
      <3> QED BY <1>3, <1>5, <3>3, <3>4 DEF KeysOnce, SameKey, OfCall
    <2>3. Leaves' = None
      BY <1>1, <1>15 DEF Leaves
    <2>4. Reading(op.ns, op.name, Leaves)'
      BY <1>1, <2>2, <2>3 DEF Reading
    <2> QED BY <1>1, <1>4, <1>13, <2>4 DEF Decides
  <1> QED BY <1>1, <1>14, <1>15

----------------------------------------------------------------------------
(***************************************************************************)
(* What the caller hears: nothing, the effect, or an answer that is true.  *)
(***************************************************************************)
\* a step that no caller notices
Silent == ReadingsKept /\ op' = op /\ result' = result /\ (Applied' <=> Applied)

\* the call returns, and says of its effect what is so
Answered ==
  /\ ReadingsKept /\ op' = op /\ ~Applied'
  /\ \/ result' = "Ok" /\ (Applied \/ op.call = "scrub")
     \/ result' = "Absent" /\ op.call = "remove" /\ ~Applied /\ Reading(op.ns, op.name, None)
     \/ result' \in {"BufferTooSmall", "InvalidFormat", "Corrupt", "Flash"} /\ ~Applied

\* what a step of the writer is to the caller
Heard ==
  /\ pc # "idle"
  /\ \/ pc' # "idle" /\ (Silent \/ (Decides /\ result' = result))
     \/ pc' = "idle" /\ Answered

\* What counts is where it was: every key reads what it read.
LEMMA SettledReadings ==
  ASSUME FlashTypeOK, AllWhole, Settled
  PROVE  ReadingsKept
  BY StoreStays, KeptReadings DEF Settled

\* A call takes effect by the mark that ends it, not before.
LEMMA NotApplied ==
  ASSUME pc \notin {"erasespan", "sweep"}
  PROVE  ~Applied
  BY DEF Applied

\* A step on the way to the next thing to write is not noticed.
LEMMA SteadySilent ==
  ASSUME FlashTypeOK, AllWhole, StoreKept, Steady, result' = result
  PROVE  Silent
  <1>1. ~Applied /\ ~Applied' /\ op' = op
    BY DEF Steady, Applied
  <1> QED BY <1>1, KeptReadings DEF Silent

\* A call that ends before it has done anything answers an error, or that the key is not there.
LEMMA AnswerHeard ==
  ASSUME FlashTypeOK, AllWhole, Settled, pc \notin {"idle", "erasespan", "sweep"}, NEW a, Answer(a),
         \/ a \in {"BufferTooSmall", "InvalidFormat", "Corrupt", "Flash"}
         \/ a = "Ok" /\ op.call = "scrub"
         \/ a = "Absent" /\ op.call = "remove" /\ Reading(op.ns, op.name, None)
  PROVE  Heard
  <1>1. result' = a /\ pc' = "idle" /\ op' = op
    BY DEF Answer, Goto
  <1>2. ~Applied /\ ~Applied'
    BY <1>1 DEF Applied
  <1> QED BY <1>1, <1>2, SettledReadings DEF Heard, Answered

\* A put finds its namespace, or an index for a new one, or has none left.
LEMMA PutBeginHeard ==
  ASSUME FlashTypeOK, CallState, Pages, FlashInv, HandInv, StoreInv, PutBegin
  PROVE  Heard
  <1>1. Settled /\ AllWhole
    BY PutBeginStore DEF FlashInv
  <1>2. pc = "begin"
    BY DEF PutBegin
  <1>3. CASE pc' \in {"old", "room"} /\ op' = op /\ result' = result
    <2>1. ~Applied /\ ~Applied'
      BY <1>2, <1>3 DEF Applied
    <2> QED BY <1>1, <1>2, <1>3, <2>1, SettledReadings DEF Heard, Silent
  <1>4. ASSUME Answer("Corrupt") \/ Answer("BufferTooSmall") PROVE Heard
    BY <1>1, <1>2, <1>4, AnswerHeard
  <1> QED BY <1>3, <1>4 DEF PutBegin, Goto, Keep

\* A put finds the value to replace.
LEMMA PutFindOldHeard ==
  ASSUME FlashTypeOK, CallState, Pages, FlashInv, HandInv, StoreInv, PutFindOld
  PROVE  Heard
  <1>1. Settled /\ AllWhole
    BY PutFindOldStore DEF FlashInv
  <1>2. pc = "old"
    BY DEF PutFindOld
  <1>3. CASE pc' = "chunk" /\ op' = op /\ result' = result
    <2>1. ~Applied /\ ~Applied'
      BY <1>2, <1>3 DEF Applied
    <2> QED BY <1>1, <1>2, <1>3, <2>1, SettledReadings DEF Heard, Silent
  <1>4. ASSUME Answer("Corrupt") PROVE Heard
    BY <1>1, <1>2, <1>4, AnswerHeard
  <1> QED BY <1>3, <1>4 DEF PutFindOld, Goto, Keep

\* A remove finds what to erase, or answers that there is nothing: then there is nothing.
LEMMA RemoveBeginHeard ==
  ASSUME FlashTypeOK, CallState, Pages, FlashInv, HandInv, StoreInv, RemoveBegin
  PROVE  Heard
  <1>1. Settled /\ AllWhole
    BY RemoveBeginStore DEF FlashInv
  <1>2. pc = "begin" /\ op.call = "remove" /\ op \in Calls
    BY DEF RemoveBegin, CallState
  <1>3. Headers(bits) = Standing /\ NamesFound /\ EntriesFound /\ KeysInv
    BY <1>2, Lookups DEF StoreInv
  <1>4. op.ns \in Namespaces /\ op.name \in Names
    BY <1>2 DEF Calls
  <1> DEFINE found == FindNamespace[Headers(bits)][op.ns]
             i == CellAt(found.place).index
             x == FindNotChunk[Headers(bits)][<<i, op.name>>]
  <1>5. \/ Answer("Corrupt")
        \/ found.status = "none" /\ Answer("Absent")
        \/ found.status = "found" /\ x.status = "none" /\ Answer("Absent")
        \/ Retire(i, x.place, CellAt(x.place))
    BY DEF RemoveBegin
  <1> HIDE DEF x, i, found
  <1>6. CASE Answer("Corrupt")
    BY <1>1, <1>2, <1>6, AnswerHeard
  <1>7. CASE found.status = "none" /\ Answer("Absent")
    <2>1. \A z \in Live : ~(IsName(z) /\ CellAt(z).name = op.ns)
      <3>1. ASSUME NEW z \in Live, IsName(z), CellAt(z).name = op.ns PROVE FALSE
        <4>1. found = Found(z)
          BY <1>3, <1>4, <3>1 DEF NamesFound, found
        <4> QED BY <1>7, <4>1 DEF Found
      <3> QED BY <3>1
    <2>2. Reading(op.ns, op.name, None)
      BY <2>1 DEF Reading, Under
    <2> QED BY <1>1, <1>2, <1>7, <2>2, AnswerHeard
  <1>8. CASE found.status = "found" /\ x.status = "none" /\ Answer("Absent")
    <2>1. PICK z \in Live : IsName(z) /\ CellAt(z).name = op.ns
      <3>1. (\A z \in Live : ~(IsName(z) /\ CellAt(z).name = op.ns)) => found = Absent
        BY <1>3, <1>4 DEF NamesFound, found
      <3> QED BY <1>8, <3>1 DEF Absent
    <2>2. found = Found(z)
      BY <1>3, <1>4, <2>1 DEF NamesFound, found
    <2>3. i = CellAt(z).index
      BY <2>2 DEF i, Found
    <2>4. ASSUME NEW y \in Live, Under(y, op.ns, op.name) PROVE FALSE
      <3>1. CellAt(y).ns = i /\ IsEntry(CellAt(y)) /\ CellAt(y).name = op.name
        BY <1>3, <2>1, <2>3, <2>4 DEF Under, KeysInv, NamesOnce
      <3>2. i \in Nat
        BY <1>1, <3>1, LiveFacts, EntryFields DEF IsEntry
      <3>3. x = Found(y)
        BY <1>3, <1>4, <3>1, <3>2 DEF EntriesFound, x
      <3> QED BY <1>8, <3>3 DEF Found
    <2>5. Reading(op.ns, op.name, None)
      BY <2>4 DEF Reading
    <2> QED BY <1>1, <1>2, <1>8, <2>5, AnswerHeard
  <1>9. CASE Retire(i, x.place, CellAt(x.place))
    <2>1. pc' = "erasespan" /\ op' = op /\ result' = result /\ l'.k = 0 /\ l'.sweep.done = 0
      <3>1. l \in Locals
        BY DEF CallState
      <3> QED BY <1>9, <3>1 DEF Retire, Goto, Keep, Locals
    <2>2. ~Applied /\ ~Applied'
      BY <1>2, <2>1 DEF Applied
    <2> QED BY <1>1, <1>2, <2>1, <2>2, SettledReadings DEF Heard, Silent
  <1> QED BY <1>5, <1>6, <1>7, <1>8, <1>9

\* A page found, started or closed, or a compaction begun.
LEMMA ActivatePageHeard ==
  ASSUME FlashTypeOK, CallState, Pages, FlashInv, StoreInv, ActivatePage
  PROVE  Heard
  <1>1. Settled /\ AllWhole
    BY ActivatePageStore DEF FlashInv
  <1>2. pc = "activate"
    BY DEF ActivatePage
  <1>3. CASE pc' = "start" /\ op' = op /\ result' = result
    <2>1. ~Applied /\ ~Applied'
      BY <1>2, <1>3 DEF Applied
    <2> QED BY <1>1, <1>2, <1>3, <2>1, SettledReadings DEF Heard, Silent
  <1>4. ASSUME Fail("BufferTooSmall") PROVE Heard
    <2>1. CASE Answer("BufferTooSmall")
      BY <1>1, <1>2, <2>1, AnswerHeard
    <2>2. CASE pc' = "sweep" /\ op' = op /\ result' = result /\ l' = [l EXCEPT !.outcome = "BufferTooSmall",
                 !.sweep = [start |-> l.start, count |-> l.written, done |-> 0]]
      <3>1. ~Applied /\ ~Applied'
        BY <1>2, <2>2 DEF Applied, CallState, Locals
      <3> QED BY <1>1, <1>2, <2>2, <3>1, SettledReadings DEF Heard, Silent
    <2> QED BY <1>4, <2>1, <2>2 DEF Fail, Goto, Keep
  <1> QED BY <1>3, <1>4 DEF ActivatePage, Compact, Goto, Keep

\* One chunk more, or more than a value may have.
LEMMA ChunkLoopHeard ==
  ASSUME FlashTypeOK, CallState, Pages, FlashInv, StoreInv, ChunkLoop
  PROVE  Heard
  <1>1. Settled /\ AllWhole
    BY ChunkLoopStore DEF FlashInv
  <1>2. pc = "chunk"
    BY DEF ChunkLoop
  <1>3. CASE pc' = "room" /\ op' = op /\ result' = result
    <2>1. ~Applied /\ ~Applied'
      BY <1>2, <1>3 DEF Applied
    <2> QED BY <1>1, <1>2, <1>3, <2>1, SettledReadings DEF Heard, Silent
  <1>4. ASSUME Fail("InvalidFormat") PROVE Heard
    <2>1. CASE Answer("InvalidFormat")
      BY <1>1, <1>2, <2>1, AnswerHeard
    <2>2. CASE pc' = "sweep" /\ op' = op /\ result' = result /\ l' = [l EXCEPT !.outcome = "InvalidFormat",
                 !.sweep = [start |-> l.start, count |-> l.written, done |-> 0]]
      <3>1. ~Applied /\ ~Applied'
        BY <1>2, <2>2 DEF Applied, CallState, Locals
      <3> QED BY <1>1, <1>2, <2>2, <3>1, SettledReadings DEF Heard, Silent
    <2> QED BY <1>4, <2>1, <2>2 DEF Fail, Goto, Keep
  <1> QED BY <1>3, <1>4 DEF ChunkLoop, Goto, Keep

\* A scrub shows nothing while it runs.
LEMMA ScrubHeard ==
  ASSUME FlashTypeOK, CallState, Pages, FlashInv, StoreInv, Scrub
  PROVE  Heard
  <1>1. Settled /\ AllWhole
    BY ScrubStore DEF FlashInv
  <1>2. pc = "scrub" /\ op.call = "scrub"
    BY DEF Scrub, CallState, Routing
  <1>3. CASE pc' \in {"scrub", "start"} /\ op' = op /\ result' = result
    <2>1. ~Applied /\ ~Applied'
      BY <1>2, <1>3 DEF Applied
    <2> QED BY <1>1, <1>2, <1>3, <2>1, SettledReadings DEF Heard, Silent
  <1>4. ASSUME Answer("Ok") \/ Answer("BufferTooSmall") PROVE Heard
    BY <1>1, <1>2, <1>4, AnswerHeard
  <1> QED BY <1>2, <1>3, <1>4 DEF Scrub, Compact, Goto, Keep

\* The chunks of a value gone are erased one after another; then the call answers what it did.
LEMMA SweepHeard ==
  ASSUME FlashTypeOK, CallState, Pages, FlashInv, HandInv, StoreInv, Sweep
  PROVE  Heard
  <1>1. Settled /\ AllWhole
    BY SweepStore DEF FlashInv
  <1>2. /\ pc = "sweep" /\ l \in Locals /\ op \in Calls /\ op.call \in {"put", "remove"} /\ l.outcome # "open"
    BY DEF Sweep, CallState, Routing
  <1>3. Headers(bits) = Standing /\ ChunksFound
    BY <1>2, Lookups
  <1>4. /\ l.ns \in Nat /\ op.name \in Names /\ l.sweep.start \in {0, 1} /\ l.sweep.done \in Nat
        /\ l.outcome \in {"Ok", "BufferTooSmall", "InvalidFormat", "Flash"}
    BY <1>2, FormatAssumption DEF Locals, Calls
  <1> DEFINE x == FindChunk[Headers(bits)][<<l.ns, op.name>>][<<l.sweep.start, l.sweep.done>>]
  <1>5. x.status # "corrupt"
    <2>1. x = Absent \/ \E z \in Live : x = Found(z)
      <3>1. CASE \A z \in Live : ~Numbered(z, l.ns, op.name, l.sweep.start, l.sweep.done)
        BY <1>3, <1>4, <3>1 DEF ChunksFound
      <3>2. ASSUME NEW z \in Live, Numbered(z, l.ns, op.name, l.sweep.start, l.sweep.done) PROVE x = Found(z)
        BY <1>3, <1>4, <3>2 DEF ChunksFound
      <3> QED BY <3>1, <3>2
    <2> HIDE DEF x
    <2> QED BY <2>1 DEF Absent, Found
  <1>6. \/ Answer(l.outcome)
        \/ x.status = "corrupt"
        \/ l' = [l EXCEPT !.sweep.done = @ + 1] /\ Keep /\ UNCHANGED pc
        \/ /\ l' = [l EXCEPT !.sweep.done = @ + 1, !.at = x.place, !.k = 0, !.span = SpanOf(CellAt(x.place))]
           /\ Goto("erasespan") /\ Keep
    BY DEF Sweep
  <1> HIDE DEF x
  <1>7. CASE Answer(l.outcome)
    <2>1. result' = l.outcome /\ pc' = "idle" /\ op' = op
      BY <1>7 DEF Answer, Goto
    <2>2. (Applied <=> l.outcome = "Ok") /\ ~Applied'
      BY <1>2, <2>1 DEF Applied
    <2>3. Answered
      BY <1>1, <1>4, <2>1, <2>2, SettledReadings DEF Answered
    <2> QED BY <1>2, <2>1, <2>3 DEF Heard
  <1>8. CASE l' = [l EXCEPT !.sweep.done = @ + 1] /\ Keep /\ UNCHANGED pc
    <2>1. pc' = "sweep" /\ op' = op /\ result' = result /\ l'.outcome = l.outcome
      BY <1>2, <1>8 DEF Keep, Locals
    <2>2. Applied' <=> Applied
      BY <1>2, <2>1 DEF Applied
    <2> QED BY <1>1, <1>2, <2>1, <2>2, SettledReadings DEF Heard, Silent
  <1>9. CASE /\ l' = [l EXCEPT !.sweep.done = @ + 1, !.at = x.place, !.k = 0, !.span = SpanOf(CellAt(x.place))]
             /\ Goto("erasespan") /\ Keep
    <2>1. pc' = "erasespan" /\ op' = op /\ result' = result /\ l'.outcome = l.outcome /\ l'.sweep.done = l.sweep.done + 1
      BY <1>2, <1>9 DEF Keep, Goto, Locals
    <2>2. Applied' <=> Applied
      BY <1>2, <1>4, <2>1 DEF Applied
    <2> QED BY <1>1, <1>2, <2>1, <2>2, SettledReadings DEF Heard, Silent
  <1> QED BY <1>5, <1>6, <1>7, <1>8, <1>9

\* Writing and marking an entry is noticed when the entry is the index of a key's first value.
LEMMA EntryMarkHeard ==
  ASSUME FlashTypeOK, CallState, Pages, FlashInv, HandInv, StoreInv, EntryMark
  PROVE  Heard
  <1>1. pc = "entrymark" /\ l \in Locals /\ l.outcome = "open" /\ AllWhole /\ op' = op
    BY EntryMarked
  <1>2. result' = result /\ pc' # "idle"
    BY DEF EntryMark, Goto, Keep, Retire
  <1>3. CASE l.want = "idx" /\ l.old.status = "none"
    BY <1>1, <1>2, <1>3, IndexMarkReads DEF Heard
  <1>4. CASE ~(l.want = "idx" /\ l.old.status = "none")
    <2>1. l.want \in {"ns", "chunk", "idx"} /\ l.old.status \in {"none", "found"}
      BY <1>1 DEF Locals
    <2>2. ReadingsKept
      <3>1. CASE l.want = "ns"
        BY <3>1, NameMarkReads
      <3>2. CASE l.want = "chunk"
        BY <3>2, ChunkMarkReads
      <3>3. CASE l.want = "idx" /\ l.old.status = "found"
        BY <1>1, <3>3, ReplaceMarkStore, SettledReadings
      <3> QED BY <1>4, <2>1, <3>1, <3>2, <3>3
    <2>3. \/ pc' \in {"old", "fill", "room"}
          \/ pc' = "erasespan" /\ l'.k = 0 /\ l'.sweep.done = 0
      <3>1. CASE l.want # "idx"
        BY <1>1, <2>1, <3>1 DEF EntryMark, Goto
      <3>2. CASE l.want = "idx"
        <4>1. Retire(l.ns, l.old.place, l.oldCell)
          BY <1>1, <1>4, <2>1, <3>2 DEF EntryMark
        <4>2. pc' = "erasespan" /\ l'.k = 0
          BY <1>1, <4>1 DEF Retire, Goto, Locals
        <4>3. l'.sweep = IF l.oldCell.kind = "idx" THEN [start |-> l.oldCell.start, count |-> l.oldCell.count, done |-> 0]
                         ELSE [start |-> 0, count |-> 0, done |-> 0]
          BY <1>1, <4>1 DEF Retire, Locals
        <4> QED BY <4>2, <4>3
      <3> QED BY <3>1, <3>2
    <2>4. ~Applied /\ ~Applied'
      BY <1>1, <2>3 DEF Applied
    <2> QED BY <1>1, <1>2, <2>2, <2>4 DEF Heard, Silent
  <1> QED BY <1>3, <1>4

\* Marking slots erased is noticed when it is the head of the value replaced or removed.
LEMMA EraseMarkHeard ==
  ASSUME FlashTypeOK, CallState, Pages, FlashInv, HandInv, StoreInv, EraseMark
  PROVE  Heard
  <1>1. /\ pc = "erasespan" /\ pc' \in {"erasespan", "sweep"} /\ op' = op /\ AllWhole
        /\ l'.k = l.k + 1 /\ l.k \in Nat /\ l'.sweep = l.sweep /\ l'.outcome = l.outcome /\ l \in Locals
    BY EraseMarked
  <1>2. result' = result
    BY DEF EraseMark, Keep
  <1>3. CASE Retiring
    BY <1>1, <1>2, <1>3, RetireReads DEF Heard
  <1>4. CASE ~Retiring
    <2>1. ReadingsKept
      <3>1. CASE l.k > 0
        BY <1>1, <3>1, DataEraseStore, SettledReadings
      <3>2. CASE l.k = 0
        BY <1>4, <3>2, ChunkEraseReads
      <3> QED BY <1>1, <3>1, <3>2
    <2>2. l.k > 0 \/ l.sweep.done > 0
      BY <1>1, <1>4 DEF Retiring, Locals
    <2>3. Applied' <=> Applied
      BY <1>1, <2>2 DEF Applied
    <2> QED BY <1>1, <1>2, <2>1, <2>3 DEF Heard, Silent
  <1> QED BY <1>3, <1>4

\* Every step of the writer is silent, or it is the one that decides, or it answers.
LEMMA WriterHeard ==
  ASSUME IInv, CleanInv, TidyInv, StoreInv, Writer
  PROVE  Heard
  <1>1. FlashTypeOK /\ CallState /\ Pages /\ EmptyBlank /\ FlashInv /\ HandInv /\ l \in Locals
    BY DEF IInv, CallState, CleanInv, TidyInv
  <1>2. AllWhole /\ FreeEmpty /\ CopyInHand /\ CopyMap
    BY <1>1 DEF FlashInv, HandInv, StoreInv
  <1>3. CASE StoreKept /\ Steady /\ result' = result /\ pc # "idle" /\ pc' # "idle"
    BY <1>1, <1>2, <1>3, SteadySilent DEF Heard
  <1>4. CASE Quiet /\ result' = result /\ pc # "idle" /\ pc' # "idle"
    <2>1. StoreKept /\ Steady
      BY <1>4, StoreStays DEF Quiet, Settled
    <2> QED BY <1>3, <1>4, <2>1
  <1>5. CASE PutBegin \/ PutFindOld \/ RemoveBegin
    BY <1>1, <1>5, PutBeginHeard, PutFindOldHeard, RemoveBeginHeard
  <1>6. CASE PageWithRoom \/ CheckRoom
    <2>1. result' = result /\ pc # "idle" /\ pc' # "idle"
      BY <1>6 DEF PageWithRoom, CheckRoom, Deliver, Goto, Keep
    <2> QED BY <1>1, <1>4, <1>6, <2>1, PageWithRoomQuiet, CheckRoomQuiet
  <1>7. CASE StartErase \/ StartHeader
    <2>1. result' = result /\ pc # "idle" /\ pc' # "idle"
      BY <1>7 DEF StartErase, StartHeader, Goto, Keep
    <2> QED BY <1>1, <1>2, <1>4, <1>7, <2>1, StartEraseQuiet, StartHeaderQuiet
  <1>8. CASE ActivatePage \/ ChunkLoop \/ Scrub
    BY <1>1, <1>8, ActivatePageHeard, ChunkLoopHeard, ScrubHeard
  <1>9. CASE CopyCell \/ CopyMark \/ CopyDone
    <2>1. result' = result /\ pc # "idle" /\ pc' # "idle"
      BY <1>9 DEF CopyCell, CopyMark, CopyDone, Goto, Keep
    <2> QED BY <1>1, <1>2, <1>4, <1>9, <2>1, CopyCellQuiet, CopyMarkQuiet, CopyDoneQuiet
  <1>10. CASE Reclaim
    <2>1. result' = result /\ pc # "idle" /\ pc' # "idle"
      BY <1>10 DEF Reclaim, Goto, Keep
    <2> QED BY <1>1, <1>2, <1>3, <1>10, <2>1, ReclaimMoves
  <1>11. CASE DataWrite \/ DataMark \/ EntryWrite \/ Fill
    <2>1. result' = result /\ pc # "idle" /\ pc' # "idle"
      BY <1>11 DEF DataWrite, DataMark, EntryWrite, Fill, Goto, Keep
    <2> QED BY <1>1, <1>4, <1>11, <2>1, DataWriteQuiet, DataMarkQuiet, EntryWriteQuiet, FillQuiet
  <1>12. CASE EntryMark \/ EraseMark
    BY <1>1, <1>12, EntryMarkHeard, EraseMarkHeard
  <1>13. CASE Sweep
    BY <1>1, <1>13, SweepHeard
  <1> QED BY <1>5, <1>6, <1>7, <1>8, <1>9, <1>10, <1>11, <1>12, <1>13 DEF Writer

----------------------------------------------------------------------------
(***************************************************************************)
(* The writer is the map.                                                  *)
(***************************************************************************)
\* a call is open exactly while the writer is in it
Busy == result = "busy" <=> pc # "idle"

\* a call that took effect left its outcome under its key, also when it has answered
Effect ==
  Applied \/ (pc = "idle" /\ op.call \in {"put", "remove"} /\ result = "Ok") => Reading(op.ns, op.name, Leaves)

\* the invariant of the refinement
MapInv == OrderInv /\ EachReads /\ Busy /\ Effect

\* a call is made, or nothing happens
Called == pc = "idle" /\ pc' # "idle" /\ result' = "busy" /\ op' \in Calls /\ ~Applied /\ ~Applied' /\ ReadingsKept
Unheard == pc' = pc /\ op' = op /\ result' = result /\ (Applied' <=> Applied) /\ ReadingsKept

\* Every step that does not fail is one of these.
LEMMA NextHeard ==
  OrderInv /\ OrderInv' /\ (NothingFailed /\ OldUnmoved)' /\ [Next]_vars => Heard \/ Called \/ Unheard
  <1> SUFFICES ASSUME OrderInv, NothingFailed', [Next]_vars PROVE Heard \/ Called \/ Unheard
    OBVIOUS
  <1>0. /\ IInv /\ CleanInv /\ TidyInv /\ StoreInv /\ DataInHand /\ FlashTypeOK /\ CallState /\ AllWhole
        /\ bound \in BoundType
    BY DEF OrderInv, FlashOrder, IInv, TidyInv, FlashInv
  <1>1. CASE Writer
    BY <1>0, <1>1, WriterHeard
  <1>2. CASE \E c \in Calls : Call(c)
    <2>1. PICK c \in Calls : Call(c)
      BY <1>2
    <2>2. pc = "idle" /\ pc' \in {"begin", "scrub"} /\ result' = "busy" /\ op' = c
      BY <2>1 DEF Call, Goto
    <2>3. Settled
      BY <1>0, <2>1, CallStore
    <2>4. ~Applied /\ ~Applied'
      BY <2>2 DEF Applied
    <2> QED BY <1>0, <2>2, <2>3, <2>4, SettledReadings DEF Called
  <1>3. CASE UNCHANGED vars
    <2>1. Settled
      BY <1>0, <1>3, StutterStore
    <2>2. pc' = pc /\ op' = op /\ result' = result /\ l' = l
      BY <1>3 DEF vars
    <2>3. Applied' <=> Applied
      BY <2>2 DEF Applied
    <2> QED BY <1>0, <2>1, <2>2, <2>3, SettledReadings DEF Unheard
  <1> QED BY <1>0, <1>1, <1>2, <1>3, FailuresCounted

\* A call's outcome is a value, or that there is none.
LEMMA LeavesAnswer ==
  ASSUME op \in Calls, op.call \in {"put", "remove"}
  PROVE  op.ns \in Namespaces /\ op.name \in Names /\ Leaves \in Answers
  BY DEF Calls, Leaves, Answers

\* After such a step too every key reads a value or none, and what a call did is there.
LEMMA HeardMap ==
  ASSUME CallState, CallState', EachReads, Busy, Effect, Heard \/ Called \/ Unheard
  PROVE  EachReads' /\ Busy' /\ Effect'
  <1>0. op \in Calls /\ (Applied => op.call \in {"put", "remove"})
    BY DEF CallState, Routing, Applied
  <1>1. CASE ReadingsKept
    <2>1. EachReads'
      BY <1>1 DEF EachReads, ReadingsKept, Answers
    <2>2. Busy' /\ (op' = op \/ pc' # "idle")
      BY <1>1 DEF Heard, Silent, Decides, Answered, Called, Unheard, Busy
    <2>3. ASSUME op' = op, Reading(op.ns, op.name, Leaves), op.call \in {"put", "remove"}
          PROVE  Reading(op.ns, op.name, Leaves)'
      <3>1. PICK n \in Namespaces, m \in Names, r \in Answers : n = op.ns /\ m = op.name /\ r = Leaves
        BY <1>0, <2>3, LeavesAnswer
      <3>2. Leaves' = r
        BY <2>3, <3>1 DEF Leaves
      <3>3. Reading(n, m, r)'
        BY <1>1, <2>3, <3>1 DEF ReadingsKept
      <3> QED BY <2>3, <3>1, <3>2, <3>3
    <2>4. CASE Heard
      <3>1. CASE Silent /\ pc' # "idle"
        <4>1. Applied' => Applied /\ op' = op
          BY <3>1 DEF Silent
        <4> QED BY <1>0, <2>1, <2>2, <2>3, <3>1, <4>1 DEF Effect
      <3>2. CASE Decides /\ pc' # "idle"
        BY <2>1, <2>2, <3>2 DEF Decides, Effect
      <3>3. CASE Answered
        <4>1. ASSUME op.call \in {"put", "remove"}, result' = "Ok" PROVE Reading(op.ns, op.name, Leaves)'
          <5>1. Applied /\ op' = op
            BY <3>3, <4>1 DEF Answered
          <5> QED BY <2>3, <4>1, <5>1 DEF Effect
        <4>2. ~Applied' /\ op' = op
          BY <3>3 DEF Answered
        <4> QED BY <2>1, <2>2, <4>1, <4>2 DEF Effect
      <3> QED BY <2>4, <3>1, <3>2, <3>3 DEF Heard
    <2>5. CASE Called
      BY <2>1, <2>2, <2>5 DEF Called, Effect
    <2>6. CASE Unheard
      BY <1>0, <2>1, <2>2, <2>3, <2>6 DEF Unheard, Effect
    <2> QED BY <2>4, <2>5, <2>6
  <1>2. CASE Decides /\ Heard /\ pc' # "idle" /\ result' = result
    <2>1. PICK n \in Namespaces, m \in Names, r \in Answers : n = op.ns /\ m = op.name /\ r = Leaves
      BY <1>0, <1>2, LeavesAnswer DEF Decides
    <2>2. Reading(n, m, r)'
      <3>1. op' = op /\ Reading(op.ns, op.name, Leaves)'
        BY <1>2 DEF Decides
      <3>2. Leaves' = r
        BY <2>1, <3>1 DEF Leaves
      <3> QED BY <2>1, <3>1, <3>2
    <2>3. \A n2 \in Namespaces : \A m2 \in Names : \E s \in Answers : Reading(n2, m2, s)'
      BY <1>2, <2>1, <2>2 DEF Decides, ReadingsKeptBut, EachReads
    <2>4. EachReads'
      BY <2>3 DEF EachReads, Answers
    <2> QED BY <1>2, <2>4 DEF Decides, Heard, Busy, Effect
  <1> QED BY <1>1, <1>2 DEF Heard, Silent, Answered, Called, Unheard

\* The look-ups find what there is.
LEMMA OrderIsSound == OrderInv => Sound
  <1> SUFFICES ASSUME OrderInv PROVE Sound
    OBVIOUS
  <1>1. FlashTypeOK /\ CallState /\ Pages /\ FlashInv /\ HandInv /\ StoreInv /\ AllWhole /\ KeysInv
    BY DEF OrderInv, FlashOrder, IInv, TidyInv, FlashInv, StoreInv
  <1> QED BY <1>1, Lookups DEF Sound

\* A call as the map's callers see it.
LEMMA SeamCalls ==
  ASSUME op \in Calls
  PROVE  /\ SeamOp \in Seam!Calls /\ SeamOp.call = op.call
         /\ op.call \in {"put", "remove"} => SeamOp.key = <<op.ns, op.name>> /\ <<op.ns, op.name>> \in Keys
                                             /\ Seam!Outcome(SeamOp) = Leaves
  <1>1. CASE op.call = "put"
    <2>1. SeamOp = [call |-> "put", key |-> <<op.ns, op.name>>, value |-> op.value]
      BY <1>1 DEF SeamOp
    <2>2. op.ns \in Namespaces /\ op.name \in Names /\ op.value \in Values
      BY <1>1 DEF Calls
    <2> QED BY <1>1, <2>1, <2>2 DEF Seam!Calls, Seam!Outcome, Leaves, Keys
  <1>2. CASE op.call = "remove"
    <2>1. SeamOp = [call |-> "remove", key |-> <<op.ns, op.name>>]
      BY <1>2 DEF SeamOp
    <2>2. op.ns \in Namespaces /\ op.name \in Names
      BY <1>2 DEF Calls
    <2> QED BY <1>2, <2>1, <2>2 DEF Seam!Calls, Seam!Outcome, Leaves, Keys
  <1>3. CASE op.call = "scrub"
    <2>1. SeamOp = op /\ op = [call |-> "scrub"]
      BY <1>3 DEF SeamOp, Calls
    <2> QED BY <1>3, <2>1 DEF Seam!Calls
  <1> QED BY <1>1, <1>2, <1>3 DEF Calls

\* Every step of the writer is one of the map's, or changes nothing of it.
LEMMA SeamSteps ==
  ASSUME CallState, CallState', SeenAs, SeenAs', EachReads, Busy, Heard \/ Called \/ Unheard
  PROVE  [Seam!Next]_(Seam!vars)
  <1>0. op \in Calls /\ op' \in Calls /\ Applied \in BOOLEAN /\ Applied' \in BOOLEAN
    BY DEF CallState, Applied
  <1>1. /\ SeamOp \in Seam!Calls /\ SeamOp.call = op.call
        /\ op.call \in {"put", "remove"} => SeamOp.key = <<op.ns, op.name>> /\ <<op.ns, op.name>> \in Keys
                                            /\ Seam!Outcome(SeamOp) = Leaves
    BY <1>0, SeamCalls
  <1>2. SeamOp' \in Seam!Calls
    <2>1. CASE op'.call = "put"
      <3>1. SeamOp' = [call |-> "put", key |-> <<op'.ns, op'.name>>, value |-> op'.value]
        BY <2>1 DEF SeamOp
      <3>2. op'.ns \in Namespaces /\ op'.name \in Names /\ op'.value \in Values
        BY <1>0, <2>1 DEF Calls
      <3> QED BY <3>1, <3>2 DEF Seam!Calls, Keys
    <2>2. CASE op'.call = "remove"
      <3>1. SeamOp' = [call |-> "remove", key |-> <<op'.ns, op'.name>>]
        BY <2>2 DEF SeamOp
      <3>2. op'.ns \in Namespaces /\ op'.name \in Names
        BY <1>0, <2>2 DEF Calls
      <3> QED BY <3>1, <3>2 DEF Seam!Calls, Keys
    <2>3. CASE op'.call = "scrub"
      <3>1. SeamOp' = op' /\ op' = [call |-> "scrub"]
        BY <1>0, <2>3 DEF SeamOp, Calls
      <3> QED BY <3>1 DEF Seam!Calls
    <2> QED BY <1>0, <2>1, <2>2, <2>3 DEF Calls
  <1>3. op' = op => SeamOp' = SeamOp
    BY DEF SeamOp
  <1>4. ReadingsKept => View' = View
    BY ViewStays
  <1>5. CASE (Silent /\ pc' # "idle") \/ Unheard
    <2>1. View' = View /\ SeamOp' = SeamOp /\ result' = result /\ Applied' = Applied
      BY <1>0, <1>3, <1>4, <1>5 DEF Silent, Unheard
    <2> QED BY <2>1 DEF Seam!vars
  <1>6. CASE Decides /\ Heard /\ pc' # "idle" /\ result' = result
    <2>1. /\ op.call \in {"put", "remove"} /\ op' = op /\ ~Applied /\ Applied'
          /\ ReadingsKeptBut(<<op.ns, op.name>>) /\ Reading(op.ns, op.name, Leaves)'
      BY <1>6 DEF Decides
    <2>2. PICK n \in Namespaces, m \in Names, r \in Answers : n = op.ns /\ m = op.name /\ r = Leaves
      BY <1>0, <2>1, LeavesAnswer
    <2>3. Reading(n, m, r)'
      <3>1. Leaves' = r
        BY <2>1, <2>2 DEF Leaves
      <3> QED BY <2>1, <2>2, <3>1
    <2>4. View' = [View EXCEPT ![<<n, m>>] = r]
      BY <2>1, <2>2, <2>3, ViewChanges
    <2>5. result = "busy"
      BY <1>6 DEF Heard, Busy
    <2>6. Applied' = TRUE /\ SeamOp' = SeamOp /\ Seam!Outcome(SeamOp) = r /\ SeamOp.key = <<n, m>>
      BY <1>0, <1>1, <1>3, <2>1, <2>2
    <2> QED BY <1>1, <1>6, <2>1, <2>4, <2>5, <2>6 DEF Seam!Next, Seam!Apply
  <1>7. CASE Answered /\ Heard
    <2>1. result = "busy"
      BY <1>7 DEF Heard, Busy
    <2>2. View' = View /\ SeamOp' = SeamOp /\ Applied' = FALSE
      BY <1>0, <1>3, <1>4, <1>7 DEF Answered
    <2>3. Reading(op.ns, op.name, None) /\ op.call = "remove" => View[SeamOp.key] = None
      <3>1. op.call = "remove" => op.ns \in Namespaces /\ op.name \in Names /\ None \in Answers
        BY <1>0 DEF Calls, Answers
      <3> QED BY <1>1, <3>1 DEF SeenAs
    <2>4. \/ result' = "Ok" /\ (Applied \/ SeamOp.call = "scrub")
          \/ result' = "Absent" /\ SeamOp.call = "remove" /\ View[SeamOp.key] = None /\ ~Applied
          \/ result' \in Seam!Errors /\ ~Applied
      BY <1>1, <1>7, <2>3 DEF Answered, Seam!Errors
    <2> QED BY <2>1, <2>2, <2>4 DEF Seam!Next, Seam!Answer
  <1>8. CASE Called
    <2>1. View' = View /\ Applied' = Applied /\ result # "busy" /\ result' = "busy" /\ SeamOp' \in Seam!Calls
      BY <1>0, <1>2, <1>4, <1>8 DEF Called, Busy
    <2> QED BY <2>1 DEF Seam!Next, Seam!Call, Seam!Calls
  <1> QED BY <1>5, <1>6, <1>7, <1>8 DEF Heard

\* At the start the map is one of values, when a reader sees no error.
LEMMA InitReads == Init /\ OrderInv /\ ReaderSeesAValue => EachReads /\ Busy /\ Effect
  <1> SUFFICES ASSUME Init, OrderInv, ReaderSeesAValue PROVE EachReads /\ Busy /\ Effect
    OBVIOUS
  <1>1. pc = "idle" /\ op = [call |-> "scrub"] /\ result = "Ok"
    BY DEF Init
  <1>2. Sound
    BY OrderIsSound
  <1>3. /\ FlashTypeOK /\ AllWhole /\ Headers(bits) = Standing /\ NamesFound /\ EntriesFound /\ ChunksFound
        /\ IndexHasChunks /\ ChunkOnce /\ NamesOnce
    BY <1>1, <1>2 DEF Sound, KeysInv, SettledBits
  <1>4. ASSUME NEW n \in Namespaces, NEW m \in Names PROVE \E r \in Answers : Reading(n, m, r)
    <2>1. CASE \A y \in Live : ~Under(y, n, m)
      BY <2>1 DEF Reading, Answers
    <2>2. ASSUME NEW y \in Live, Under(y, n, m) PROVE \E r \in Answers : Reading(n, m, r)
      <3>1. Standing \in Visits /\ <<n, m>> \in Keys
        BY DEF Standing, Visits, Keys
      <3>2. PICK v : v = Reads[Standing][<<n, m>>]
        OBVIOUS
      <3>3. v \in Values \cup {None}
        <4>1. Get(n, m) \in Values \cup {None}
          BY <1>1, <3>1 DEF ReaderSeesAValue
        <4> QED BY <1>3, <3>2, <4>1 DEF Get
      <3>4. PICK x \in Live : IsName(x) /\ CellAt(x).name = n /\ CellAt(x).index = CellAt(y).ns
        BY <2>2 DEF Under
      <3>5. IsEntry(CellAt(y)) /\ CellAt(y).name = m /\ CellAt(y).ns \in Nat
        BY <1>3, <2>2, LiveFacts, EntryFields DEF Under, IsEntry
      <3>6. FindNamespace[Standing][n] = Found(x) /\ FindNotChunk[Standing][<<CellAt(x).index, m>>] = Found(y)
        BY <1>3, <3>4, <3>5 DEF NamesFound, EntriesFound
      <3> DEFINE i == FindNamespace[Standing][n]
                 e == FindNotChunk[Standing][<<CellAt(i.place).index, m>>]
      <3>7. Reads[Standing][<<n, m>>] =
              IF i.status = "corrupt" THEN Corrupt
              ELSE IF i.status = "none" THEN None
              ELSE IF e.status = "corrupt" THEN Corrupt
              ELSE IF e.status = "none" THEN None
              ELSE ReadEntry[Standing][e.place]
        BY <3>1 DEF Reads
      <3>8. i.status = "found" /\ i.place = x /\ e = FindNotChunk[Standing][<<CellAt(x).index, m>>]
        BY <3>6 DEF Found
      <3>9. e.status = "found" /\ e.place = y
        BY <3>6, <3>8 DEF Found
      <3> HIDE DEF i, e
      <3>10. ReadEntry[Standing][y] = v
        BY <3>2, <3>7, <3>8, <3>9
      <3>11. v \in Values /\ HoldsValue(y, v)
        BY <1>3, <3>3, <3>5, <3>10, ReadIsHeld
      <3> QED BY <2>2, <3>11 DEF Reading, Answers
    <2> QED BY <2>1, <2>2
  <1>5. ~Applied
    BY <1>1 DEF Applied
  <1> QED BY <1>1, <1>4, <1>5 DEF EachReads, Busy, Effect

\* every store in order whose keys read, and what a step makes of it
LEMMA MapAlways ==
  Spec /\ InOrder /\ ReaderSeesAValue /\ [](NothingFailed /\ OldUnmoved) => []MapInv
  <1>1. MapInv /\ OrderInv' /\ (NothingFailed /\ OldUnmoved)' /\ [Next]_vars => MapInv'
    <2> SUFFICES ASSUME MapInv, OrderInv', (NothingFailed /\ OldUnmoved)', [Next]_vars PROVE MapInv'
      OBVIOUS
    <2>1. Heard \/ Called \/ Unheard
      BY NextHeard DEF MapInv
    <2>2. CallState /\ CallState'
      BY DEF MapInv, OrderInv, FlashOrder, IInv
    <2> QED BY <2>1, <2>2, HeardMap DEF MapInv
  <1>2. Init /\ OrderInv /\ ReaderSeesAValue => MapInv
    BY InitReads DEF MapInv
  <1> QED BY <1>1, <1>2, StoreAlways, PTL DEF Spec

\* The map read is what stands under each key.
LEMMA MapIsSeen == MapInv => SeenAs
  BY OrderIsSound, SoundIsSeen DEF MapInv

\* The writer starts where the map does.
LEMMA MapStarts == Init /\ MapInv => Seam!Init
  <1> SUFFICES ASSUME Init, MapInv PROVE Seam!Init
    OBVIOUS
  <1>1. pc = "idle" /\ op = [call |-> "scrub"] /\ result = "Ok"
    BY DEF Init
  <1>2. SeamOp = [call |-> "scrub"] /\ Applied = FALSE
    BY <1>1 DEF SeamOp, Applied
  <1>3. View \in [Keys -> Values \cup {None}]
    BY MapIsSeen DEF SeenAs, Answers
  <1> QED BY <1>1, <1>2, <1>3 DEF Seam!Init

\* Each of its steps is one of the map's or none.
LEMMA MapSteps ==
  MapInv /\ MapInv' /\ SeenAs /\ SeenAs' /\ (NothingFailed /\ OldUnmoved)' /\ [Next]_vars => [Seam!Next]_(Seam!vars)
  <1> SUFFICES ASSUME MapInv, MapInv', SeenAs, SeenAs', (NothingFailed /\ OldUnmoved)', [Next]_vars
               PROVE  [Seam!Next]_(Seam!vars)
    OBVIOUS
  <1>1. Heard \/ Called \/ Unheard
    BY NextHeard DEF MapInv
  <1>2. CallState /\ CallState'
    BY DEF MapInv, OrderInv, FlashOrder, IInv
  <1> QED BY <1>1, <1>2, SeamSteps DEF MapInv

\* From a store in order on whose keys all read, without failures and while no compaction runs
\* under a value being replaced, the writer is the map its callers are promised: a put or a remove
\* takes effect whole, at one instant and on its own key, page changes, compactions and scrubs show
\* nothing, and a call that answers an error changed nothing.
THEOREM WriterIsTheMap ==
  Spec /\ InOrder /\ ReaderSeesAValue /\ [](NothingFailed /\ OldUnmoved) => ImplementsSeam
  <1>1. MapInv => SeenAs
    BY MapIsSeen
  <1> QED BY <1>1, MapAlways, MapStarts, MapSteps, PTL DEF Spec, ImplementsSeam, Seam!Spec

\* what the three promises of the map come to between calls
LEMMA MapKeeps == MapInv => ReaderSeesAValue /\ PutSticks /\ RemoveSticks
  <1> SUFFICES ASSUME MapInv, pc = "idle" PROVE ReaderSeesAValue /\ PutSticks /\ RemoveSticks
    BY DEF ReaderSeesAValue, PutSticks, RemoveSticks
  <1>1. SeenAs /\ EachReads /\ Effect /\ op \in Calls
    BY MapIsSeen DEF MapInv, OrderInv, FlashOrder, IInv, CallState
  <1>2. \A n, m : View[<<n, m>>] = Get(n, m)
    BY DEF View, SettledBits, Get
  <1>3. ReaderSeesAValue
    BY <1>1, <1>2 DEF ReaderSeesAValue, SeenAs, Answers, Keys
  <1>4. op.call \in {"put", "remove"} /\ result = "Ok" => Get(op.ns, op.name) = Leaves
    BY <1>1, <1>2, LeavesAnswer DEF Effect, SeenAs
  <1>5. PutSticks /\ RemoveSticks
    BY <1>4, FormatAssumption DEF PutSticks, RemoveSticks, Leaves
  <1> QED BY <1>3, <1>5

\* Under the same conditions every key reads a value or none after every call, never a mix.
THEOREM ReadersSeeValues ==
  Spec /\ InOrder /\ ReaderSeesAValue /\ [](NothingFailed /\ OldUnmoved) => []ReaderSeesAValue
  BY MapAlways, MapKeeps, PTL

\* And what a put that answered Ok stored is what a get answers, and what a remove took is gone.
THEOREM CallsStick ==
  Spec /\ InOrder /\ ReaderSeesAValue /\ [](NothingFailed /\ OldUnmoved) => [](PutSticks /\ RemoveSticks)
  BY MapAlways, MapKeeps, PTL
=============================================================================
