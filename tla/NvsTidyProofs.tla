--------------------------- MODULE NvsTidyProofs ---------------------------
(***************************************************************************)
(* What the NVS writer (module Nvs) keeps for as long as no power cut and  *)
(* no failing flash operation disturbs it, for every partition size, every *)
(* key and value and every number of calls.                                *)
(*                                                                         *)
(* Two inductive invariants stand on IInv of NvsProofs.  CleanInv is about *)
(* blank slots and the reserve page, and needs no more than that nothing   *)
(* fails.  TidyInv is about entries: each is whole, each used slot belongs *)
(* to one, pages fill from the front; and, while an entry is half written, *)
(* half copied or half erased, which slots are the exception.              *)
(*                                                                         *)
(* TidyInv needs OldUnmoved too.  put_blob notes where the old value       *)
(* stands before it writes the new one, and writing may compact that page: *)
(* the slots it then marks erased are no longer those of the old value.    *)
(* With the bounds of the run nvs_stale_index TLC finds TidyBetweenCalls   *)
(* false that way, so the assumption cannot be dropped.                    *)
(*                                                                         *)
(* The last section is about the caches (module NvsCache).  Its invariants *)
(* FrontInv and CacheInv need neither assumption: they hold through power  *)
(* cuts, failed operations and compactions of the value in hand.           *)
(***************************************************************************)
EXTENDS NvsProofs, NvsCache, FiniteSetTheorems, WellFoundedInduction

\* no power cut and no failed flash operation so far
NothingFailed == bound.crashes = 0 /\ bound.faults = 0

\* nothing is compacted while a value to be replaced is in hand
OldUnmoved == ~(pc = "copy" /\ l.old.status = "found")

\* a slot that is programmed and not marked yet
InHand(p, s) ==
  \/ pc = "datamark"  /\ p = l.at[1]  /\ s = l.at[2] + 1 + l.k
  \/ pc = "entrymark" /\ p = l.at[1]  /\ s = l.at[2]
  \/ pc = "copymark"  /\ p = l.target /\ s = l.to + l.k

EmptyBlank ==
  \A p \in Page : \A s \in Slot : bits[p][s] = "empty" /\ cell[p][s] # Blank => InHand(p, s)

FreeBlank == \A p \in FreePages : \A s \in Slot : cell[p][s] = Blank

\* the reserve: a compaction has it until its victim is erased
SpareKept ==
  /\ pc \notin CompactPoints => FreePages # {}
  /\ pc = "start" /\ ~l.compacting => \E q \in FreePages : q # l.target

NoStale ==
  pc = "idle" /\ op.call = "scrub" /\ result = "Ok" /\ bound.calls > 0 => StalePages = {}

CleanInv == EmptyBlank /\ FreeBlank /\ SpareKept /\ NoStale

\* an entry and its data are being written at l.at
Writing == pc \in {"data", "datamark", "entry", "entrymark"}
CopyingCell == pc \in {"copy", "copymark"}

\* data that is written before its header, or whose header is erased before it
Loose(p, t) ==
  /\ p = l.at[1]
  /\ \/ Writing /\ t \in l.at[2] + 1 .. l.at[2] + l.k
     \/ pc = "erasespan" /\ l.k > 0 /\ t \in l.at[2] + l.k .. l.at[2] + l.span - 1

FreeEmpty == \A p \in FreePages : hdr[p].state = "uninit" => \A s \in Slot : bits[p][s] = "empty"

Appended ==
  \A p \in DataPages : \A s, t \in Slot :
    s < t /\ bits[p][s] = "empty" /\ bits[p][t] # "empty" =>
      Writing /\ p = l.at[1] /\ s = l.at[2] /\ t <= s + l.k

AllWhole ==
  \A p \in DataPages : \A s \in Slot :
    WrittenHeader(p, s) => Whole(p, s) \/ (CopyingCell /\ p = l.target /\ s = l.to)

AllOwned ==
  \A p \in DataPages : \A t \in Slot : bits[p][t] = "written" => Owned(p, t) \/ Loose(p, t)

\* the entry being written: its slot is the page's first empty one, the data after it written
EntryInHand ==
  Writing =>
    /\ FirstEmpty(l.at[1], l.at[2]) /\ l.at[2] + l.k < Slots
    /\ \A i \in 1 .. l.k : /\ bits[l.at[1]][l.at[2] + i] = "written"
                           /\ ~IsHeader(cell[l.at[1]][l.at[2] + i])
    /\ pc \in {"data", "datamark"} => l.want = "chunk" /\ l.k < ChunkSize
    /\ pc = "datamark" => ~IsHeader(cell[l.at[1]][l.at[2] + 1 + l.k])
    /\ pc \in {"entry", "entrymark"} => l.k = IF l.want = "chunk" THEN ChunkSize ELSE 0
    /\ pc = "entrymark" => cell[l.at[1]][l.at[2]] = EntryCell

\* where a put writes, or has yet to find room or make it
MorePoints  == {"room", "check", "activate", "start"} \cup CompactPoints \cup WritePoints
IndexPoints == {"room", "check", "activate", "start", "entry", "entrymark", "fill"} \cup CompactPoints

\* a value's end is not reached while its chunks are to come
MoreToCome ==
  pc \in {"old", "chunk"} \/ (pc \in MorePoints /\ op.call = "put" /\ l.want # "idx") =>
    l.offset < Size[op.value]

\* the record being erased
SpanInHand ==
  pc = "erasespan" =>
    /\ l.at \in Place /\ l.at[1] \in DataPages
    /\ l.span >= 1 /\ l.k < l.span /\ l.at[2] + l.span <= Slots
    /\ \A i \in 0 .. l.span - 1 : bits[l.at[1]][l.at[2] + i] # "empty"
    /\ \A i \in 1 .. l.span - 1 : ~IsHeader(cell[l.at[1]][l.at[2] + i])
    /\ l.k = 0 => WrittenHeader(l.at[1], l.at[2]) /\ l.span = SpanOf(cell[l.at[1]][l.at[2]])

\* the value to be replaced is where it was found
OldInPlace ==
  pc \in PutPoints \cup {"start", "scrub"} \cup CompactPoints /\ l.old.status = "found" =>
    /\ pc \notin CompactPoints \cup {"scrub"}
    /\ l.old.place \in Place /\ l.old.place[1] \in DataPages
    /\ WrittenHeader(l.old.place[1], l.old.place[2])
    /\ cell[l.old.place[1]][l.old.place[2]] = l.oldCell

\* the copy so far: the target's slots are used in order and no faster than the victim's
CopyInHand ==
  /\ pc = "start" /\ l.compacting => l.from = 0 /\ l.to = 0
  /\ CopyingCell =>
      /\ l.to <= l.from
      /\ \A t \in Slot : bits[l.target][t] = IF t < l.to + l.k THEN "written" ELSE "empty"
      /\ pc = "copymark" \/ l.k > 0 =>
           /\ WrittenHeader(l.victim, l.from) /\ l.span = SpanOf(cell[l.victim][l.from])
           /\ \A i \in 0 .. l.k - 1 : cell[l.target][l.to + i] = cell[l.victim][l.from + i]
      /\ pc = "copymark" => cell[l.target][l.to + l.k] = cell[l.victim][l.from + l.k]
      /\ \A s \in Slot : WrittenHeader(l.victim, s) /\ s < l.from =>
           s + SpanOf(cell[l.victim][s]) <= l.from

\* the index a new namespace is to get stands in no entry
IndexFresh ==
  pc \in IndexPoints /\ op.call = "put" /\ l.want = "ns" =>
    \A p \in DataPages : \A s \in Slot :
      bits[p][s] = "written" /\ cell[p][s].kind = "ns" => cell[p][s].index # l.ns

FlashInv == FreeEmpty /\ Appended /\ AllWhole /\ AllOwned /\ NamespacesApart
HandInv  == EntryInHand /\ MoreToCome /\ SpanInHand /\ OldInPlace /\ CopyInHand /\ IndexFresh
TidyInv  == FlashInv /\ HandInv

----------------------------------------------------------------------------
(***************************************************************************)
(* The flash, slot by slot.                                                *)
(***************************************************************************)
MarkPoints == {"datamark", "entrymark", "copymark"}

\* Programming a slot leaves every other as it was, and a blank one with what was programmed.
LEMMA ProgramEffect ==
  ASSUME FlashTypeOK, NEW p \in Page, NEW s, NEW c, ProgramCell(p, s, c)
  PROVE  /\ \A q \in Page : \A t \in Slot : ~(q = p /\ t = s) => cell'[q][t] = cell[q][t]
         /\ s \in Slot /\ cell[p][s] = Blank => cell'[p][s] = c
  BY DEF ProgramCell, FlashTypeOK

\* Marking a slot leaves every other as it was, and it not empty.
LEMMA MarkEffect ==
  ASSUME FlashTypeOK, NEW p \in Page, NEW s, NEW state, Mark(p, s, state)
  PROVE  /\ \A q \in Page : \A t \in Slot : ~(q = p /\ t = s) => bits'[q][t] = bits[q][t]
         /\ s \in Slot => bits'[p][s] = IF bits[p][s] = "erased" THEN "erased" ELSE state
  BY DEF Mark, FlashTypeOK

\* An erased page is blank, and every other page is as it was.
LEMMA EraseEffect ==
  ASSUME FlashTypeOK, NEW p \in Page, ErasePage(p)
  PROVE  /\ \A s \in Slot : cell'[p][s] = Blank /\ bits'[p][s] = "empty"
         /\ \A q \in Page : q # p => hdr'[q] = hdr[q] /\ bits'[q] = bits[q] /\ cell'[q] = cell[q]
         /\ hdr'[p].state = "uninit"
         /\ DataPages' = DataPages \ {p} /\ FreePages' = FreePages \cup {p}
  <1>1. /\ hdr'  = [hdr EXCEPT ![p] = ErasedHeader]
        /\ bits' = [bits EXCEPT ![p] = ErasedBits]
        /\ cell' = [cell EXCEPT ![p] = ErasedCells]
    BY DEF ErasePage
  <1>2. /\ \A s \in Slot : cell'[p][s] = Blank /\ bits'[p][s] = "empty"
        /\ \A q \in Page : q # p => hdr'[q] = hdr[q] /\ bits'[q] = bits[q] /\ cell'[q] = cell[q]
        /\ hdr'[p].state = "uninit"
    BY <1>1 DEF FlashTypeOK, ErasedHeader, ErasedBits, ErasedCells
  <1> QED BY <1>2 DEF DataPages, FreePages

\* Marking the active page full leaves the data pages the same.
LEMMA FillEffect ==
  ASSUME FlashTypeOK, NEW p \in ActivePages, FillPage(p)
  PROVE  DataPages' = DataPages /\ FreePages' = FreePages /\ UNCHANGED <<bits, cell>>
         /\ \A q \in Page : hdr'[q].state = "uninit" => hdr[q].state = "uninit"
  <1>1. p \in Page /\ hdr[p].state = "active" /\ hdr' = [hdr EXCEPT ![p].state = "full"]
        /\ UNCHANGED <<bits, cell>>
    BY DEF ActivePages, FillPage, MarkFull
  <1>2. hdr'[p].state = "full" /\ \A q \in Page : q # p => hdr'[q] = hdr[q]
    BY <1>1 DEF FlashTypeOK
  <1> QED BY <1>1, <1>2 DEF DataPages, FreePages

\* A page that is started becomes a data page, its slots as they were.
LEMMA StartEffect ==
  ASSUME FlashTypeOK, StartHeader
  PROVE  /\ UNCHANGED <<bits, cell, op, result, l>> /\ pc = "start" /\ hdr[l.target].state = "uninit"
         /\ pc' = IF l.compacting THEN "copy" ELSE "check"
         /\ FreePages' = FreePages \ {l.target}
         /\ l.target \in Page => DataPages' = DataPages \cup {l.target}
         /\ \A q \in Page : q # l.target => hdr'[q] = hdr[q]
  <1>1. /\ UNCHANGED <<bits, cell, op, result, l>> /\ pc = "start" /\ hdr[l.target].state = "uninit"
        /\ pc' = IF l.compacting THEN "copy" ELSE "check"
    BY DEF StartHeader, Goto, Keep
  <1>2. PICK n : hdr' = [hdr EXCEPT ![l.target] = [state |-> "active", seq |-> n]]
    BY DEF StartHeader
  <1>3. \A q \in Page : q # l.target => hdr'[q] = hdr[q]
    BY <1>2 DEF FlashTypeOK
  <1>4. l.target \in Page => hdr'[l.target].state = "active"
    BY <1>2 DEF FlashTypeOK
  <1> QED BY <1>1, <1>3, <1>4 DEF DataPages, FreePages

----------------------------------------------------------------------------
(***************************************************************************)
(* Blank slots.                                                            *)
(***************************************************************************)
BlankInv == EmptyBlank /\ FreeBlank

\* A step that touches no slot.
LEMMA BlankByStill ==
  ASSUME BlankInv, UNCHANGED <<bits, cell>>, FreePages' \subseteq FreePages, pc \notin MarkPoints
  PROVE  BlankInv'
  <1>1. EmptyBlank'
    BY DEF BlankInv, EmptyBlank, InHand, MarkPoints
  <1>2. FreeBlank'
    BY DEF BlankInv, FreeBlank
  <1> QED BY <1>1, <1>2 DEF BlankInv

\* An erased page is blank all over.
LEMMA BlankByErase ==
  ASSUME FlashTypeOK, BlankInv, NEW p \in Page, ErasePage(p), pc \notin MarkPoints
  PROVE  BlankInv'
  <1>1. EmptyBlank'
    BY EraseEffect DEF BlankInv, EmptyBlank, InHand, MarkPoints
  <1>2. FreeBlank'
    BY EraseEffect DEF BlankInv, FreeBlank, FreePages
  <1> QED BY <1>1, <1>2 DEF BlankInv

\* The slot programmed is the one in hand.
LEMMA BlankByProgram ==
  ASSUME FlashTypeOK, BlankInv, NEW p \in DataPages, NEW s, NEW c, ProgramCell(p, s, c),
         UNCHANGED <<hdr, bits>>, pc \notin MarkPoints, InHand(p, s)'
  PROVE  BlankInv'
  <1>1. p \in Page
    BY DEF DataPages
  <1>2. \A q \in Page : \A t \in Slot : ~(q = p /\ t = s) => cell'[q][t] = cell[q][t]
    BY <1>1, ProgramEffect
  <1>3. EmptyBlank'
    <2> SUFFICES ASSUME NEW q \in Page, NEW t \in Slot, bits'[q][t] = "empty", cell'[q][t] # Blank
                 PROVE  InHand(q, t)'
      BY DEF EmptyBlank
    <2>1. q = p /\ t = s
      BY <1>2 DEF BlankInv, EmptyBlank, InHand, MarkPoints
    <2> QED BY <2>1
  <1>4. FreeBlank'
    <2>1. FreePages' = FreePages /\ \A q \in FreePages : q \in Page /\ q # p
      BY DEF FreePages, DataPages
    <2> QED BY <1>2, <2>1 DEF BlankInv, FreeBlank
  <1> QED BY <1>3, <1>4 DEF BlankInv

\* Marking the slot in hand leaves none with bytes in it and no mark.
LEMMA BlankByMark ==
  ASSUME FlashTypeOK, BlankInv, NEW p \in Page, NEW s, NEW state \in {"written", "erased"},
         Mark(p, s, state), UNCHANGED <<hdr, cell>>,
         \A q \in Page : \A t \in Slot : InHand(q, t) => q = p /\ t = s
  PROVE  BlankInv'
  <1>1. EmptyBlank'
    <2> SUFFICES ASSUME NEW q \in Page, NEW t \in Slot, bits'[q][t] = "empty", cell'[q][t] # Blank
                 PROVE  FALSE
      BY DEF EmptyBlank
    <2>1. CASE q = p /\ t = s
      BY <2>1, MarkEffect
    <2>2. CASE ~(q = p /\ t = s)
      BY <2>2, MarkEffect DEF BlankInv, EmptyBlank
    <2> QED BY <2>1, <2>2
  <1>2. FreeBlank'
    BY DEF BlankInv, FreeBlank, FreePages, DataPages
  <1> QED BY <1>1, <1>2 DEF BlankInv

\* the steps that program, mark and erase nothing
StillStep ==
  \/ PutBegin \/ PutFindOld \/ RemoveBegin \/ PageWithRoom \/ CheckRoom \/ ActivatePage
  \/ StartHeader \/ CopyDone \/ ChunkLoop \/ Fill \/ Sweep \/ Scrub

\* They touch no slot, and make of a free page at most a data page.
LEMMA StillStepStill ==
  ASSUME FlashTypeOK, Pages, StillStep
  PROVE  /\ UNCHANGED <<bits, cell>> /\ FreePages' \subseteq FreePages /\ pc \notin MarkPoints
         /\ DataPages \subseteq DataPages'
         /\ StartHeader \/ DataPages' = DataPages
         /\ \A q \in Page : hdr'[q].state = "uninit" => hdr[q].state = "uninit"
  <1>1. CASE UNCHANGED flash /\ pc \notin MarkPoints
    BY <1>1 DEF flash, FreePages, DataPages
  <1>2. CASE (\E p \in ActivePages : FillPage(p)) /\ pc \notin MarkPoints
    BY <1>2, FillEffect
  <1>3. CASE StartHeader
    <2>1. /\ UNCHANGED <<bits, cell>> /\ pc = "start" /\ FreePages' = FreePages \ {l.target}
          /\ \A q \in Page : q # l.target => hdr'[q] = hdr[q]
          /\ hdr[l.target].state = "uninit" /\ l.target \in Page
          /\ DataPages' = DataPages \cup {l.target}
      BY <1>3, StartEffect DEF Pages, Reserved, FreePages
    <2> QED BY <1>3, <2>1 DEF MarkPoints
  <1>4. CASE Fill
    BY <1>2, <1>4 DEF Fill, Pages, Reserved, WritePoints, MarkPoints
  <1>5. CASE CheckRoom
    BY <1>1, <1>2, <1>5 DEF CheckRoom, Deliver, Pages, Reserved, MarkPoints
  <1>6. CASE PageWithRoom
    BY <1>1, <1>2, <1>6 DEF PageWithRoom, Deliver, MarkPoints
  <1>7. CASE Scrub
    BY <1>1, <1>2, <1>7 DEF Scrub, Compact, MarkPoints
  <1>8. CASE ActivatePage
    BY <1>1, <1>8 DEF ActivatePage, Compact, MarkPoints
  <1> QED BY <1>1, <1>3, <1>4, <1>5, <1>6, <1>7, <1>8 DEF StillStep, PutBegin, PutFindOld, RemoveBegin,
             CopyDone, ChunkLoop, Sweep, MarkPoints

\* No step leaves bytes in an empty slot but the one between programming it and marking it.
LEMMA WriterBlank ==
  ASSUME FlashTypeOK, CallState, Pages, BlankInv, Writer
  PROVE  BlankInv'
  <1>1. CASE StillStep
    BY <1>1, StillStepStill, BlankByStill
  <1>2. CASE StartErase
    <2>1. pc = "start" /\ l.target \in Page /\ ErasePage(l.target)
      BY <1>2 DEF StartErase, Pages, Reserved, FreePages
    <2> QED BY <2>1, BlankByErase DEF MarkPoints
  <1>3. CASE Reclaim
    <2>1. pc = "reclaim" /\ l.victim \in Page /\ ErasePage(l.victim)
      BY <1>3 DEF Reclaim, Pages, Reserved, CompactPoints
    <2> QED BY <2>1, BlankByErase DEF MarkPoints
  <1>4. CASE CopyCell
    <2>1. /\ pc = "copy" /\ pc' = "copymark" /\ UNCHANGED <<hdr, bits>>
          /\ l'.target = l.target /\ l'.to = l.to /\ l'.k = l.k
          /\ \E c : ProgramCell(l.target, l.to + l.k, c)
      BY <1>4 DEF CopyCell, Goto, CallState, Locals
    <2>2. l.target \in DataPages
      BY <2>1 DEF Pages, Reserved, CompactPoints, ActivePages, DataPages
    <2>3. InHand(l.target, l.to + l.k)'
      BY <2>1 DEF InHand
    <2> QED BY <2>1, <2>2, <2>3, BlankByProgram DEF MarkPoints
  <1>5. CASE DataWrite
    <2>1. /\ pc = "data" /\ pc' = "datamark" /\ UNCHANGED <<hdr, bits, l>>
          /\ \E c : ProgramCell(l.at[1], l.at[2] + 1 + l.k, c)
      BY <1>5 DEF DataWrite, Goto
    <2>2. l.at[1] \in DataPages
      BY <2>1 DEF Pages, Reserved, WritePoints, ActivePages, DataPages
    <2>3. InHand(l.at[1], l.at[2] + 1 + l.k)'
      BY <2>1 DEF InHand
    <2> QED BY <2>1, <2>2, <2>3, BlankByProgram DEF MarkPoints
  <1>6. CASE EntryWrite
    <2>1. /\ pc = "entry" /\ pc' = "entrymark" /\ UNCHANGED <<hdr, bits, l>>
          /\ \E c : ProgramCell(l.at[1], l.at[2], c)
      BY <1>6 DEF EntryWrite, Goto
    <2>2. l.at[1] \in DataPages
      BY <2>1 DEF Pages, Reserved, WritePoints, ActivePages, DataPages
    <2>3. InHand(l.at[1], l.at[2])'
      BY <2>1 DEF InHand
    <2> QED BY <2>1, <2>2, <2>3, BlankByProgram DEF MarkPoints
  <1>7. CASE CopyMark
    <2>1. /\ pc = "copymark" /\ UNCHANGED <<hdr, cell>> /\ Mark(l.target, l.to + l.k, "written")
          /\ l.target \in Page
      BY <1>7 DEF CopyMark, Pages, Reserved, CompactPoints, ActivePages
    <2> QED BY <2>1, BlankByMark DEF InHand
  <1>8. CASE DataMark
    <2>1. /\ pc = "datamark" /\ UNCHANGED <<hdr, cell>> /\ Mark(l.at[1], l.at[2] + 1 + l.k, "written")
          /\ l.at[1] \in Page
      BY <1>8 DEF DataMark, Pages, Reserved, WritePoints, ActivePages
    <2> QED BY <2>1, BlankByMark DEF InHand
  <1>9. CASE EntryMark
    <2>1. /\ pc = "entrymark" /\ UNCHANGED <<hdr, cell>> /\ Mark(l.at[1], l.at[2], "written")
          /\ l.at[1] \in Page
      BY <1>9 DEF EntryMark, Pages, Reserved, WritePoints, ActivePages
    <2> QED BY <2>1, BlankByMark DEF InHand
  <1>10. CASE EraseMark
    <2>1. /\ pc = "erasespan" /\ UNCHANGED <<hdr, cell>>
          /\ bits' = [bits EXCEPT ![l.at[1]][l.at[2] + l.k] = IF @ = "erased" THEN @ ELSE "erased"]
      BY <1>10 DEF EraseMark, Mark
    <2>2. \A q \in Page : \A t \in Slot : bits'[q][t] = "empty" => bits[q][t] = "empty"
      BY <2>1 DEF FlashTypeOK
    <2>3. EmptyBlank'
      BY <2>1, <2>2 DEF BlankInv, EmptyBlank, InHand
    <2>4. FreeBlank'
      BY <2>1 DEF BlankInv, FreeBlank, FreePages, DataPages
    <2> QED BY <2>3, <2>4 DEF BlankInv
  <1> QED BY <1>1, <1>2, <1>3, <1>4, <1>5, <1>6, <1>7, <1>8, <1>9, <1>10 DEF Writer, StillStep

----------------------------------------------------------------------------
(***************************************************************************)
(* The reserve.                                                            *)
(***************************************************************************)
\* Of two free pages one is not the page chosen.
LEMMA TwoFree ==
  ASSUME ~LastFree, NEW p
  PROVE  \E q \in FreePages : q # p
  <1>1. IsFiniteSet(FreePages)
    <2>1. NPages - 1 \in Int /\ IsFiniteSet(0 .. NPages - 1)
      BY FS_Interval, FormatAssumption
    <2> QED BY <2>1, FS_Subset DEF FreePages, Page
  <1> SUFFICES ASSUME \A q \in FreePages : q = p PROVE FALSE
    OBVIOUS
  <1>2. FreePages \subseteq {p}
    OBVIOUS
  <1>3. Cardinality(FreePages) <= 1
    <2>1. IsFiniteSet({p}) /\ Cardinality({p}) = 1
      BY FS_Singleton
    <2>2. Cardinality(FreePages) <= Cardinality({p})
      BY <1>2, <2>1, FS_Subset
    <2> QED BY <2>1, <2>2
  <1>4. Cardinality(FreePages) \in Nat
    BY <1>1, FS_CardinalityType
  <1> QED BY <1>3, <1>4 DEF LastFree

\* A step that leaves the free pages as they are and starts no page keeps the reserve.
LEMMA SpareByStill ==
  ASSUME SpareKept, FreePages' = FreePages, pc' # "start", pc \in CompactPoints => pc' \in CompactPoints
  PROVE  SpareKept'
  BY DEF SpareKept

\* Starting a compaction leaves the reserve.
LEMMA SpareByCompact ==
  ASSUME l \in Locals, SpareKept, pc \notin CompactPoints, NEW t, NEW n, Compact(t, n)
  PROVE  SpareKept'
  <1>1. pc' = "start" /\ l'.compacting /\ UNCHANGED flash
    BY DEF Compact, Goto, Locals
  <1>2. FreePages' = FreePages
    BY <1>1 DEF flash, FreePages, DataPages
  <1> QED BY <1>1, <1>2 DEF SpareKept, CompactPoints

\* Every step of the writer keeps the reserve.
LEMMA WriterSpare ==
  ASSUME FlashTypeOK, CallState, Pages, SpareKept, Writer
  PROVE  SpareKept'
  <1> USE DEF Goto
  <1>1. CASE PageWithRoom
    <2>1. FreePages' = FreePages /\ pc = "room" /\ pc' \in {"data", "entry", "activate"}
      BY <1>1, FillEffect DEF PageWithRoom, Deliver, flash, FreePages, DataPages
    <2> QED BY <2>1, SpareByStill DEF CompactPoints
  <1>2. CASE CheckRoom
    <2>1. l.target \in ActivePages
      BY <1>2 DEF CheckRoom, Pages, Reserved
    <2>2. FreePages' = FreePages /\ pc = "check" /\ pc' \in {"data", "entry", "activate"}
      BY <1>2, <2>1, FillEffect DEF CheckRoom, Deliver, flash, FreePages, DataPages
    <2> QED BY <2>2, SpareByStill DEF CompactPoints
  <1>3. CASE Fill
    <2>1. FreePages' = FreePages /\ pc = "fill" /\ pc' \in {"chunk", "room"}
      BY <1>3, FillEffect DEF Fill, Pages, Reserved, WritePoints
    <2> QED BY <2>1, SpareByStill DEF CompactPoints
  <1>4. CASE Scrub
    <2>1. pc = "scrub" /\ l \in Locals
      BY <1>4 DEF Scrub, CallState
    <2>2. CASE \E t \in Page : Compact(t, 0)
      BY <2>1, <2>2, SpareByCompact DEF CompactPoints
    <2>3. CASE ~\E t \in Page : Compact(t, 0)
      <3>1. FreePages' = FreePages /\ pc' \in {"idle", "scrub"}
        BY <1>4, <2>1, <2>3, FillEffect DEF Scrub, Answer, flash, FreePages, DataPages
      <3> QED BY <2>1, <3>1, SpareByStill DEF CompactPoints
    <2> QED BY <2>2, <2>3
  <1>5. CASE ActivatePage
    <2>1. pc = "activate" /\ l \in Locals /\ UNCHANGED flash
      BY <1>5 DEF ActivatePage, Compact, CallState
    <2>2. FreePages' = FreePages
      BY <2>1 DEF flash, FreePages, DataPages
    <2>3. CASE Fail("BufferTooSmall")
      <3>1. pc' \in {"idle", "sweep"}
        BY <2>3 DEF Fail, Answer
      <3> QED BY <2>1, <2>2, <3>1, SpareByStill DEF CompactPoints
    <2>4. CASE \E t \in FreePages : Compact(t, l.tries - 1)
      BY <2>1, <2>4, SpareByCompact DEF CompactPoints
    <2>5. CASE ~LastFree /\ pc' = "start"
      BY <2>1, <2>2, <2>5, TwoFree DEF SpareKept, CompactPoints
    <2> QED BY <1>5, <2>3, <2>4, <2>5 DEF ActivatePage
  <1>6. CASE StartErase
    <2>1. pc = "start" /\ pc' = pc /\ l' = l /\ l.target \in Page /\ ErasePage(l.target)
      BY <1>6 DEF StartErase, Pages, Reserved, FreePages
    <2>2. FreePages' = FreePages \cup {l.target}
      BY <2>1, EraseEffect
    <2> QED BY <2>1, <2>2 DEF SpareKept
  <1>7. CASE StartHeader
    <2>1. pc = "start" /\ pc' = (IF l.compacting THEN "copy" ELSE "check") /\ FreePages' = FreePages \ {l.target}
      BY <1>7, StartEffect
    <2> QED BY <2>1 DEF SpareKept, CompactPoints
  <1>8. CASE Reclaim
    <2>1. pc' \in {"scrub", "check"} /\ l.victim \in Page /\ ErasePage(l.victim)
      BY <1>8 DEF Reclaim, Pages, Reserved, CompactPoints
    <2>2. l.victim \in FreePages'
      BY <2>1, EraseEffect
    <2> QED BY <2>1, <2>2 DEF SpareKept, CompactPoints
  <1>9. CASE CopyCell \/ CopyMark \/ CopyDone
    <2>1. hdr' = hdr /\ pc' \in CompactPoints
      BY <1>9 DEF CopyCell, CopyMark, CopyDone, flash, CompactPoints
    <2> QED BY <2>1 DEF SpareKept, CompactPoints
  <1>10. CASE DataWrite \/ DataMark \/ EntryWrite \/ EntryMark \/ EraseMark \/ Sweep \/ ChunkLoop
               \/ PutBegin \/ PutFindOld \/ RemoveBegin
    <2>1. hdr' = hdr /\ pc \notin CompactPoints /\ pc' # "start"
      BY <1>10 DEF DataWrite, DataMark, EntryWrite, EntryMark, EraseMark, Sweep, ChunkLoop, PutBegin,
         PutFindOld, RemoveBegin, CompactPoints, flash, Answer, Fail, Retire
    <2> QED BY <2>1, SpareByStill DEF FreePages, DataPages
  <1> QED BY <1>1, <1>2, <1>3, <1>4, <1>5, <1>6, <1>7, <1>8, <1>9, <1>10 DEF Writer

----------------------------------------------------------------------------
(***************************************************************************)
(* A scrub that answered Ok.                                               *)
(***************************************************************************)
\* A scrub answers Ok only when it found no page left to clean.
LEMMA WriterNoStale ==
  ASSUME CallState, Writer
  PROVE  NoStale'
  <1> SUFFICES ASSUME pc' = "idle", op'.call = "scrub", result' = "Ok" PROVE StalePages' = {}
    BY DEF NoStale
  <1>1. CASE Scrub
    <2>1. StalePages = {} /\ UNCHANGED flash
      BY <1>1 DEF Scrub, Answer, Compact, Goto
    <2> QED BY <2>1 DEF flash, StalePages, DataPages, ErasedSlots
  <1>2. CASE Sweep
    BY <1>2 DEF Sweep, Answer, Goto, Keep, CallState, Routing
  <1>3. CASE PutBegin \/ PutFindOld \/ RemoveBegin \/ ActivatePage \/ ChunkLoop
    BY <1>3 DEF PutBegin, PutFindOld, RemoveBegin, ActivatePage, ChunkLoop, Answer, Fail, Compact, Retire,
       Goto, Keep
  <1>4. CASE PageWithRoom \/ CheckRoom \/ StartErase \/ StartHeader \/ CopyCell \/ CopyMark \/ CopyDone
              \/ Reclaim \/ DataWrite \/ DataMark \/ EntryWrite \/ EntryMark \/ Fill \/ EraseMark
    BY <1>4 DEF PageWithRoom, CheckRoom, StartErase, StartHeader, CopyCell, CopyMark, CopyDone, Reclaim,
       DataWrite, DataMark, EntryWrite, EntryMark, Fill, EraseMark, Deliver, Retire, Goto, Keep
  <1> QED BY <1>1, <1>2, <1>3, <1>4 DEF Writer

----------------------------------------------------------------------------
(***************************************************************************)
(* The reserve and the scrub, as long as nothing fails.                    *)
(***************************************************************************)
\* free pages and empty slots are blank
CleanFlash ==
  /\ FreePages # {}
  /\ \A p \in FreePages : \A s \in Slot : cell[p][s] = Blank
  /\ \A p \in Page : \A s \in Slot : bits[p][s] = "empty" => cell[p][s] = Blank

\* A partition that is clean to start with.
LEMMA InitClean == Init /\ CleanFlash => CleanInv
  <1> SUFFICES ASSUME Init, CleanFlash PROVE CleanInv
    OBVIOUS
  <1>1. pc = "idle" /\ bound.calls = 0
    BY DEF Init
  <1> QED BY <1>1 DEF CleanFlash, CleanInv, EmptyBlank, FreeBlank, SpareKept, NoStale, CompactPoints

\* A call that begins finds the flash as the last one left it.
LEMMA CallClean ==
  ASSUME CleanInv, NEW c \in Calls, Call(c)
  PROVE  CleanInv'
  <1>1. pc = "idle" /\ pc' \in {"scrub", "begin"} /\ UNCHANGED flash
    BY DEF Call, Goto
  <1>2. BlankInv' /\ FreePages' = FreePages
    BY <1>1, BlankByStill DEF CleanInv, BlankInv, flash, FreePages, DataPages, MarkPoints
  <1> QED BY <1>1, <1>2 DEF CleanInv, BlankInv, SpareKept, NoStale, CompactPoints

\* What fails is counted.
LEMMA FailuresCounted ==
  ASSUME bound \in BoundType, NothingFailed', Next
  PROVE  (Writer /\ UNCHANGED bound) \/ \E c \in Calls : Call(c)
  <1>1. ~Crash
    BY DEF Crash, NothingFailed, BoundType
  <1>2. ~Fault
    BY DEF Fault, NothingFailed, BoundType
  <1> QED BY <1>1, <1>2 DEF Next

\* A step that does not fail keeps all four.
LEMMA NextClean == IInv /\ CleanInv /\ NothingFailed' /\ [Next]_vars => CleanInv'
  <1> SUFFICES ASSUME IInv, CleanInv, NothingFailed', [Next]_vars PROVE CleanInv'
    OBVIOUS
  <1> USE DEF IInv
  <1>1. CASE Writer
    <2>1. BlankInv'
      BY <1>1, WriterBlank DEF CleanInv, BlankInv
    <2> QED BY <1>1, <2>1, WriterSpare, WriterNoStale DEF CleanInv, BlankInv
  <1>2. CASE \E c \in Calls : Call(c)
    BY <1>2, CallClean
  <1>3. CASE UNCHANGED vars
    BY <1>3 DEF vars, CleanInv, EmptyBlank, FreeBlank, SpareKept, NoStale, InHand, FreePages, DataPages,
       StalePages, ErasedSlots
  <1> QED BY <1>1, <1>2, <1>3, FailuresCounted

\* They hold for as long as nothing fails.
LEMMA CleanAlways == Spec /\ CleanFlash /\ []NothingFailed => []CleanInv
  <1>1. Init /\ CleanFlash => CleanInv
    BY InitClean
  <1>2. IInv /\ CleanInv /\ NothingFailed' /\ [Next]_vars => CleanInv'
    BY NextClean
  <1> QED BY <1>1, <1>2, InductiveInvariant, PTL DEF Spec

\* Without power cuts and failing flash operations the writer gives its reserve page back: on a
\* partition of any size that has a free page to start with, every call ends with one.
THEOREM ReserveAlwaysKept == Spec /\ CleanFlash /\ []NothingFailed => []ReserveKept
  <1>1. CleanInv => ReserveKept
    BY DEF CleanInv, SpareKept, ReserveKept, CompactPoints
  <1> QED BY <1>1, CleanAlways, PTL

\* Nor does any scrub that answers Ok leave bytes anywhere that no entry has.
THEOREM ScrubLeavesNothing == Spec /\ CleanFlash /\ []NothingFailed => []ScrubLeavesOnlyLive
  <1>1. IInv /\ CleanInv => ScrubLeavesOnlyLive
    <2> SUFFICES ASSUME IInv, CleanInv, pc = "idle", bound.calls > 0, op.call = "scrub", result = "Ok",
                        NEW p \in Page, NEW s \in Slot, cell[p][s] # Blank
                 PROVE  p \in DataPages /\ bits[p][s] = "written"
      BY DEF ScrubLeavesOnlyLive
    <2>1. p \in DataPages
      BY DEF CleanInv, FreeBlank, FreePages
    <2>2. bits[p][s] # "empty"
      BY DEF CleanInv, EmptyBlank, InHand
    <2>3. bits[p][s] # "erased"
      BY <2>1 DEF CleanInv, NoStale, StalePages, ErasedSlots
    <2>4. bits[p][s] \in EntryStates
      BY DEF IInv, FlashTypeOK
    <2> QED BY <2>1, <2>2, <2>3, <2>4 DEF EntryStates
  <1> QED BY <1>1, CleanAlways, InductiveInvariant, PTL
----------------------------------------------------------------------------
(***************************************************************************)
(* What a scan visits.  A scan is a recursive function; what holds of it   *)
(* at every slot is proved from the page's end down, as induction over a   *)
(* set of naturals.                                                        *)
(***************************************************************************)
\* A set of naturals that is not empty has a least element.
LEMMA LeastNat ==
  ASSUME NEW S \in SUBSET Nat, S # {}
  PROVE  \E n \in S : \A m \in S : n <= m
  <1>1. IsWellFoundedOn(OpToRel(<, Nat), Nat)
    BY NatLessThanWellFounded
  <1>2. PICK n \in S : \A m \in S : ~(<<m, n>> \in OpToRel(<, Nat))
    BY <1>1, WFMin
  <1>3. n \in Nat /\ \A m \in S : m \in Nat /\ ~(m < n)
    BY <1>2 DEF OpToRel
  <1>4. \A m \in S : n <= m
    BY <1>3
  <1> QED BY <1>4

\* A set of naturals that holds 0 and with a number its successor holds all.
LEMMA SetInduction ==
  ASSUME NEW S, 0 \in S, \A n \in Nat : n \in S => n + 1 \in S
  PROVE  Nat \subseteq S
  <1> SUFFICES ASSUME ~(Nat \subseteq S) PROVE FALSE
    OBVIOUS
  <1>1. PICK n \in Nat \ S : \A m \in Nat \ S : n <= m
    BY LeastNat
  <1>2. n # 0 /\ n - 1 \in Nat /\ n - 1 \notin Nat \ S
    BY <1>1
  <1>3. n - 1 + 1 \in S
    BY <1>2
  <1> QED BY <1>1, <1>3

\* what a walk of page `p` visits from slot `s` on, the bitmap being `b`, when `f` is what it visits further on
WalkStep(b, p, f, s) ==
  IF s >= Slots \/ b[p][s] = "empty" THEN {}
  ELSE IF b[p][s] = "erased" THEN f[s + 1]
  ELSE {s} \cup (IF IsHeader(cell[p][s]) THEN f[s + SpanOf(cell[p][s])] ELSE {})
Walk(b, p, f) == [s \in Nat |-> WalkStep(b, p, f, s)]

\* A header spans at least its own slot.
LEMMA SpanNat ==
  ASSUME FlashTypeOK, NEW p \in Page, NEW s \in Slot, IsHeader(cell[p][s])
  PROVE  SpanOf(cell[p][s]) \in Nat /\ SpanOf(cell[p][s]) >= 1
  <1>1. cell[p][s] \in Cell
    BY DEF FlashTypeOK
  <1> QED BY <1>1, CellFields DEF SpanOf, IsHeader

\* A walk that is right for the last m slots can be made right for one more.
LEMMA WalkFurther ==
  ASSUME FlashTypeOK, NEW b, NEW p \in Page, NEW m \in Nat, m < Slots,
         NEW f \in [Nat -> SUBSET Nat], \A s \in Nat : s + m >= Slots => f[s] = WalkStep(b, p, f, s)
  PROVE  \E g \in [Nat -> SUBSET Nat] : \A s \in Nat : s + (m + 1) >= Slots => g[s] = WalkStep(b, p, g, s)
  <1> DEFINE z == Slots - (m + 1)
             g == [f EXCEPT ![z] = WalkStep(b, p, f, z)]
  <1>1. Slots \in Nat /\ z \in Nat /\ z \in Slot
    BY FormatAssumption DEF Slot
  <1>2. WalkStep(b, p, f, z) \in SUBSET Nat
    BY <1>1, SpanNat DEF WalkStep
  <1>3. /\ g \in [Nat -> SUBSET Nat] /\ g[z] = WalkStep(b, p, f, z)
        /\ \A s \in Nat : s # z => g[s] = f[s]
    BY <1>1, <1>2
  <1> HIDE DEF g
  <1>4. ASSUME NEW s \in Nat, s + (m + 1) >= Slots
        PROVE  g[s] = WalkStep(b, p, g, s)
    <2>1. s >= z /\ \A t \in Nat : t > s => g[t] = f[t]
      BY <1>1, <1>3, <1>4
    <2>2. WalkStep(b, p, g, s) = WalkStep(b, p, f, s)
      <3>1. CASE s >= Slots
        BY <3>1 DEF WalkStep
      <3>2. CASE s < Slots
        <4>1. s \in Slot /\ g[s + 1] = f[s + 1]
          BY <1>1, <2>1, <3>2 DEF Slot
        <4>2. IsHeader(cell[p][s]) => g[s + SpanOf(cell[p][s])] = f[s + SpanOf(cell[p][s])]
          BY <2>1, <4>1, SpanNat
        <4> QED BY <4>1, <4>2 DEF WalkStep
      <3> QED BY <1>1, <3>1, <3>2
    <2>3. CASE s = z
      BY <1>3, <2>2, <2>3
    <2>4. CASE s # z
      <3>1. s + m >= Slots
        BY <1>1, <2>1, <2>4
      <3> QED BY <1>3, <2>2, <2>4, <3>1
    <2> QED BY <2>3, <2>4
  <1> QED BY <1>3, <1>4

\* There is a walk of every page, and the scan takes one.
LEMMA WalkExists ==
  ASSUME FlashTypeOK, NEW b, NEW p \in Page
  PROVE  \E f : f = Walk(b, p, f)
  <1> DEFINE Good(f, m) == \A s \in Nat : s + m >= Slots => f[s] = WalkStep(b, p, f, s)
             N == {m \in Nat : \E f \in [Nat -> SUBSET Nat] : Good(f, m)}
  <1>0. Slots \in Nat
    BY FormatAssumption
  <1>1. 0 \in N
    <2>1. [s \in Nat |-> {}] \in [Nat -> SUBSET Nat] /\ Good([s \in Nat |-> {}], 0)
      BY <1>0 DEF WalkStep
    <2> QED BY <2>1
  <1>2. ASSUME NEW m \in Nat, m \in N PROVE m + 1 \in N
    <2>1. PICK f \in [Nat -> SUBSET Nat] : Good(f, m)
      BY <1>2
    <2>2. CASE m < Slots
      <3>1. \E g \in [Nat -> SUBSET Nat] : Good(g, m + 1)
        BY <2>1, <2>2, WalkFurther
      <3> QED BY <3>1
    <2>3. CASE m >= Slots
      <3>1. Good(f, m + 1)
        BY <1>0, <2>1, <2>3
      <3> QED BY <3>1
    <2> QED BY <1>0, <2>2, <2>3
  <1> HIDE DEF N
  <1>3. Slots \in N
    BY <1>0, <1>1, <1>2, SetInduction
  <1> USE DEF N
  <1>4. PICK f \in [Nat -> SUBSET Nat] : Good(f, Slots)
    BY <1>3
  <1>5. \A s \in Nat : f[s] = WalkStep(b, p, f, s)
    BY <1>0, <1>4
  <1>6. f = [s \in Nat |-> WalkStep(b, p, f, s)]
    BY <1>4, <1>5
  <1> QED BY <1>6 DEF Walk

\* What a scan visits, as a function that takes WalkStep at every slot.
LEMMA VisitedWalks ==
  ASSUME FlashTypeOK, NEW b, NEW p \in Page
  PROVE  \E f : Visited(b, p) = f[0] /\ \A s \in Nat : f[s] = WalkStep(b, p, f, s)
  <1> DEFINE f == CHOOSE f : f = Walk(b, p, f)
  <1>1. Visited(b, p) = f[0]
    BY DEF Visited, Walk, WalkStep
  <1>2. f = Walk(b, p, f)
    BY WalkExists
  <1> HIDE DEF f
  <1>3. \A s \in Nat : f[s] = WalkStep(b, p, f, s)
    BY <1>2 DEF Walk
  <1> QED BY <1>1, <1>3

\* What a scan visits is written.
LEMMA VisitedWritten ==
  ASSUME FlashTypeOK, NEW p \in Page, NEW x \in Visited(bits, p)
  PROVE  x \in Slot /\ bits[p][x] = "written"
  <1>1. PICK f : Visited(bits, p) = f[0] /\ \A s \in Nat : f[s] = WalkStep(bits, p, f, s)
    BY VisitedWalks
  <1> DEFINE Right(s) == \A y \in f[s] : y \in Slot /\ bits[p][y] = "written"
             N == {m \in Nat : \A s \in Nat : s + m >= Slots => Right(s)}
  <1>0. Slots \in Nat
    BY FormatAssumption
  <1>2. 0 \in N
    <2>1. \A s \in Nat : s >= Slots => f[s] = {}
      BY <1>1 DEF WalkStep
    <2> QED BY <1>0, <2>1
  <1>3. ASSUME NEW m \in Nat, m \in N PROVE m + 1 \in N
    <2> SUFFICES ASSUME NEW s \in Nat, s + (m + 1) >= Slots PROVE Right(s)
      OBVIOUS
    <2>1. CASE s >= Slots
      BY <1>0, <1>3, <2>1
    <2>2. CASE s < Slots
      <3>1. s \in Slot /\ bits[p][s] \in EntryStates
        BY <1>0, <2>2 DEF Slot, FlashTypeOK
      <3>2. Right(s + 1)
        BY <1>0, <1>3
      <3>3. IsHeader(cell[p][s]) => Right(s + SpanOf(cell[p][s]))
        BY <1>0, <1>3, <3>1, SpanNat
      <3>4. f[s] = WalkStep(bits, p, f, s)
        BY <1>1
      <3> QED BY <3>1, <3>2, <3>3, <3>4 DEF WalkStep, EntryStates
    <2> QED BY <1>0, <2>1, <2>2
  <1> HIDE DEF N
  <1>4. Slots \in N
    BY <1>0, <1>2, <1>3, SetInduction
  <1>5. Right(0)
    BY <1>0, <1>4 DEF N
  <1> QED BY <1>1, <1>5

\* page `p` is in order: used slots first, every entry whole, every written slot in one
Ordered(p) ==
  \A s \in Slot : /\ \A t \in Slot : s < t /\ bits[p][s] = "empty" => bits[p][t] = "empty"
                  /\ bits[p][s] = "written" => Owned(p, s)
                  /\ WrittenHeader(p, s) => Whole(p, s)

\* A scan of a page in order visits every header written there.
LEMMA HeadersVisited ==
  ASSUME FlashTypeOK, NEW p \in Page, Ordered(p), NEW x \in Slot, WrittenHeader(p, x)
  PROVE  x \in Visited(bits, p)
  <1>1. PICK f : Visited(bits, p) = f[0] /\ \A s \in Nat : f[s] = WalkStep(bits, p, f, s)
    BY VisitedWalks
  <1> DEFINE Border(s) == \A h \in Slot : WrittenHeader(p, h) /\ h < s => h + SpanOf(cell[p][h]) <= s
             All(s) == \A h \in Slot : WrittenHeader(p, h) /\ h >= s => h \in f[s]
             N == {m \in Nat : \A s \in Nat : s + m >= Slots /\ Border(s) => All(s)}
  <1>0. Slots \in Nat /\ \A s \in Slot : s \in Nat /\ s < Slots
    BY FormatAssumption DEF Slot
  <1>9. \A h \in Slot : WrittenHeader(p, h) => SpanOf(cell[p][h]) \in Nat /\ SpanOf(cell[p][h]) >= 1
    BY SpanNat DEF WrittenHeader
  <1>2. 0 \in N
    BY <1>0
  <1>3. ASSUME NEW m \in Nat, m \in N PROVE m + 1 \in N
    <2> SUFFICES ASSUME NEW s \in Nat, s + (m + 1) >= Slots, Border(s) PROVE All(s)
      OBVIOUS
    <2>0. f[s] = WalkStep(bits, p, f, s)
      BY <1>1
    <2>1. CASE s >= Slots
      BY <1>0, <2>1
    <2>2. CASE s < Slots
      <3>1. s \in Slot /\ bits[p][s] \in EntryStates
        BY <1>0, <2>2 DEF Slot, FlashTypeOK
      <3>2. CASE bits[p][s] = "empty"
        <4>1. \A h \in Slot : h >= s => bits[p][h] = "empty"
          BY <1>0, <3>1, <3>2 DEF Ordered
        <4> QED BY <4>1 DEF WrittenHeader
      <3>3. CASE bits[p][s] = "erased"
        <4>1. Border(s + 1)
          <5> SUFFICES ASSUME NEW h \in Slot, WrittenHeader(p, h), h < s + 1
                       PROVE  h + SpanOf(cell[p][h]) <= s + 1
            OBVIOUS
          <5>1. h < s
            BY <1>0, <3>3 DEF WrittenHeader
          <5>2. h + SpanOf(cell[p][h]) <= s
            BY <5>1
          <5> QED BY <1>0, <1>9, <5>2
        <4>2. All(s + 1)
          BY <1>0, <1>3, <4>1
        <4>3. f[s] = f[s + 1]
          BY <1>0, <2>0, <2>2, <3>3 DEF WalkStep
        <4> QED BY <1>0, <3>3, <4>2, <4>3 DEF WrittenHeader
      <3>4. CASE bits[p][s] = "written"
        <4>1. PICK b \in Slot : WrittenHeader(p, b) /\ b <= s /\ s < b + SpanOf(cell[p][b])
          BY <3>1, <3>4 DEF Ordered, Owned
        <4>2. SpanOf(cell[p][b]) \in Nat
          BY <4>1, SpanNat DEF WrittenHeader
        <4>3. b = s
          BY <1>0, <4>1, <4>2
        <4> DEFINE n == SpanOf(cell[p][s])
        <4>4. WrittenHeader(p, s) /\ IsHeader(cell[p][s]) /\ n \in Nat /\ n >= 1
          BY <3>1, <4>1, <4>3, SpanNat DEF WrittenHeader
        <4>5. \A i \in 1 .. n - 1 : ~IsHeader(cell[p][s + i])
          BY <3>1, <4>4 DEF Ordered, Whole
        <4> HIDE DEF n
        <4>6. \A g \in Slot : WrittenHeader(p, g) /\ g > s => g >= s + n
          <5> SUFFICES ASSUME NEW g \in Slot, WrittenHeader(p, g), g > s, g < s + n PROVE FALSE
            BY <1>0, <4>4
          <5>1. g - s \in 1 .. n - 1 /\ s + (g - s) = g
            BY <1>0, <4>4
          <5> QED BY <4>5, <5>1 DEF WrittenHeader
        <4>7. Border(s + n)
          <5> SUFFICES ASSUME NEW h \in Slot, WrittenHeader(p, h), h < s + n
                       PROVE  h + SpanOf(cell[p][h]) <= s + n
            OBVIOUS
          <5>1. CASE h < s
            <6>1. h + SpanOf(cell[p][h]) <= s
              BY <5>1
            <6> QED BY <1>0, <1>9, <4>4, <6>1
          <5>2. CASE h = s
            BY <1>0, <4>4, <5>2 DEF n
          <5> QED BY <1>0, <4>4, <4>6, <5>1, <5>2
        <4>8. All(s + n)
          BY <1>0, <1>3, <4>4, <4>7
        <4>9. f[s] = {s} \cup f[s + n]
          BY <1>0, <2>0, <2>2, <3>4, <4>4 DEF WalkStep, n
        <4> QED BY <1>0, <4>6, <4>8, <4>9
      <3> QED BY <3>1, <3>2, <3>3, <3>4 DEF EntryStates
    <2> QED BY <1>0, <2>1, <2>2
  <1> HIDE DEF N
  <1>4. Slots \in N
    BY <1>0, <1>2, <1>3, SetInduction
  <1>5. Border(0)
    BY <1>0
  <1>6. All(0)
    BY <1>0, <1>4, <1>5 DEF N
  <1> QED BY <1>0, <1>1, <1>6
----------------------------------------------------------------------------
(***************************************************************************)
(* The entries of the data pages.                                          *)
(***************************************************************************)
SlotNat == Slots \in Nat /\ \A s \in Slot : s \in Nat /\ s < Slots

\* Slots are numbered from 0.
LEMMA SlotsAreNat == SlotNat
  BY FormatAssumption DEF SlotNat, Slot

\* A header a scan visits is a written header of a data page.
LEMMA VisitedHeader ==
  ASSUME FlashTypeOK, NEW x \in Headers(bits), IsHeader(CellAt(x))
  PROVE  x \in Place /\ x[1] \in DataPages /\ x[2] \in Slot /\ WrittenHeader(x[1], x[2])
         /\ CellAt(x) = cell[x[1]][x[2]]
  <1>1. x \in Place /\ x[1] \in DataPages /\ x[2] \in Visited(bits, x[1])
    BY DEF Headers
  <1>2. x[1] \in Page /\ x[2] \in Slot /\ bits[x[1]][x[2]] = "written"
    BY <1>1, VisitedWritten DEF DataPages
  <1> QED BY <1>1, <1>2 DEF WrittenHeader, CellAt

\* where a page may be out of order
Unsettled == {"data", "datamark", "entry", "entrymark", "copymark", "erasespan"}

\* Everywhere else every data page is in order.
LEMMA SettledPages ==
  ASSUME l \in Locals, Reserved, FlashInv, CopyInHand, pc \notin Unsettled, pc = "copy" => l.k = 0,
         NEW p \in DataPages
  PROVE  Ordered(p)
  <1>1. ~Writing /\ \A t : ~Loose(p, t)
    BY DEF Unsettled, Writing, Loose
  <1>2. \A s \in Slot : ~(WrittenHeader(p, s) /\ CopyingCell /\ p = l.target /\ s = l.to)
    BY SlotsAreNat DEF SlotNat, Unsettled, CopyingCell, CopyInHand, WrittenHeader, Locals
  <1> QED BY <1>1, <1>2 DEF FlashInv, Appended, AllWhole, AllOwned, Ordered

\* Pages in order are what the invariant asks for.
LEMMA OrderedPages ==
  ASSUME \A p \in DataPages : Ordered(p)
  PROVE  Appended /\ AllWhole /\ AllOwned
  BY DEF Appended, AllWhole, AllOwned, Ordered

\* They leave from points where the pages are in order.
LEMMA StillPoints ==
  ASSUME StillStep
  PROVE  pc \notin Unsettled /\ (pc = "copy" => l.k = 0)
  BY DEF StillStep, Unsettled, PutBegin, PutFindOld, RemoveBegin, PageWithRoom, CheckRoom, ActivatePage,
     StartHeader, CopyDone, ChunkLoop, Fill, Sweep, Scrub

\* A step that touches no slot and starts no page.
LEMMA FlashByStill ==
  ASSUME FlashTypeOK, l \in Locals, Pages, FlashInv, CopyInHand, StillStep, ~StartHeader
  PROVE  FlashInv'
  <1>1. /\ UNCHANGED <<bits, cell>> /\ DataPages' = DataPages
        /\ \A q \in Page : hdr'[q].state = "uninit" => hdr[q].state = "uninit"
    BY StillStepStill
  <1>2. \A p \in DataPages : Ordered(p)
    BY StillPoints, SettledPages DEF Pages
  <1>3. \A p \in DataPages' : Ordered(p)'
    BY <1>1, <1>2 DEF Ordered, Owned, Whole, WrittenHeader
  <1>4. Appended' /\ AllWhole' /\ AllOwned'
    BY <1>3 DEF Appended, AllWhole, AllOwned, Ordered, Owned, Whole, WrittenHeader
  <1>5. FreeEmpty' /\ NamespacesApart'
    BY <1>1 DEF FlashInv, FreeEmpty, NamespacesApart, FreePages
  <1> QED BY <1>4, <1>5 DEF FlashInv

\* The page that is started is blank.
LEMMA StartedBlank ==
  ASSUME FreeEmpty, l.target \in FreePages, hdr[l.target].state = "uninit"
  PROVE  \A s \in Slot : bits[l.target][s] = "empty"
  BY DEF FreeEmpty

\* A page is started: it has no entries yet.
LEMMA FlashByStart ==
  ASSUME FlashTypeOK, l \in Locals, Pages, FlashInv, CopyInHand, StartHeader
  PROVE  FlashInv'
  <1>1. /\ UNCHANGED <<bits, cell>> /\ pc = "start" /\ hdr[l.target].state = "uninit"
        /\ FreePages' = FreePages \ {l.target} /\ l.target \in FreePages
        /\ DataPages' = DataPages \cup {l.target}
        /\ \A q \in Page : q # l.target => hdr'[q] = hdr[q]
    BY StartEffect DEF Pages, Reserved, FreePages
  <1>2. \A p \in DataPages : Ordered(p)
    BY <1>1, SettledPages DEF Pages, Unsettled
  <1>3. \A s \in Slot : bits[l.target][s] = "empty"
    BY <1>1, StartedBlank DEF FlashInv
  <1>4. Ordered(l.target)
    BY <1>3 DEF Ordered, WrittenHeader
  <1>5. \A p \in DataPages' : Ordered(p)'
    BY <1>1, <1>2, <1>4 DEF Ordered, Owned, Whole, WrittenHeader
  <1>6. Appended' /\ AllWhole' /\ AllOwned'
    BY <1>5 DEF Appended, AllWhole, AllOwned, Ordered, Owned, Whole, WrittenHeader
  <1>7. FreeEmpty'
    BY <1>1 DEF FlashInv, FreeEmpty, FreePages
  <1>8. NamespacesApart'
    BY <1>1, <1>3 DEF FlashInv, NamespacesApart
  <1> QED BY <1>6, <1>7, <1>8 DEF FlashInv

\* A page is erased: its entries go with it.
LEMMA FlashByErase ==
  ASSUME FlashTypeOK, l \in Locals, Pages, FlashInv, CopyInHand, pc \notin Unsettled \cup {"copy"},
         NEW e \in Page, ErasePage(e)
  PROVE  FlashInv'
  <1>1. /\ \A s \in Slot : bits'[e][s] = "empty"
        /\ \A q \in Page : q # e => hdr'[q] = hdr[q] /\ bits'[q] = bits[q] /\ cell'[q] = cell[q]
        /\ DataPages' = DataPages \ {e} /\ FreePages' = FreePages \cup {e}
    BY EraseEffect
  <1>2. \A p \in DataPages : p \in Page /\ Ordered(p)
    BY SettledPages DEF Pages, DataPages
  <1>3. \A p \in DataPages' : Ordered(p)'
    BY <1>1, <1>2 DEF Ordered, Owned, Whole, WrittenHeader
  <1>4. Appended' /\ AllWhole' /\ AllOwned'
    BY <1>3 DEF Appended, AllWhole, AllOwned, Ordered, Owned, Whole, WrittenHeader
  <1>5. FreeEmpty'
    BY <1>1 DEF FlashInv, FreeEmpty, FreePages
  <1>6. NamespacesApart'
    <2>1. \A q \in DataPages' : q \in DataPages /\ q \in Page /\ bits'[q] = bits[q] /\ cell'[q] = cell[q]
      BY <1>1 DEF DataPages
    <2> QED BY <2>1 DEF FlashInv, NamespacesApart
  <1> QED BY <1>4, <1>5, <1>6 DEF FlashInv

\* used slots keep what they hold and stay used
UsedKept ==
  \A q \in Page : \A t \in Slot :
    bits[q][t] # "empty" => cell'[q][t] = cell[q][t] /\ bits'[q][t] # "empty"

\* An entry that is whole stays so.
LEMMA WholeStays ==
  ASSUME FlashTypeOK, UsedKept, NEW p \in Page, NEW s \in Slot, WrittenHeader(p, s), Whole(p, s)
  PROVE  Whole(p, s)'
  <1>1. cell'[p][s] = cell[p][s]
    BY DEF UsedKept, WrittenHeader
  <1> DEFINE n == SpanOf(cell[p][s])
  <1>2. n \in Nat /\ n >= 1 /\ s + n <= Slots
    BY SpanNat DEF WrittenHeader, Whole
  <1>3. \A i \in 1 .. n - 1 : bits[p][s + i] # "empty" /\ ~IsHeader(cell[p][s + i])
    BY DEF Whole
  <1> HIDE DEF n
  <1>4. \A i \in 1 .. n - 1 : s + i \in Slot
    BY <1>2, SlotsAreNat DEF SlotNat, Slot
  <1>5. \A i \in 1 .. n - 1 : bits'[p][s + i] # "empty" /\ ~IsHeader(cell'[p][s + i])
    BY <1>3, <1>4 DEF UsedKept
  <1> QED BY <1>1, <1>2, <1>5 DEF Whole, n

\* A slot keeps its entry while that entry's header stays.
LEMMA OwnedStays ==
  ASSUME NEW p, NEW t, NEW h \in Slot, WrittenHeader(p, h), h <= t, t < h + SpanOf(cell[p][h]),
         cell'[p][h] = cell[p][h], bits'[p][h] = "written"
  PROVE  Owned(p, t)'
  BY DEF Owned, WrittenHeader

\* Programming an empty slot changes no entry.
LEMMA FlashByProgram ==
  ASSUME FlashTypeOK, FlashInv, UNCHANGED <<hdr, bits>>, NEW p \in Page, NEW s \in Slot, NEW c,
         ProgramCell(p, s, c), bits[p][s] = "empty", pc # "erasespan",
         Writing => Writing' /\ l' = l,
         CopyingCell => CopyingCell' /\ l'.target = l.target /\ l'.to = l.to
  PROVE  FlashInv'
  <1>1. UsedKept
    BY ProgramEffect DEF UsedKept
  <1>2. DataPages' = DataPages /\ FreePages' = FreePages /\ \A q \in DataPages : q \in Page
    BY DEF DataPages, FreePages
  <1>3. Appended'
    BY <1>2 DEF FlashInv, Appended
  <1>4. \A q \in DataPages : \A t \in Slot : WrittenHeader(q, t)' => WrittenHeader(q, t)
    BY <1>1, <1>2 DEF UsedKept, WrittenHeader
  <1>5. AllWhole'
    <2> SUFFICES ASSUME NEW q \in DataPages, NEW t \in Slot, WrittenHeader(q, t)',
                        ~(CopyingCell' /\ q = l'.target /\ t = l'.to)
                 PROVE  Whole(q, t)'
      BY <1>2 DEF AllWhole
    <2>1. WrittenHeader(q, t)
      BY <1>4
    <2>2. Whole(q, t)
      BY <2>1 DEF FlashInv, AllWhole
    <2> QED BY <1>1, <1>2, <2>1, <2>2, WholeStays
  <1>6. AllOwned'
    <2> SUFFICES ASSUME NEW q \in DataPages, NEW t \in Slot, bits[q][t] = "written", ~Loose(q, t)'
                 PROVE  Owned(q, t)'
      BY <1>2 DEF AllOwned
    <2>1. ~Loose(q, t)
      BY DEF Loose
    <2>2. PICK h \in Slot : WrittenHeader(q, h) /\ h <= t /\ t < h + SpanOf(cell[q][h])
      BY <2>1 DEF FlashInv, AllOwned, Owned
    <2>3. cell'[q][h] = cell[q][h] /\ bits'[q][h] = "written"
      BY <1>1, <1>2, <2>2 DEF UsedKept, WrittenHeader
    <2> QED BY <2>2, <2>3, OwnedStays
  <1>7. FreeEmpty'
    BY <1>2 DEF FlashInv, FreeEmpty
  <1>8. NamespacesApart'
    <2>1. \A q \in DataPages : \A t \in Slot : bits'[q][t] = "written" =>
            bits[q][t] = "written" /\ cell'[q][t] = cell[q][t]
      BY <1>1, <1>2 DEF UsedKept
    <2> QED BY <1>2, <2>1 DEF FlashInv, NamespacesApart
  <1> QED BY <1>3, <1>5, <1>6, <1>7, <1>8 DEF FlashInv

\* Marking a programmed slot keeps what every used slot holds.
LEMMA MarkKeepsUsed ==
  ASSUME FlashTypeOK, NEW p \in Page, NEW s, NEW state \in {"written", "erased"},
         Mark(p, s, state), UNCHANGED cell
  PROVE  UsedKept
  BY MarkEffect DEF UsedKept

\* Marking a slot written keeps the entries that were whole whole.
LEMMA WrittenHeadersStay ==
  ASSUME FlashTypeOK, NEW p \in Page, NEW s, Mark(p, s, "written"), UNCHANGED cell
  PROVE  \A q \in Page : \A t \in Slot : WrittenHeader(q, t) => WrittenHeader(q, t)' /\ (Whole(q, t) => Whole(q, t)')
  <1> SUFFICES ASSUME NEW q \in Page, NEW t \in Slot, WrittenHeader(q, t)
               PROVE  WrittenHeader(q, t)' /\ (Whole(q, t) => Whole(q, t)')
    OBVIOUS
  <1>1. bits'[q][t] = "written"
    BY MarkEffect DEF WrittenHeader
  <1>2. Whole(q, t) => Whole(q, t)'
    BY MarkKeepsUsed, WholeStays
  <1> QED BY <1>1, <1>2 DEF WrittenHeader

\* A slot marked written takes no slot from its entry.
LEMMA OwnersStay ==
  ASSUME FlashTypeOK, NEW p \in Page, NEW s, Mark(p, s, "written"), UNCHANGED cell,
         NEW q \in Page, NEW t \in Slot, Owned(q, t)
  PROVE  Owned(q, t)'
  <1>1. PICK h \in Slot : WrittenHeader(q, h) /\ h <= t /\ t < h + SpanOf(cell[q][h])
    BY DEF Owned
  <1>2. bits'[q][h] = "written"
    BY <1>1, WrittenHeadersStay DEF WrittenHeader
  <1> QED BY <1>1, <1>2, OwnedStays

\* The slot where the entry being written goes.
LEMMA EntrySlots ==
  ASSUME CallState, Pages, EntryInHand, Writing
  PROVE  /\ l.at[1] \in DataPages /\ l.at[1] \in Page /\ l.at[2] \in Slot /\ l.at[2] \in Nat
         /\ l.k \in Nat /\ l.at[2] + l.k < Slots
         /\ bits[l.at[1]][l.at[2]] = "empty"
         /\ \A t \in Slot : t < l.at[2] => bits[l.at[1]][t] # "empty"
         /\ Slots \in Nat
  <1>1. l.at \in Place /\ l.at[1] \in ActivePages /\ l.k \in Nat
    BY DEF Writing, Pages, Reserved, WritePoints, CallState, Locals
  <1>2. l.at[2] \in Slot /\ l.at[1] \in Page
    BY <1>1 DEF Place
  <1> QED BY <1>1, <1>2, SlotsAreNat DEF SlotNat, EntryInHand, FirstEmpty, DataPages, ActivePages, Slot

\* The next data slot, still empty.
LEMMA NextDataSlot ==
  ASSUME CallState, Pages, FlashInv, EntryInHand, pc \in {"data", "datamark"}
  PROVE  l.at[2] + 1 + l.k \in Slot /\ bits[l.at[1]][l.at[2] + 1 + l.k] = "empty"
  <1>1. Writing /\ l.want = "chunk" /\ l.k < ChunkSize
    BY DEF Writing, EntryInHand
  <1>2. /\ l.at[1] \in DataPages /\ l.at[2] \in Slot /\ l.at[2] \in Nat /\ l.k \in Nat
        /\ bits[l.at[1]][l.at[2]] = "empty" /\ Slots \in Nat
    BY <1>1, EntrySlots
  <1>3. l.k < Slots - l.at[2] - 1
    <2>1. l.offset \in Nat /\ Size[op.value] \in Nat
      <3>1. op.call = "put"
        BY DEF CallState, Routing, PutPoints, WritePoints
      <3> QED BY <3>1, FormatAssumption DEF CallState, Locals, Calls
    <2> QED BY <1>1, <1>2, <2>1 DEF ChunkSize, Smaller, TailRoom, Remaining
  <1>4. l.at[2] + 1 + l.k \in Slot
    BY <1>2, <1>3 DEF Slot
  <1> QED BY <1>2, <1>4 DEF FlashInv, Appended

\* A data slot is marked: it waits for its header and is no one's yet.
LEMMA FlashByDataMark ==
  ASSUME FlashTypeOK, CallState, Pages, FlashInv, EntryInHand, DataMark
  PROVE  FlashInv'
  <1> DEFINE p == l.at[1]
             s == l.at[2]
             d == l.at[2] + 1 + l.k
  <1>1. /\ pc = "datamark" /\ pc' \in {"data", "entry"} /\ UNCHANGED <<hdr, cell>> /\ Mark(p, d, "written")
        /\ l'.at = l.at /\ l'.k = l.k + 1
    BY DEF DataMark, Goto, CallState, Locals
  <1>2. /\ p \in DataPages /\ p \in Page /\ s \in Slot /\ s \in Nat /\ l.k \in Nat
        /\ bits[p][s] = "empty" /\ \A t \in Slot : t < s => bits[p][t] # "empty"
    BY <1>1, EntrySlots DEF Writing
  <1>3. d \in Slot /\ bits[p][d] = "empty" /\ ~IsHeader(cell[p][d])
    BY <1>1, NextDataSlot DEF EntryInHand, Writing
  <1>4. /\ \A q \in Page : \A t \in Slot : ~(q = p /\ t = d) => bits'[q][t] = bits[q][t]
        /\ bits'[p][d] = "written"
    BY <1>1, <1>2, <1>3, MarkEffect
  <1>5. DataPages' = DataPages /\ FreePages' = FreePages /\ (\A q \in DataPages : q \in Page)
        /\ p \notin FreePages /\ Writing /\ Writing' /\ ~CopyingCell
    BY <1>1, <1>2 DEF DataPages, FreePages, Writing, CopyingCell
  <1>6. Appended'
    <2> SUFFICES ASSUME NEW q \in DataPages, NEW a \in Slot, NEW b \in Slot,
                        a < b, bits'[q][a] = "empty", bits'[q][b] # "empty"
                 PROVE  q = p /\ a = s /\ b <= s + (l.k + 1)
      BY <1>1, <1>5 DEF Appended
    <2>1. bits[q][a] = "empty"
      BY <1>4, <1>5
    <2>2. CASE q = p /\ b = d
      <3>1. a = s
        <4>1. ~(a < s)
          BY <1>2, <2>1, <2>2
        <4>2. a > s => FALSE
          <5> SUFFICES ASSUME a > s PROVE FALSE
            OBVIOUS
          <5>1. a \in s + 1 .. s + l.k
            BY <1>2, <2>2, SlotsAreNat DEF SlotNat
          <5>2. a - s \in 1 .. l.k /\ s + (a - s) = a
            BY <1>2, <5>1, SlotsAreNat DEF SlotNat
          <5>3. bits[p][a] = "written"
            BY <1>5, <5>2 DEF EntryInHand
          <5> QED BY <2>1, <2>2, <5>3
        <4> QED BY <1>2, <4>1, <4>2, SlotsAreNat DEF SlotNat
      <3> QED BY <1>2, <2>2, <3>1
    <2>3. CASE ~(q = p /\ b = d)
      <3>1. bits[q][b] # "empty"
        BY <1>4, <1>5, <2>3
      <3>2. q = p /\ a = s /\ b <= s + l.k
        BY <2>1, <3>1 DEF FlashInv, Appended
      <3> QED BY <1>2, <3>2, SlotsAreNat DEF SlotNat
    <2> QED BY <2>2, <2>3
  <1>7. \A q \in DataPages : \A t \in Slot : WrittenHeader(q, t)' => WrittenHeader(q, t)
    BY <1>1, <1>3, <1>4, <1>5 DEF WrittenHeader
  <1>8. AllWhole'
    <2> SUFFICES ASSUME NEW q \in DataPages, NEW t \in Slot, WrittenHeader(q, t)' PROVE Whole(q, t)'
      BY <1>5 DEF AllWhole
    <2>1. WrittenHeader(q, t) /\ Whole(q, t)
      BY <1>5, <1>7 DEF FlashInv, AllWhole
    <2> QED BY <1>1, <1>2, <1>5, <2>1, WrittenHeadersStay
  <1>9. AllOwned'
    <2> SUFFICES ASSUME NEW q \in DataPages, NEW t \in Slot, bits'[q][t] = "written", ~Loose(q, t)'
                 PROVE  Owned(q, t)'
      BY <1>5 DEF AllOwned
    <2>1. ~Loose(q, t) /\ ~(q = p /\ t = d)
      BY <1>1, <1>2, <1>5 DEF Loose, Writing
    <2>2. Owned(q, t)
      BY <1>4, <1>5, <2>1 DEF FlashInv, AllOwned
    <2> QED BY <1>1, <1>2, <1>5, <2>2, OwnersStay
  <1>10. FreeEmpty'
    BY <1>1, <1>4, <1>5 DEF FlashInv, FreeEmpty, FreePages
  <1>11. NamespacesApart'
    <2>1. \A q \in DataPages : \A t \in Slot : bits'[q][t] = "written" /\ cell[q][t].kind = "ns" =>
            bits[q][t] = "written"
      BY <1>3, <1>4, <1>5 DEF IsHeader
    <2> QED BY <1>1, <1>5, <2>1 DEF FlashInv, NamespacesApart
  <1> QED BY <1>6, <1>8, <1>9, <1>10, <1>11 DEF FlashInv

\* What EntryCell says of itself: a header, one slot and its data.
LEMMA EntryCellSpan ==
  ASSUME l.want \in {"ns", "chunk", "idx"}, l.k = IF l.want = "chunk" THEN ChunkSize ELSE 0
  PROVE  IsHeader(EntryCell) /\ SpanOf(EntryCell) = l.k + 1
         /\ EntryCell.kind = l.want /\ (l.want = "ns" => EntryCell.index = l.ns)
  <1>1. CASE l.want = "ns"
    BY <1>1 DEF EntryCell, IsHeader, SpanOf
  <1>2. CASE l.want = "chunk"
    BY <1>2 DEF EntryCell, IsHeader, SpanOf
  <1>3. CASE l.want = "idx"
    BY <1>3 DEF EntryCell, IsHeader, SpanOf
  <1> QED BY <1>1, <1>2, <1>3

\* A header is marked: with it the entry is whole and the data before it is its own.
LEMMA FlashByEntryMark ==
  ASSUME FlashTypeOK, CallState, Pages, FlashInv, EntryInHand, IndexFresh, EntryMark
  PROVE  FlashInv'
  <1> DEFINE p == l.at[1]
             s == l.at[2]
  <1>1. /\ pc = "entrymark" /\ pc' \in {"old", "fill", "room", "sweep", "erasespan"}
        /\ pc' = "erasespan" => l'.k = 0
        /\ UNCHANGED <<hdr, cell>> /\ Mark(p, s, "written")
    BY DEF EntryMark, Goto, Retire, CallState, Locals
  <1>2. /\ p \in DataPages /\ p \in Page /\ s \in Slot /\ s \in Nat /\ l.k \in Nat /\ s + l.k < Slots
        /\ bits[p][s] = "empty" /\ Slots \in Nat /\ \A t \in Slot : t < s => bits[p][t] # "empty"
    BY <1>1, EntrySlots DEF Writing
  <1>3. /\ \A q \in Page : \A t \in Slot : ~(q = p /\ t = s) => bits'[q][t] = bits[q][t]
        /\ bits'[p][s] = "written"
    BY <1>1, <1>2, MarkEffect
  <1>4. DataPages' = DataPages /\ FreePages' = FreePages /\ (\A q \in DataPages : q \in Page)
        /\ p \notin FreePages /\ Writing /\ ~Writing' /\ ~CopyingCell
    BY <1>1, <1>2 DEF DataPages, FreePages, Writing, CopyingCell
  <1>5. /\ IsHeader(cell[p][s]) /\ SpanOf(cell[p][s]) = l.k + 1
        /\ cell[p][s].kind = l.want /\ (l.want = "ns" => cell[p][s].index = l.ns)
    BY <1>1, <1>4, EntryCellSpan DEF EntryInHand, CallState, Locals
  <1>6. \A i \in 1 .. l.k : s + i \in Slot /\ bits[p][s + i] = "written" /\ ~IsHeader(cell[p][s + i])
    BY <1>2, <1>4 DEF EntryInHand, Slot
  <1>7. Appended'
    <2> SUFFICES ASSUME NEW q \in DataPages, NEW a \in Slot, NEW b \in Slot,
                        a < b, bits'[q][a] = "empty", bits'[q][b] # "empty"
                 PROVE  FALSE
      BY <1>4 DEF Appended
    <2>1. bits[q][a] = "empty" /\ ~(q = p /\ a = s)
      BY <1>3, <1>4
    <2>2. CASE q = p /\ b = s
      BY <1>2, <2>1, <2>2
    <2>3. CASE ~(q = p /\ b = s)
      <3>1. bits[q][b] # "empty"
        BY <1>3, <1>4, <2>3
      <3> QED BY <2>1, <3>1 DEF FlashInv, Appended
    <2> QED BY <2>2, <2>3
  <1>8. AllWhole'
    <2> SUFFICES ASSUME NEW q \in DataPages, NEW t \in Slot, WrittenHeader(q, t)' PROVE Whole(q, t)'
      BY <1>4 DEF AllWhole
    <2>1. CASE q = p /\ t = s
      <3>1. \A i \in 1 .. l.k : bits'[p][s + i] = "written" /\ ~IsHeader(cell'[p][s + i])
        BY <1>1, <1>2, <1>3, <1>6
      <3> QED BY <1>1, <1>2, <1>5, <2>1, <3>1 DEF Whole
    <2>2. CASE ~(q = p /\ t = s)
      <3>1. WrittenHeader(q, t)
        BY <1>1, <1>3, <1>4, <2>2 DEF WrittenHeader
      <3>2. Whole(q, t)
        BY <1>4, <3>1 DEF FlashInv, AllWhole
      <3> QED BY <1>1, <1>2, <1>4, <3>1, <3>2, WrittenHeadersStay
    <2> QED BY <2>1, <2>2
  <1>9. AllOwned'
    <2> SUFFICES ASSUME NEW q \in DataPages, NEW t \in Slot, bits'[q][t] = "written" PROVE Owned(q, t)'
      BY <1>4 DEF AllOwned
    <2>1. CASE q = p /\ s <= t /\ t < s + (l.k + 1)
      <3>1. bits'[q][s] = "written" /\ IsHeader(cell'[q][s]) /\ SpanOf(cell'[q][s]) = l.k + 1
        BY <1>1, <1>3, <1>5, <2>1
      <3> QED BY <1>2, <2>1, <3>1 DEF Owned, WrittenHeader
    <2>2. CASE ~(q = p /\ s <= t /\ t < s + (l.k + 1))
      <3>1. ~(q = p /\ t = s) /\ ~Loose(q, t)
        BY <1>1, <1>2, <1>4, <2>2, SlotsAreNat DEF Loose, SlotNat
      <3>2. Owned(q, t)
        BY <1>3, <1>4, <3>1 DEF FlashInv, AllOwned
      <3> QED BY <1>1, <1>2, <1>4, <3>2, OwnersStay
    <2> QED BY <2>1, <2>2
  <1>10. FreeEmpty'
    BY <1>1, <1>3, <1>4 DEF FlashInv, FreeEmpty, FreePages
  <1>11. NamespacesApart'
    <2>1. l.want = "ns" => \A q \in DataPages : \A t \in Slot :
            bits[q][t] = "written" /\ cell[q][t].kind = "ns" => cell[q][t].index # l.ns
      <3>1. op.call = "put"
        BY <1>1 DEF CallState, Routing, PutPoints, WritePoints
      <3> QED BY <1>1, <3>1 DEF IndexFresh, IndexPoints
    <2>2. \A q \in DataPages : \A t \in Slot :
            bits'[q][t] = "written" /\ cell[q][t].kind = "ns" /\ ~(q = p /\ t = s) =>
              bits[q][t] = "written" /\ (l.want = "ns" => cell[q][t].index # cell[p][s].index)
      BY <1>3, <1>4, <1>5, <2>1
    <2>3. cell[p][s].kind = "ns" => l.want = "ns"
      BY <1>5
    <2> QED BY <1>1, <1>4, <2>2, <2>3 DEF FlashInv, NamespacesApart
  <1> QED BY <1>7, <1>8, <1>9, <1>10, <1>11 DEF FlashInv

----------------------------------------------------------------------------
(***************************************************************************)
(* Copying a victim's entries.                                             *)
(***************************************************************************)
\* The target and the victim are two data pages.
LEMMA CopyPages ==
  ASSUME CallState, Pages, CopyingCell
  PROVE  /\ l.target \in DataPages /\ l.target \in Page /\ l.victim \in DataPages /\ l.victim \in Page
         /\ l.victim # l.target
         /\ l.to \in Nat /\ l.from \in Nat /\ l.k \in Nat /\ l.span \in Nat /\ Slots \in Nat
  <1>1. l.target \in ActivePages /\ l.victim \in Page /\ hdr[l.victim].state = "full"
    BY DEF CopyingCell, Pages, Reserved, CompactPoints
  <1> QED BY <1>1, SlotsAreNat DEF SlotNat, ActivePages, DataPages, CallState, Locals

\* Outside the target's last entry the entries are whole, the victim's among them.
LEMMA VictimWhole ==
  ASSUME CallState, Pages, FlashInv, CopyingCell, NEW s \in Slot, WrittenHeader(l.victim, s)
  PROVE  Whole(l.victim, s)
  BY CopyPages DEF FlashInv, AllWhole

\* The entry being copied.
LEMMA EntryCopied ==
  ASSUME FlashTypeOK, CallState, Pages, FlashInv, CopyInHand, pc = "copymark" \/ (pc = "copy" /\ l.k > 0)
  PROVE  /\ l.from \in Slot /\ l.k < l.span /\ l.from + l.span <= Slots
         /\ WrittenHeader(l.victim, l.from) /\ SpanOf(cell[l.victim][l.from]) = l.span
         /\ \A i \in 1 .. l.span - 1 : l.from + i \in Slot /\ bits[l.victim][l.from + i] # "empty"
                                       /\ ~IsHeader(cell[l.victim][l.from + i])
         /\ l.to <= l.from /\ l.to \in Slot /\ l.to + l.k \in Slot
         /\ bits[l.target][l.to + l.k] = "empty"
  <1>1. l.from \in Slot /\ l.k < l.span /\ l.from + l.span <= Slots
    BY DEF CallState, Copying
  <1>2. CopyingCell
    BY DEF CopyingCell
  <1>3. /\ WrittenHeader(l.victim, l.from) /\ SpanOf(cell[l.victim][l.from]) = l.span
        /\ l.to <= l.from
    BY <1>2 DEF CopyInHand
  <1>4. Whole(l.victim, l.from)
    BY <1>1, <1>2, <1>3, VictimWhole
  <1>5. /\ l.to \in Nat /\ l.from \in Nat /\ l.k \in Nat /\ l.span \in Nat /\ Slots \in Nat
    BY <1>2, CopyPages
  <1>6. l.to \in Slot /\ l.to + l.k \in Slot /\ \A i \in 1 .. l.span - 1 : l.from + i \in Slot
    BY <1>1, <1>3, <1>5 DEF Slot
  <1>7. bits[l.target][l.to + l.k] = "empty"
    BY <1>2, <1>5, <1>6 DEF CopyInHand
  <1> QED BY <1>1, <1>3, <1>4, <1>6, <1>7 DEF Whole

\* The next written slot of the victim is a header, and what comes before it ends before it.
LEMMA EntryPicked ==
  ASSUME FlashTypeOK, CallState, Pages, FlashInv, CopyInHand, pc = "copy",
         NEW s \in Slot, NextWritten(s), NEW n \in SpansAt(l.victim, s)
  PROVE  /\ WrittenHeader(l.victim, s) /\ n = SpanOf(cell[l.victim][s]) /\ s >= l.from /\ s + n <= Slots
         /\ \A h \in Slot : WrittenHeader(l.victim, h) /\ h < s => h + SpanOf(cell[l.victim][h]) <= s
  <1>1. CopyingCell
    BY DEF CopyingCell
  <1>2. /\ l.victim \in DataPages /\ l.victim \in Page /\ l.from \in Nat /\ Slots \in Nat /\ s \in Nat
    BY <1>1, CopyPages DEF Slot
  <1>3. /\ s >= l.from /\ bits[l.victim][s] = "written"
        /\ \A t \in l.from .. s - 1 : bits[l.victim][t] # "written"
    BY DEF NextWritten
  <1>4. \A h \in Slot : WrittenHeader(l.victim, h) => SpanOf(cell[l.victim][h]) \in Nat
    BY <1>2, SpanNat DEF WrittenHeader
  <1>5. ASSUME NEW h \in Slot, WrittenHeader(l.victim, h), h < s
        PROVE  h < l.from /\ h + SpanOf(cell[l.victim][h]) <= l.from
    <2>1. h < l.from
      <3>1. h \in Nat /\ bits[l.victim][h] = "written"
        BY <1>5 DEF Slot, WrittenHeader
      <3> QED BY <1>2, <1>3, <1>5, <3>1
    <2> QED BY <1>1, <1>5, <2>1 DEF CopyInHand
  <1>6. WrittenHeader(l.victim, s)
    <2>1. ~Loose(l.victim, s)
      BY DEF Loose, Writing
    <2>2. PICK h \in Slot : WrittenHeader(l.victim, h) /\ h <= s /\ s < h + SpanOf(cell[l.victim][h])
      BY <1>2, <1>3, <2>1 DEF FlashInv, AllOwned, Owned
    <2>3. h = s
      <3>1. h \in Nat /\ SpanOf(cell[l.victim][h]) \in Nat
        BY <1>4, <2>2 DEF Slot
      <3> QED BY <1>2, <1>3, <1>5, <2>2, <3>1
    <2> QED BY <2>2, <2>3
  <1>7. Whole(l.victim, s)
    BY <1>1, <1>6, VictimWhole
  <1>8. n = SpanOf(cell[l.victim][s]) /\ s + n <= Slots
    BY <1>2, <1>4, <1>6, <1>7 DEF SpansAt, WrittenHeader, Whole
  <1>9. \A h \in Slot : WrittenHeader(l.victim, h) /\ h < s => h + SpanOf(cell[l.victim][h]) <= s
    <2> SUFFICES ASSUME NEW h \in Slot, WrittenHeader(l.victim, h), h < s
                 PROVE  h + SpanOf(cell[l.victim][h]) <= s
      OBVIOUS
    <2>1. h + SpanOf(cell[l.victim][h]) <= l.from /\ SpanOf(cell[l.victim][h]) \in Nat /\ h \in Nat
      BY <1>4, <1>5 DEF Slot
    <2> QED BY <1>2, <1>3, <2>1
  <1> QED BY <1>3, <1>6, <1>8, <1>9

\* Programming the next slot of the target.
LEMMA CopyCellTidy ==
  ASSUME FlashTypeOK, CallState, Pages, EmptyBlank, FlashInv, CopyInHand, CopyCell
  PROVE  FlashInv' /\ CopyInHand'
  <1> DEFINE t == l.target
             v == l.victim
             e == l.to + l.k
  <1>1. PICK s \in Slot :
          /\ IF l.k = 0
               THEN /\ NextWritten(s)
                    /\ \E n \in SpansAt(l.victim, s) : l' = [l EXCEPT !.from = s, !.span = n]
               ELSE s = l.from /\ UNCHANGED l
          /\ ProgramCell(t, e, cell[v][s + l.k])
          /\ pc = "copy" /\ pc' = "copymark" /\ UNCHANGED <<hdr, bits>>
    BY DEF CopyCell, Goto
  <1>2. CopyingCell /\ CopyingCell' /\ l'.target = t /\ l'.victim = v /\ l'.to = l.to /\ l'.k = l.k
        /\ l'.from = s
    BY <1>1 DEF CopyingCell, CallState, Locals
  <1>3. /\ t \in DataPages /\ t \in Page /\ v \in DataPages /\ v \in Page /\ v # t
        /\ l.to \in Nat /\ l.from \in Nat /\ l.k \in Nat /\ l.span \in Nat /\ Slots \in Nat /\ s \in Nat
    BY <1>2, CopyPages DEF Slot
  <1>4. /\ WrittenHeader(v, s) /\ l'.span = SpanOf(cell[v][s]) /\ l.to <= s
        /\ \A h \in Slot : WrittenHeader(v, h) /\ h < s => h + SpanOf(cell[v][h]) <= s
        /\ l.k < l'.span /\ s + l'.span <= Slots
    <2>1. CASE l.k = 0
      <3>1. PICK n \in SpansAt(v, s) : l' = [l EXCEPT !.from = s, !.span = n]
        BY <1>1, <2>1
      <3>2. l'.span = n
        BY <3>1 DEF CallState, Locals
      <3>3. NextWritten(s)
        BY <1>1, <2>1
      <3>4. /\ WrittenHeader(v, s) /\ n = SpanOf(cell[v][s]) /\ s >= l.from /\ s + n <= Slots
            /\ \A h \in Slot : WrittenHeader(v, h) /\ h < s => h + SpanOf(cell[v][h]) <= s
        BY <1>1, <3>1, <3>3, EntryPicked
      <3>5. l.to <= l.from
        BY <1>2 DEF CopyInHand
      <3>6. n \in Nat /\ n >= 1
        BY <1>3, <3>4, SpanNat DEF WrittenHeader
      <3> QED BY <1>3, <2>1, <3>2, <3>4, <3>5, <3>6
    <2>2. CASE l.k # 0
      <3>1. s = l.from /\ l' = l /\ l.k > 0
        BY <1>1, <1>3, <2>2
      <3>2. /\ l.k < l.span /\ l.from + l.span <= Slots
            /\ WrittenHeader(l.victim, l.from) /\ SpanOf(cell[l.victim][l.from]) = l.span
            /\ l.to <= l.from
        BY <1>1, <3>1, EntryCopied
      <3> QED BY <1>2, <3>1, <3>2 DEF CopyInHand
    <2> QED BY <2>1, <2>2
  <1>5. e \in Slot /\ e \in Nat /\ bits[t][e] = "empty"
    <2>1. l'.span \in Nat
      BY <1>3, <1>4, SpanNat DEF WrittenHeader
    <2>2. e \in Slot
      BY <1>3, <1>4, <2>1 DEF Slot
    <2> QED BY <1>2, <1>3, <2>2 DEF CopyInHand
  <1>6. cell[t][e] = Blank
    BY <1>1, <1>3, <1>5 DEF EmptyBlank, InHand
  <1>7. /\ \A q \in Page : \A a \in Slot : ~(q = t /\ a = e) => cell'[q][a] = cell[q][a]
        /\ cell'[t][e] = cell[v][s + l.k]
    BY <1>1, <1>3, <1>5, <1>6, ProgramEffect
  <1>8. FlashInv'
    <2>1. pc # "erasespan" /\ ~Writing
      BY <1>1 DEF Writing
    <2> QED BY <1>1, <1>2, <1>3, <1>5, <2>1, FlashByProgram
  <1>9. \A a \in Slot : cell'[v][a] = cell[v][a] /\ (WrittenHeader(v, a) <=> bits'[v][a] = "written" /\ IsHeader(cell'[v][a]))
    BY <1>1, <1>3, <1>7 DEF WrittenHeader
  <1>10. CopyInHand'
    <2>1. l'.to <= l'.from
      BY <1>2, <1>4
    <2>2. \A a \in Slot : bits'[t][a] = IF a < l'.to + l'.k THEN "written" ELSE "empty"
      BY <1>1, <1>2 DEF CopyInHand
    <2>3. bits'[v][s] = "written" /\ IsHeader(cell'[v][s]) /\ l'.span = SpanOf(cell'[v][s])
      BY <1>4, <1>9
    <2>4. \A i \in 0 .. l'.k - 1 : cell'[t][l'.to + i] = cell'[v][l'.from + i]
      <3> SUFFICES ASSUME NEW i \in 0 .. l.k - 1 PROVE cell'[t][l.to + i] = cell'[v][s + i]
        BY <1>2
      <3>1. l.k > 0 /\ l.k # 0 /\ i \in Nat /\ i < l.k
        BY <1>3
      <3>2. s = l.from /\ l' = l
        BY <1>1, <3>1
      <3>3. cell[t][l.to + i] = cell[v][l.from + i]
        BY <1>2, <3>1 DEF CopyInHand
      <3>4. l.to + i \in Slot /\ l.to + i # e /\ s + i \in Slot
        <4>1. l.span \in Nat
          BY <1>3
        <4> QED BY <1>3, <1>4, <3>1, <3>2, <4>1 DEF Slot
      <3> QED BY <1>3, <1>7, <3>2, <3>3, <3>4
    <2>5. cell'[t][l'.to + l'.k] = cell'[v][l'.from + l'.k]
      <3>1. s + l.k \in Slot
        <4>1. l'.span \in Nat
          BY <1>3, <1>4, SpanNat DEF WrittenHeader
        <4> QED BY <1>3, <1>4, <4>1 DEF Slot
      <3> QED BY <1>2, <1>3, <1>7, <3>1
    <2>6. \A h \in Slot : bits'[v][h] = "written" /\ IsHeader(cell'[v][h]) /\ h < l'.from =>
            h + SpanOf(cell'[v][h]) <= l'.from
      BY <1>2, <1>4, <1>9
    <2> HIDE DEF e
    <2> QED BY <1>1, <1>2, <2>1, <2>2, <2>3, <2>4, <2>5, <2>6 DEF CopyInHand, WrittenHeader
  <1> QED BY <1>8, <1>10

\* Marking it: the entry copied stands in the target as it does in the victim.
LEMMA CopyMarkFacts ==
  ASSUME FlashTypeOK, CallState, Pages, FlashInv, CopyInHand, CopyMark
  PROVE  /\ \A q \in Page : \A a \in Slot : ~(q = l.target /\ a = l.to + l.k) => bits'[q][a] = bits[q][a]
         /\ bits'[l.target][l.to + l.k] = "written" /\ bits[l.target][l.to + l.k] = "empty"
         /\ UNCHANGED <<hdr, cell>> /\ Mark(l.target, l.to + l.k, "written")
         /\ pc = "copymark" /\ pc' = "copy" /\ l'.target = l.target /\ l'.victim = l.victim
         /\ l.k + 1 < l.span => l'.k = l.k + 1 /\ l'.from = l.from /\ l'.to = l.to /\ l'.span = l.span
         /\ ~(l.k + 1 < l.span) => l'.k = 0 /\ l'.from = l.from + l.span /\ l'.to = l.to + l.span
         /\ \A i \in 0 .. l.k : cell[l.target][l.to + i] = cell[l.victim][l.from + i]
         /\ bits'[l.target][l.to] = "written" /\ IsHeader(cell[l.target][l.to])
         /\ SpanOf(cell[l.target][l.to]) = l.span
         /\ \A a \in Slot : bits'[l.target][a] = IF a < l.to + l.k + 1 THEN "written" ELSE "empty"
  <1> DEFINE t == l.target
             e == l.to + l.k
  <1>1. /\ pc = "copymark" /\ pc' = "copy" /\ UNCHANGED <<hdr, cell>> /\ Mark(t, e, "written")
        /\ l' = IF l.k + 1 < l.span
                  THEN [l EXCEPT !.k = l.k + 1]
                  ELSE [l EXCEPT !.k = 0, !.from = l.from + l.span, !.to = l.to + l.span]
    BY DEF CopyMark, Goto
  <1>2. CopyingCell
    BY <1>1 DEF CopyingCell
  <1>3. /\ t \in Page /\ l.to \in Nat /\ l.from \in Nat /\ l.k \in Nat /\ l.span \in Nat
    BY <1>2, CopyPages
  <1>4. /\ e \in Slot /\ e \in Nat /\ l.to \in Slot /\ bits[t][e] = "empty" /\ l.from \in Slot
        /\ WrittenHeader(l.victim, l.from) /\ SpanOf(cell[l.victim][l.from]) = l.span
    BY <1>1, <1>3, EntryCopied
  <1>5. /\ \A q \in Page : \A a \in Slot : ~(q = t /\ a = e) => bits'[q][a] = bits[q][a]
        /\ bits'[t][e] = "written"
    BY <1>1, <1>3, <1>4, MarkEffect
  <1>6. /\ l'.target = l.target /\ l'.victim = l.victim
        /\ l.k + 1 < l.span => l'.k = l.k + 1 /\ l'.from = l.from /\ l'.to = l.to /\ l'.span = l.span
        /\ ~(l.k + 1 < l.span) => l'.k = 0 /\ l'.from = l.from + l.span /\ l'.to = l.to + l.span
    <2>1. CASE l.k + 1 < l.span
      BY <1>1, <2>1 DEF CallState, Locals
    <2>2. CASE ~(l.k + 1 < l.span)
      BY <1>1, <2>2 DEF CallState, Locals
    <2> QED BY <2>1, <2>2
  <1>7. \A i \in 0 .. l.k : cell[t][l.to + i] = cell[l.victim][l.from + i]
    <2> SUFFICES ASSUME NEW i \in 0 .. l.k PROVE cell[t][l.to + i] = cell[l.victim][l.from + i]
      OBVIOUS
    <2>1. CASE i = l.k
      BY <1>1, <1>2, <2>1 DEF CopyInHand
    <2>2. CASE i # l.k
      <3>1. i \in 0 .. l.k - 1
        BY <1>3, <2>2
      <3> QED BY <1>1, <1>2, <3>1 DEF CopyInHand
    <2> QED BY <2>1, <2>2
  <1>8. \A a \in Slot : bits[t][a] = IF a < e THEN "written" ELSE "empty"
    BY <1>2 DEF CopyInHand
  <1>9. \A a \in Slot : bits'[t][a] = IF a < e + 1 THEN "written" ELSE "empty"
    <2> SUFFICES ASSUME NEW a \in Slot PROVE bits'[t][a] = IF a < e + 1 THEN "written" ELSE "empty"
      OBVIOUS
    <2>1. CASE a = e
      BY <1>4, <1>5, <2>1
    <2>2. CASE a # e
      <3>1. a \in Nat /\ bits'[t][a] = bits[t][a]
        BY <1>3, <1>5, <2>2 DEF Slot
      <3> QED BY <1>4, <1>8, <2>2, <3>1
    <2> QED BY <2>1, <2>2
  <1>10. bits'[t][l.to] = "written"
    BY <1>3, <1>4, <1>9
  <1>11. cell[t][l.to] = cell[l.victim][l.from]
    <2>1. 0 \in 0 .. l.k /\ l.to + 0 = l.to /\ l.from + 0 = l.from
      BY <1>3
    <2>2. cell[t][l.to + 0] = cell[l.victim][l.from + 0]
      BY <1>7, <2>1
    <2> QED BY <2>1, <2>2
  <1> QED BY <1>1, <1>4, <1>5, <1>6, <1>7, <1>9, <1>10, <1>11 DEF WrittenHeader

\* A copied slot is marked: its entry becomes whole with its last slot.
LEMMA FlashByCopyMark ==
  ASSUME FlashTypeOK, CallState, Pages, FlashInv, CopyInHand, CopyMark
  PROVE  FlashInv'
  <1> DEFINE t == l.target
             v == l.victim
             e == l.to + l.k
  <1>1. pc = "copymark" /\ CopyingCell /\ CopyingCell'
    BY CopyMarkFacts DEF CopyingCell
  <1>2. /\ t \in DataPages /\ t \in Page /\ v \in DataPages /\ v \in Page /\ v # t
        /\ l.to \in Nat /\ l.from \in Nat /\ l.k \in Nat /\ l.span \in Nat /\ Slots \in Nat
    BY <1>1, CopyPages
  <1>3. /\ l.from \in Slot /\ l.k < l.span /\ l.from + l.span <= Slots
        /\ WrittenHeader(v, l.from) /\ SpanOf(cell[v][l.from]) = l.span
        /\ \A i \in 1 .. l.span - 1 : l.from + i \in Slot /\ bits[v][l.from + i] # "empty"
                                      /\ ~IsHeader(cell[v][l.from + i])
        /\ l.to <= l.from /\ l.to \in Slot /\ e \in Slot /\ bits[t][e] = "empty"
    BY <1>1, EntryCopied
  <1>4. /\ \A q \in Page : \A a \in Slot : ~(q = t /\ a = e) => bits'[q][a] = bits[q][a]
        /\ bits'[t][e] = "written" /\ UNCHANGED <<hdr, cell>> /\ Mark(t, e, "written")
        /\ \A i \in 0 .. l.k : cell[t][l.to + i] = cell[v][l.from + i]
        /\ bits'[t][l.to] = "written" /\ IsHeader(cell[t][l.to]) /\ SpanOf(cell[t][l.to]) = l.span
        /\ \A a \in Slot : bits'[t][a] = IF a < e + 1 THEN "written" ELSE "empty"
    BY CopyMarkFacts
  <1>5. DataPages' = DataPages /\ FreePages' = FreePages /\ (\A q \in DataPages : q \in Page) /\ t \notin FreePages
        /\ ~Writing /\ \A q, a : ~Loose(q, a)
    BY <1>1, <1>2, <1>4 DEF DataPages, FreePages, Writing, Loose
  <1>6. l.k # 0 => ~IsHeader(cell[t][e])
    <2> SUFFICES ASSUME l.k # 0 PROVE ~IsHeader(cell[t][e])
      OBVIOUS
    <2>1. l.k \in 1 .. l.span - 1 /\ l.k \in 0 .. l.k
      BY <1>2, <1>3
    <2>2. cell[t][e] = cell[v][l.from + l.k]
      BY <1>4, <2>1
    <2> QED BY <1>3, <2>1, <2>2
  <1>7. l.k = 0 => e = l.to
    BY <1>2
  <1> HIDE DEF e
  <1>8. Appended'
    <2> SUFFICES ASSUME NEW q \in DataPages, NEW a \in Slot, NEW b \in Slot,
                        a < b, bits'[q][a] = "empty", bits'[q][b] # "empty"
                 PROVE  FALSE
      BY <1>5 DEF Appended
    <2>1. CASE q = t
      <3>1. a \in Nat /\ b \in Nat /\ e \in Nat /\ ~(a < e + 1) /\ b < e + 1
        BY <1>2, <1>3, <1>4, <2>1 DEF Slot
      <3> QED BY <3>1
    <2>2. CASE q # t
      <3>1. bits[q][a] = "empty" /\ bits[q][b] # "empty"
        BY <1>4, <1>5, <2>2
      <3> QED BY <1>5, <3>1 DEF FlashInv, Appended
    <2> QED BY <2>1, <2>2
  <1>9. \A q \in DataPages : \A a \in Slot :
          bits'[q][a] = "written" /\ IsHeader(cell[q][a]) /\ ~(q = t /\ a = l.to) => WrittenHeader(q, a)
    BY <1>4, <1>5, <1>6, <1>7 DEF WrittenHeader
  <1>10. AllWhole'
    <2> SUFFICES ASSUME NEW q \in DataPages, NEW a \in Slot, bits'[q][a] = "written", IsHeader(cell[q][a]),
                        ~(q = l'.target /\ a = l'.to)
                 PROVE  Whole(q, a)'
      BY <1>1, <1>4, <1>5 DEF AllWhole, WrittenHeader
    <2>1. CASE q = t /\ a = l.to
      <3>1. ~(l.k + 1 < l.span)
        BY <2>1, CopyMarkFacts
      <3>2. l.k + 1 = l.span
        BY <1>2, <1>3, <3>1
      <3>3. \A i \in 1 .. l.span - 1 : bits'[t][l.to + i] # "empty" /\ ~IsHeader(cell[t][l.to + i])
        <4> SUFFICES ASSUME NEW i \in 1 .. l.span - 1
                     PROVE  bits'[t][l.to + i] # "empty" /\ ~IsHeader(cell[t][l.to + i])
          OBVIOUS
        <4>1. i \in 0 .. l.k /\ l.to + i \in Slot /\ l.to + i < e + 1
          BY <1>2, <1>3, <3>2 DEF e, Slot
        <4> QED BY <1>3, <1>4, <4>1
      <3>4. l.to + l.span <= Slots
        BY <1>2, <1>3
      <3> QED BY <1>4, <2>1, <3>3, <3>4 DEF Whole
    <2>2. CASE ~(q = t /\ a = l.to)
      <3>1. WrittenHeader(q, a)
        BY <1>9, <2>2
      <3>2. Whole(q, a)
        BY <2>2, <3>1 DEF FlashInv, AllWhole
      <3> QED BY <1>2, <1>4, <1>5, <3>1, <3>2, WrittenHeadersStay
    <2> QED BY <2>1, <2>2
  <1>11. AllOwned'
    <2> SUFFICES ASSUME NEW q \in DataPages, NEW a \in Slot, bits'[q][a] = "written" PROVE Owned(q, a)'
      BY <1>5 DEF AllOwned
    <2>1. CASE q = t /\ a = e
      <3>1. bits'[q][l.to] = "written" /\ IsHeader(cell'[q][l.to]) /\ SpanOf(cell'[q][l.to]) = l.span
        BY <1>4, <2>1
      <3>2. l.to <= a /\ a < l.to + l.span
        BY <1>2, <1>3, <2>1 DEF e
      <3> QED BY <1>3, <3>1, <3>2 DEF Owned, WrittenHeader
    <2>2. CASE ~(q = t /\ a = e)
      <3>1. Owned(q, a)
        BY <1>4, <1>5, <2>2 DEF FlashInv, AllOwned
      <3> QED BY <1>2, <1>4, <1>5, <3>1, OwnersStay
    <2> QED BY <2>1, <2>2
  <1>12. FreeEmpty'
    BY <1>4, <1>5 DEF FlashInv, FreeEmpty, FreePages
  <1>13. NamespacesApart'
    <2>1. \A q \in DataPages : \A a \in Slot : bits'[q][a] = "written" /\ cell[q][a].kind = "ns" =>
            \E r \in DataPages : \E b \in Slot : bits[r][b] = "written" /\ cell[r][b] = cell[q][a]
      <3> SUFFICES ASSUME NEW q \in DataPages, NEW a \in Slot, bits'[q][a] = "written", cell[q][a].kind = "ns"
                   PROVE  \E r \in DataPages : \E b \in Slot : bits[r][b] = "written" /\ cell[r][b] = cell[q][a]
        OBVIOUS
      <3>1. CASE q = t /\ a = e
        <4>1. l.k = 0 /\ e = l.to
          BY <1>6, <1>7, <3>1 DEF IsHeader
        <4>2. 0 \in 0 .. l.k /\ l.to + 0 = l.to /\ l.from + 0 = l.from
          BY <1>2
        <4>3. cell[t][l.to + 0] = cell[v][l.from + 0]
          BY <1>4, <4>2
        <4> QED BY <1>2, <1>3, <3>1, <4>1, <4>2, <4>3 DEF WrittenHeader
      <3>2. CASE ~(q = t /\ a = e)
        <4>1. bits[q][a] = "written"
          BY <1>4, <1>5, <3>2
        <4> QED BY <4>1
      <3> QED BY <3>1, <3>2
    <2> SUFFICES ASSUME NEW p \in DataPages, NEW q \in DataPages, NEW a \in Slot, NEW b \in Slot,
                        bits'[p][a] = "written", bits'[q][b] = "written",
                        cell[p][a].kind = "ns", cell[q][b].kind = "ns", cell[p][a].index = cell[q][b].index
                 PROVE  cell[p][a].name = cell[q][b].name
      BY <1>4, <1>5 DEF NamespacesApart
    <2>2. PICK r \in DataPages, c \in Slot : bits[r][c] = "written" /\ cell[r][c] = cell[p][a]
      BY <2>1
    <2>3. PICK u \in DataPages, d \in Slot : bits[u][d] = "written" /\ cell[u][d] = cell[q][b]
      BY <2>1
    <2> QED BY <2>2, <2>3 DEF FlashInv, NamespacesApart
  <1> QED BY <1>8, <1>10, <1>11, <1>12, <1>13 DEF FlashInv

\* The copy goes on after it where it left off.
LEMMA CopyMarkInHand ==
  ASSUME FlashTypeOK, CallState, Pages, FlashInv, CopyInHand, CopyMark
  PROVE  CopyInHand'
  <1> DEFINE t == l.target
             v == l.victim
  <1>1. pc = "copymark" /\ pc' = "copy" /\ CopyingCell /\ l'.target = t /\ l'.victim = v
    BY CopyMarkFacts DEF CopyingCell
  <1>2. /\ t \in Page /\ v \in Page /\ v # t
        /\ l.to \in Nat /\ l.from \in Nat /\ l.k \in Nat /\ l.span \in Nat /\ Slots \in Nat
    BY <1>1, CopyPages
  <1>3. /\ l.from \in Slot /\ l.k < l.span
        /\ WrittenHeader(v, l.from) /\ SpanOf(cell[v][l.from]) = l.span
        /\ \A i \in 1 .. l.span - 1 : l.from + i \in Slot /\ ~IsHeader(cell[v][l.from + i])
        /\ l.to <= l.from
    BY <1>1, EntryCopied
  <1>4. /\ \A a \in Slot : bits'[v][a] = bits[v][a]
        /\ UNCHANGED cell
        /\ \A i \in 0 .. l.k : cell[t][l.to + i] = cell[v][l.from + i]
        /\ \A a \in Slot : bits'[t][a] = IF a < l.to + l.k + 1 THEN "written" ELSE "empty"
    BY <1>2, CopyMarkFacts
  <1>5. \A h \in Slot : WrittenHeader(v, h) /\ h < l.from => h + SpanOf(cell[v][h]) <= l.from
    BY <1>1 DEF CopyInHand
  <1>6. CASE l.k + 1 < l.span
    <2>1. l'.k = l.k + 1 /\ l'.from = l.from /\ l'.to = l.to /\ l'.span = l.span
      BY <1>6, CopyMarkFacts
    <2>2. l'.to + l'.k = l.to + l.k + 1 /\ l'.k - 1 = l.k
      BY <1>2, <2>1
    <2>3. bits'[v][l'.from] = "written" /\ IsHeader(cell'[v][l'.from]) /\ l'.span = SpanOf(cell'[v][l'.from])
      BY <1>3, <1>4, <2>1 DEF WrittenHeader
    <2>4. \A i \in 0 .. l'.k - 1 : cell'[t][l'.to + i] = cell'[v][l'.from + i]
      BY <1>4, <2>1, <2>2
    <2>5. \A h \in Slot : bits'[v][h] = "written" /\ IsHeader(cell'[v][h]) /\ h < l'.from =>
            h + SpanOf(cell'[v][h]) <= l'.from
      BY <1>4, <1>5, <2>1 DEF WrittenHeader
    <2> QED BY <1>1, <1>3, <1>4, <2>1, <2>2, <2>3, <2>4, <2>5 DEF CopyInHand, WrittenHeader
  <1>7. CASE ~(l.k + 1 < l.span)
    <2>1. l'.k = 0 /\ l'.from = l.from + l.span /\ l'.to = l.to + l.span /\ l.k + 1 = l.span
      BY <1>2, <1>3, <1>7, CopyMarkFacts
    <2>2. l'.to + l'.k = l.to + l.k + 1 /\ l'.to <= l'.from
      BY <1>2, <1>3, <2>1
    <2>3. \A h \in Slot : WrittenHeader(v, h) /\ h < l.from + l.span => h + SpanOf(cell[v][h]) <= l.from + l.span
      <3> SUFFICES ASSUME NEW h \in Slot, WrittenHeader(v, h), h < l.from + l.span
                   PROVE  h + SpanOf(cell[v][h]) <= l.from + l.span
        OBVIOUS
      <3>1. h \in Nat /\ SpanOf(cell[v][h]) \in Nat
        BY <1>2, SpanNat DEF Slot, WrittenHeader
      <3>2. CASE h < l.from
        <4>1. h + SpanOf(cell[v][h]) <= l.from
          BY <1>5, <3>2
        <4> QED BY <1>2, <3>1, <4>1
      <3>3. CASE h = l.from
        BY <1>2, <1>3, <3>3
      <3>4. CASE h > l.from
        <4>1. h - l.from \in 1 .. l.span - 1 /\ l.from + (h - l.from) = h
          BY <1>2, <3>1, <3>4
        <4> QED BY <1>3, <4>1 DEF WrittenHeader
      <3> QED BY <1>2, <3>1, <3>2, <3>3, <3>4
    <2>4. \A h \in Slot : bits'[v][h] = "written" /\ IsHeader(cell'[v][h]) /\ h < l'.from =>
            h + SpanOf(cell'[v][h]) <= l'.from
      BY <1>4, <2>1, <2>3 DEF WrittenHeader
    <2> QED BY <1>1, <1>4, <2>1, <2>2, <2>4 DEF CopyInHand, WrittenHeader
  <1> QED BY <1>6, <1>7

----------------------------------------------------------------------------
(***************************************************************************)
(* Erasing a record.                                                       *)
(***************************************************************************)
\* A slot of a record is marked erased: the header first, then its data, which is no one's.
LEMMA EraseMarkTidy ==
  ASSUME FlashTypeOK, l \in Locals, FlashInv, SpanInHand, EraseMark
  PROVE  FlashInv' /\ SpanInHand'
  <1> DEFINE p == l.at[1]
             s == l.at[2]
             e == l.at[2] + l.k
  <1>1. /\ pc = "erasespan" /\ UNCHANGED <<hdr, cell>> /\ Mark(p, e, "erased")
        /\ l'.at = l.at /\ l'.k = l.k + 1 /\ l'.span = l.span
        /\ pc' = IF l.k + 1 < l.span THEN "erasespan" ELSE "sweep"
    BY DEF EraseMark, Goto, Locals
  <1>2. /\ l.at \in Place /\ p \in DataPages /\ p \in Page /\ s \in Slot /\ s \in Nat /\ Slots \in Nat
        /\ l.k \in Nat /\ l.span \in Nat /\ l.span >= 1 /\ l.k < l.span /\ s + l.span <= Slots
        /\ \A i \in 0 .. l.span - 1 : bits[p][s + i] # "empty"
        /\ \A i \in 1 .. l.span - 1 : ~IsHeader(cell[p][s + i])
        /\ l.k = 0 => WrittenHeader(p, s) /\ l.span = SpanOf(cell[p][s])
    <2>1. /\ l.at \in Place /\ p \in DataPages /\ l.span >= 1 /\ l.k < l.span /\ s + l.span <= Slots
          /\ \A i \in 0 .. l.span - 1 : bits[p][s + i] # "empty"
          /\ \A i \in 1 .. l.span - 1 : ~IsHeader(cell[p][s + i])
          /\ l.k = 0 => WrittenHeader(p, s) /\ l.span = SpanOf(cell[p][s])
      BY <1>1 DEF SpanInHand
    <2>2. p \in Page /\ s \in Slot
      BY <2>1 DEF Place
    <2>3. s \in Nat /\ Slots \in Nat /\ l.k \in Nat /\ l.span \in Nat
      BY <2>2, SlotsAreNat DEF SlotNat, Locals
    <2> QED BY <2>1, <2>2, <2>3
  <1>3. e \in Slot /\ e \in Nat /\ bits[p][e] # "empty"
    BY <1>2 DEF Slot
  <1>4. /\ \A q \in Page : \A t \in Slot : ~(q = p /\ t = e) => bits'[q][t] = bits[q][t]
        /\ bits'[p][e] = "erased"
    BY <1>1, <1>2, <1>3, MarkEffect
  <1>5. DataPages' = DataPages /\ FreePages' = FreePages /\ (\A q \in DataPages : q \in Page) /\ p \notin FreePages
        /\ ~Writing /\ ~CopyingCell
    BY <1>1, <1>2 DEF DataPages, FreePages, Writing, CopyingCell
  <1>6. UsedKept
    BY <1>1, <1>2, MarkKeepsUsed
  <1>7. \A q \in DataPages : \A t \in Slot : bits'[q][t] = "written" => bits[q][t] = "written" /\ ~(q = p /\ t = e)
    BY <1>4, <1>5
  <1>8. Appended'
    <2>1. \A q \in DataPages : \A t \in Slot : (bits'[q][t] = "empty") <=> (bits[q][t] = "empty")
      BY <1>3, <1>4, <1>5
    <2> QED BY <1>5, <2>1 DEF FlashInv, Appended
  <1>9. AllWhole'
    <2> SUFFICES ASSUME NEW q \in DataPages, NEW t \in Slot, bits'[q][t] = "written", IsHeader(cell[q][t])
                 PROVE  Whole(q, t)'
      BY <1>1, <1>5 DEF AllWhole, WrittenHeader
    <2>1. WrittenHeader(q, t)
      BY <1>7 DEF WrittenHeader
    <2>2. Whole(q, t)
      BY <1>5, <2>1 DEF FlashInv, AllWhole
    <2> QED BY <1>5, <1>6, <2>1, <2>2, WholeStays
  <1>10. AllOwned'
    <2> SUFFICES ASSUME NEW q \in DataPages, NEW t \in Slot, bits'[q][t] = "written", ~Loose(q, t)'
                 PROVE  Owned(q, t)'
      BY <1>5 DEF AllOwned
    <2>0. bits[q][t] = "written" /\ ~(q = p /\ t = e) /\ t \in Nat
      BY <1>7 DEF Slot
    <2>1. ~(q = p /\ t \in e + 1 .. s + l.span - 1)
      <3> SUFFICES ASSUME q = p, t \in e + 1 .. s + l.span - 1 PROVE FALSE
        OBVIOUS
      <3>1. l.k + 1 < l.span /\ l.k + 1 > 0 /\ s + (l.k + 1) = e + 1
        BY <1>2
      <3>2. pc' = "erasespan" /\ t \in l'.at[2] + l'.k .. l'.at[2] + l'.span - 1 /\ l'.k > 0 /\ q = l'.at[1]
        BY <1>1, <3>1
      <3> QED BY <3>2 DEF Loose
    <2>2. ~Loose(q, t)
      <3> SUFFICES ASSUME q = p, l.k > 0, t \in e .. s + l.span - 1 PROVE FALSE
        BY <1>5 DEF Loose
      <3> QED BY <1>2, <1>3, <2>0, <2>1
    <2>3. PICK h \in Slot : WrittenHeader(q, h) /\ h <= t /\ t < h + SpanOf(cell[q][h])
      BY <2>0, <2>2 DEF FlashInv, AllOwned, Owned
    <2>4. ~(q = p /\ h = e)
      <3> SUFFICES ASSUME q = p, h = e PROVE FALSE
        OBVIOUS
      <3>1. CASE l.k = 0
        <4>1. h = s /\ SpanOf(cell[q][h]) = l.span
          BY <1>2, <3>1
        <4>2. t \in e + 1 .. s + l.span - 1
          BY <1>2, <1>3, <2>0, <2>3, <3>1, <4>1
        <4> QED BY <2>1, <4>2
      <3>2. CASE l.k # 0
        <4>1. l.k \in 1 .. l.span - 1
          BY <1>2, <3>2
        <4> QED BY <1>2, <2>3, <4>1 DEF WrittenHeader
      <3> QED BY <3>1, <3>2
    <2>5. cell'[q][h] = cell[q][h] /\ bits'[q][h] = "written"
      BY <1>1, <1>4, <1>5, <2>3, <2>4 DEF WrittenHeader
    <2> QED BY <2>3, <2>5, OwnedStays
  <1>11. FreeEmpty'
    BY <1>1, <1>4, <1>5 DEF FlashInv, FreeEmpty, FreePages
  <1>12. NamespacesApart'
    BY <1>1, <1>5, <1>7 DEF FlashInv, NamespacesApart
  <1>13. SpanInHand'
    <2> SUFFICES ASSUME l.k + 1 < l.span
                 PROVE  /\ \A i \in 0 .. l.span - 1 : bits'[p][s + i] # "empty"
      BY <1>1, <1>2, <1>5 DEF SpanInHand
    <2>1. \A i \in 0 .. l.span - 1 : s + i \in Slot
      BY <1>2 DEF Slot
    <2> QED BY <1>2, <1>6, <2>1 DEF UsedKept
  <1> QED BY <1>8, <1>9, <1>10, <1>11, <1>12, <1>13 DEF FlashInv

----------------------------------------------------------------------------
(***************************************************************************)
(* What the call has in hand.                                              *)
(***************************************************************************)
\* A call about to end, or that has not begun, has nothing in hand that matters.
LEMMA EndsHand ==
  ASSUME pc' \in {"idle", "begin", "sweep"}
  PROVE  HandInv'
  BY DEF HandInv, EntryInHand, Writing, MoreToCome, MorePoints, SpanInHand, OldInPlace, PutPoints, WritePoints,
     CompactPoints, CopyInHand, CopyingCell, IndexFresh, IndexPoints

\* Nor has one that erases, but for the record it erases.
LEMMA ErasesHand ==
  ASSUME pc' = "erasespan", SpanInHand'
  PROVE  HandInv'
  BY DEF HandInv, EntryInHand, Writing, MoreToCome, MorePoints, OldInPlace, PutPoints, WritePoints,
     CompactPoints, CopyInHand, CopyingCell, IndexFresh, IndexPoints

\* what a call is about
SameErrand ==
  /\ op' = op /\ l'.want = l.want /\ l'.offset = l.offset /\ l'.ns = l.ns
  /\ l'.old = l.old /\ l'.oldCell = l.oldCell

HeadersKept ==
  \A q \in DataPages : \A t \in Slot :
    WrittenHeader(q, t) => q \in DataPages' /\ bits'[q][t] = "written" /\ cell'[q][t] = cell[q][t]

NsKept ==
  \A q \in DataPages' : \A t \in Slot :
    bits'[q][t] = "written" /\ cell'[q][t].kind = "ns" =>
      \E r \in DataPages : \E u \in Slot : bits[r][u] = "written" /\ cell[r][u] = cell'[q][t]

\* A step that touches no slot keeps every entry.
LEMMA StillKept ==
  ASSUME UNCHANGED <<bits, cell>>, DataPages' = DataPages
  PROVE  HeadersKept /\ NsKept
  BY DEF HeadersKept, NsKept, WrittenHeader

\* The errand and the value to be replaced, while room is found for it.
LEMMA OldKept ==
  ASSUME OldInPlace, l'.old = l.old, l'.oldCell = l.oldCell, pc \in PutPoints \cup {"start", "scrub"} \cup CompactPoints,
         l.old.status = "found" => HeadersKept /\ pc' \notin CompactPoints \cup {"scrub"}
  PROVE  OldInPlace'
  <1> SUFFICES ASSUME pc' \in PutPoints \cup {"start", "scrub"} \cup CompactPoints, l'.old.status = "found"
               PROVE  /\ pc' \notin CompactPoints \cup {"scrub"}
                      /\ l'.old.place \in Place /\ l'.old.place[1] \in DataPages'
                      /\ bits'[l'.old.place[1]][l'.old.place[2]] = "written"
                      /\ IsHeader(cell'[l'.old.place[1]][l'.old.place[2]])
                      /\ cell'[l'.old.place[1]][l'.old.place[2]] = l'.oldCell
    BY DEF OldInPlace, WrittenHeader
  <1>1. l'.old = l.old /\ l'.oldCell = l.oldCell /\ l.old.status = "found"
    OBVIOUS
  <1> DEFINE x == l.old.place
  <1>2. /\ x \in Place /\ x[1] \in DataPages /\ WrittenHeader(x[1], x[2])
        /\ cell[x[1]][x[2]] = l.oldCell
    BY <1>1 DEF OldInPlace
  <1>3. x[2] \in Slot
    BY <1>2 DEF Place
  <1> HIDE DEF x
  <1>4. x[1] \in DataPages' /\ bits'[x[1]][x[2]] = "written" /\ cell'[x[1]][x[2]] = cell[x[1]][x[2]]
    BY <1>1, <1>2, <1>3 DEF HeadersKept
  <1>5. pc' \notin CompactPoints \cup {"scrub"}
    BY <1>1
  <1>6. l'.old.place = x
    BY <1>1 DEF x
  <1> QED BY <1>1, <1>2, <1>4, <1>5, <1>6 DEF WrittenHeader

\* The index stays free while no namespace entry is added.
LEMMA IndexKept ==
  ASSUME IndexFresh, SameErrand, pc \in IndexPoints \/ op.call # "put" \/ l.want # "ns", NsKept
  PROVE  IndexFresh'
  <1> SUFFICES ASSUME op.call = "put", l.want = "ns", NEW q \in DataPages', NEW t \in Slot,
                      bits'[q][t] = "written", cell'[q][t].kind = "ns"
               PROVE  cell'[q][t].index # l.ns
    BY DEF IndexFresh, SameErrand
  <1>1. PICK r \in DataPages, u \in Slot : bits[r][u] = "written" /\ cell[r][u] = cell'[q][t]
    BY DEF NsKept
  <1> QED BY <1>1 DEF IndexFresh

\* What is left to write stays, while the errand does.
LEMMA MoreKept ==
  ASSUME MoreToCome, SameErrand, pc \in MorePoints \/ op.call # "put" \/ l.want = "idx", pc' \notin {"old", "chunk"}
  PROVE  MoreToCome'
  BY DEF MoreToCome, SameErrand

\* A slot is found for the entry wanted.
LEMMA DeliverHand ==
  ASSUME FlashTypeOK, l \in Locals, op \in Calls, op.call = "put", pc \in {"room", "check"}, HandInv,
         NEW p \in ActivePages, Deliver(p)
  PROVE  HandInv'
  <1>1. PICK s \in Slot : /\ Room(p, s, WantedRoom)
                          /\ l' = [l EXCEPT !.at = <<p, s>>, !.k = 0]
                          /\ pc' = IF l.want = "chunk" THEN "data" ELSE "entry"
                          /\ UNCHANGED flash /\ op' = op
    BY DEF Deliver, Goto, Keep
  <1>2. l'.at = <<p, s>> /\ l'.k = 0 /\ SameErrand
    BY <1>1 DEF Locals, SameErrand
  <1>3. UNCHANGED <<hdr, bits, cell>> /\ DataPages' = DataPages
    BY <1>1 DEF flash, DataPages
  <1>4. MoreToCome' /\ OldInPlace' /\ IndexFresh'
    <2>1. HeadersKept /\ NsKept
      BY <1>3, StillKept
    <2>2. pc \in MorePoints /\ pc \in PutPoints /\ pc \in IndexPoints /\ pc' \notin {"old", "chunk", "scrub"} \cup CompactPoints
      BY <1>1 DEF MorePoints, PutPoints, IndexPoints, CompactPoints
    <2> QED BY <1>2, <2>1, <2>2, MoreKept, OldKept, IndexKept DEF HandInv, SameErrand
  <1>5. EntryInHand'
    <2>1. s \in Nat /\ s < Slots /\ Slots \in Nat /\ s + 0 = s
      BY SlotsAreNat DEF SlotNat
    <2>2. FirstEmpty(p, s) /\ Slots - s >= WantedRoom
      BY <1>1 DEF Room
    <2>3. l.want = "chunk" => 0 < ChunkSize'
      <3> SUFFICES ASSUME l.want = "chunk" PROVE 0 < ChunkSize'
        OBVIOUS
      <3>1. l.offset < Size[op.value]
        <4>1. pc \in MorePoints
          BY DEF MorePoints
        <4> QED BY <4>1 DEF HandInv, MoreToCome
      <3>2. l.offset \in Nat /\ Size[op.value] \in Nat
        BY FormatAssumption DEF Locals, Calls
      <3>3. Slots - s - 1 >= 1
        BY <2>1, <2>2 DEF WantedRoom
      <3>4. Remaining' = Size[op.value] - l.offset /\ TailRoom' = Slots - s - 1
        BY <1>1, <1>2 DEF Remaining, TailRoom, SameErrand
      <3> QED BY <2>1, <3>1, <3>2, <3>3, <3>4 DEF ChunkSize, Smaller
    <2>4. bits'[p][s] = "empty" /\ \A t \in 0 .. s - 1 : bits'[p][t] # "empty"
      BY <1>3, <2>2 DEF FirstEmpty
    <2>5. \A i \in 1 .. l'.k : FALSE
      BY <1>2
    <2>6. l'.want = l.want
      BY <1>2 DEF SameErrand
    <2>7. l'.at[1] = p /\ l'.at[2] = s
      BY <1>2
    <2> QED BY <1>1, <1>2, <2>1, <2>3, <2>4, <2>5, <2>6, <2>7 DEF EntryInHand, FirstEmpty
  <1>6. SpanInHand' /\ CopyInHand'
    BY <1>1 DEF SpanInHand, CopyInHand, CopyingCell
  <1> QED BY <1>4, <1>5, <1>6 DEF HandInv

----------------------------------------------------------------------------
(***************************************************************************)
(* Writing an entry.                                                       *)
(***************************************************************************)
\* Programming an empty slot leaves every entry where it is.
LEMMA ProgramKept ==
  ASSUME FlashTypeOK, UNCHANGED <<hdr, bits>>, NEW p \in Page, NEW s \in Slot, NEW c,
         ProgramCell(p, s, c), bits[p][s] = "empty"
  PROVE  HeadersKept /\ NsKept
  <1>1. \A q \in DataPages : \A t \in Slot : bits[q][t] # "empty" => cell'[q][t] = cell[q][t]
    BY ProgramEffect DEF DataPages
  <1>2. DataPages' = DataPages
    BY DEF DataPages
  <1> QED BY <1>1, <1>2 DEF HeadersKept, NsKept, WrittenHeader

\* Marking a slot written moves no entry.
LEMMA MarkKept ==
  ASSUME FlashTypeOK, NEW p \in Page, NEW s \in Slot, Mark(p, s, "written"), UNCHANGED <<hdr, cell>>
  PROVE  HeadersKept /\ (cell[p][s].kind # "ns" => NsKept)
  <1>1. DataPages' = DataPages /\ \A q \in DataPages : q \in Page
    BY DEF DataPages
  <1>2. HeadersKept
    BY <1>1, WrittenHeadersStay DEF HeadersKept, WrittenHeader
  <1>3. cell[p][s].kind # "ns" => NsKept
    <2>1. \A q \in Page : \A t \in Slot : ~(q = p /\ t = s) => bits'[q][t] = bits[q][t]
      BY MarkEffect
    <2> QED BY <1>1, <2>1 DEF NsKept
  <1> QED BY <1>2, <1>3

\* The steps that write an entry are a put's and go on with it.
LEMMA WriteErrand ==
  ASSUME CallState, pc \in {"data", "datamark", "entry", "entrymark"}
  PROVE  /\ op.call = "put" /\ pc \in PutPoints /\ pc \in MorePoints /\ Writing
         /\ op.value \in Values /\ Size[op.value] \in Nat /\ l.offset \in Nat /\ l.offset <= Size[op.value]
         /\ l.want \in {"ns", "chunk", "idx"}
  <1>1. /\ op.call = "put" /\ pc \in PutPoints /\ pc \in MorePoints /\ Writing
    BY DEF CallState, Routing, PutPoints, WritePoints, MorePoints, Writing
  <1> QED BY <1>1, FormatAssumption DEF CallState, Calls, Locals, Progress

\* A data slot is programmed.
LEMMA DataWriteTidy ==
  ASSUME FlashTypeOK, CallState, Pages, EmptyBlank, FlashInv, HandInv, DataWrite
  PROVE  FlashInv' /\ HandInv'
  <1> DEFINE p == l.at[1]
             e == l.at[2] + 1 + l.k
             c == Data(op.value, l.offset + l.k)
  <1>1. /\ pc = "data" /\ pc' = "datamark" /\ UNCHANGED <<hdr, bits, l, op>> /\ ProgramCell(p, e, c)
    BY DEF DataWrite, Goto, Keep
  <1>2. EntryInHand /\ Writing /\ Writing' /\ ~CopyingCell
    BY <1>1 DEF HandInv, Writing, CopyingCell
  <1>3. /\ p \in DataPages /\ p \in Page /\ l.at[2] \in Nat /\ l.k \in Nat /\ e \in Slot
        /\ bits[p][e] = "empty" /\ Slots \in Nat
    BY <1>1, <1>2, EntrySlots, NextDataSlot
  <1>4. FlashInv'
    BY <1>1, <1>2, <1>3, FlashByProgram
  <1>5. HeadersKept /\ NsKept /\ SameErrand
    BY <1>1, <1>3, ProgramKept DEF SameErrand
  <1>6. l.want = "chunk" /\ l.k < ChunkSize
    BY <1>1, <1>2 DEF EntryInHand
  <1>7. MoreToCome' /\ OldInPlace' /\ IndexFresh'
    <2>1. pc \in MorePoints /\ pc \in PutPoints /\ pc' \notin {"old", "chunk", "scrub"} \cup CompactPoints
      BY <1>1 DEF MorePoints, PutPoints, WritePoints, CompactPoints
    <2> QED BY <1>5, <1>6, <2>1, MoreKept, OldKept, IndexKept DEF HandInv, SameErrand
  <1>8. EntryInHand'
    <2>1. cell[p][e] = Blank
      BY <1>1, <1>3 DEF EmptyBlank, InHand
    <2>2. cell'[p][e] = c /\ \A t \in Slot : t # e => cell'[p][t] = cell[p][t]
      BY <1>1, <1>3, <2>1, ProgramEffect
    <2>3. ~IsHeader(cell'[p][e])
      BY <2>2 DEF IsHeader, Data
    <2>4. \A i \in 1 .. l.k : bits[p][l.at[2] + i] = "written" /\ ~IsHeader(cell'[p][l.at[2] + i])
      <3> SUFFICES ASSUME NEW i \in 1 .. l.k
                   PROVE  bits[p][l.at[2] + i] = "written" /\ ~IsHeader(cell'[p][l.at[2] + i])
        OBVIOUS
      <3>1. bits[p][l.at[2] + i] = "written" /\ ~IsHeader(cell[p][l.at[2] + i])
        BY <1>2 DEF EntryInHand
      <3>2. l.at[2] + i \in Slot /\ l.at[2] + i # e
        BY <1>3 DEF Slot
      <3> QED BY <2>2, <3>1, <3>2
    <2>5. FirstEmpty(p, l.at[2]) /\ l.at[2] + l.k < Slots
      BY <1>2 DEF EntryInHand
    <2>6. bits'[p][l.at[2]] = "empty" /\ \A t \in 0 .. l.at[2] - 1 : bits'[p][t] # "empty"
      BY <1>1, <2>5 DEF FirstEmpty
    <2>7. ChunkSize' = ChunkSize
      BY <1>1 DEF ChunkSize, Remaining, TailRoom
    <2> HIDE DEF c
    <2> QED BY <1>1, <1>6, <2>3, <2>4, <2>5, <2>6, <2>7 DEF EntryInHand, FirstEmpty
  <1>9. SpanInHand' /\ CopyInHand'
    BY <1>1 DEF SpanInHand, CopyInHand, CopyingCell
  <1> QED BY <1>4, <1>7, <1>8, <1>9 DEF HandInv

\* And marked.
LEMMA DataMarkTidy ==
  ASSUME FlashTypeOK, CallState, Pages, FlashInv, HandInv, DataMark
  PROVE  FlashInv' /\ HandInv'
  <1> DEFINE p == l.at[1]
             e == l.at[2] + 1 + l.k
  <1>1. /\ pc = "datamark" /\ pc' = (IF l.k + 1 < ChunkSize THEN "data" ELSE "entry")
        /\ UNCHANGED <<hdr, cell, op>> /\ Mark(p, e, "written")
        /\ l' = [l EXCEPT !.k = l.k + 1]
    BY DEF DataMark, Goto, Keep
  <1>2. l'.k = l.k + 1 /\ l'.at = l.at /\ SameErrand
    BY <1>1 DEF CallState, Locals, SameErrand
  <1>3. EntryInHand /\ Writing
    BY <1>1 DEF HandInv, Writing
  <1>4. /\ p \in DataPages /\ p \in Page /\ l.at[2] \in Nat /\ l.k \in Nat /\ e \in Slot
        /\ bits[p][e] = "empty" /\ Slots \in Nat
    BY <1>1, <1>3, EntrySlots, NextDataSlot
  <1>5. FlashInv'
    BY <1>3, FlashByDataMark
  <1>6. l.want = "chunk" /\ l.k < ChunkSize /\ ~IsHeader(cell[p][e])
    BY <1>1, <1>3 DEF EntryInHand
  <1>7. MoreToCome' /\ OldInPlace' /\ IndexFresh'
    <2>1. pc \in MorePoints /\ pc \in PutPoints /\ pc' \notin {"old", "chunk", "scrub"} \cup CompactPoints
      BY <1>1 DEF MorePoints, PutPoints, WritePoints, CompactPoints
    <2>2. HeadersKept /\ NsKept
      BY <1>1, <1>4, <1>6, MarkKept DEF IsHeader
    <2> QED BY <1>2, <1>6, <2>1, <2>2, MoreKept, OldKept, IndexKept DEF HandInv, SameErrand
  <1>8. EntryInHand'
    <2>1. \A t \in Slot : t # e => bits'[p][t] = bits[p][t]
      BY <1>1, <1>4, MarkEffect
    <2>2. bits'[p][e] = "written"
      BY <1>1, <1>4, MarkEffect
    <2>3. FirstEmpty(p, l.at[2])
      BY <1>3 DEF EntryInHand
    <2>4. bits'[p][l.at[2]] = "empty" /\ \A t \in 0 .. l.at[2] - 1 : bits'[p][t] # "empty"
      <3>1. l.at[2] \in Slot /\ l.at[2] # e /\ \A t \in 0 .. l.at[2] - 1 : t \in Slot /\ t # e
        BY <1>4 DEF Slot
      <3> QED BY <2>1, <2>3, <3>1 DEF FirstEmpty
    <2>5. \A i \in 1 .. l.k + 1 : bits'[p][l.at[2] + i] = "written" /\ ~IsHeader(cell[p][l.at[2] + i])
      <3> SUFFICES ASSUME NEW i \in 1 .. l.k + 1
                   PROVE  bits'[p][l.at[2] + i] = "written" /\ ~IsHeader(cell[p][l.at[2] + i])
        OBVIOUS
      <3>1. CASE i = l.k + 1
        <4>1. l.at[2] + i = e
          BY <1>4, <3>1
        <4> QED BY <1>6, <2>2, <4>1
      <3>2. CASE i # l.k + 1
        <4>1. i \in 1 .. l.k /\ l.at[2] + i \in Slot /\ l.at[2] + i # e
          BY <1>4, <3>2 DEF Slot
        <4>2. bits[p][l.at[2] + i] = "written" /\ ~IsHeader(cell[p][l.at[2] + i])
          BY <1>3, <4>1 DEF EntryInHand
        <4> QED BY <2>1, <4>1, <4>2
      <3> QED BY <3>1, <3>2
    <2>6. l.at[2] + (l.k + 1) < Slots
      BY <1>4 DEF Slot
    <2>7. ChunkSize' = ChunkSize
      BY <1>1, <1>2 DEF ChunkSize, Remaining, TailRoom, SameErrand
    <2>8. pc' = "data" => l.k + 1 < ChunkSize
      BY <1>1
    <2>9. pc' = "entry" => l.k + 1 = ChunkSize
      <3>1. ChunkSize \in Nat
        <4>1. TailRoom \in Int /\ Remaining \in Int
          BY <1>1, <1>4, WriteErrand DEF TailRoom, Remaining
        <4>2. ChunkSize \in Int
          BY <4>1 DEF ChunkSize, Smaller
        <4> QED BY <1>4, <1>6, <4>2
      <3> QED BY <1>1, <1>4, <1>6, <3>1
    <2>10. l'.want = "chunk"
      BY <1>2, <1>6 DEF SameErrand
    <2>11. pc' \in {"data", "entry"}
      BY <1>1
    <2> QED BY <1>1, <1>2, <2>4, <2>5, <2>6, <2>7, <2>8, <2>9, <2>10, <2>11 DEF EntryInHand, FirstEmpty
  <1>9. SpanInHand' /\ CopyInHand'
    BY <1>1 DEF SpanInHand, CopyInHand, CopyingCell
  <1> QED BY <1>5, <1>7, <1>8, <1>9 DEF HandInv

\* The header is programmed.
LEMMA EntryWriteTidy ==
  ASSUME FlashTypeOK, CallState, Pages, EmptyBlank, FlashInv, HandInv, EntryWrite
  PROVE  FlashInv' /\ HandInv'
  <1> DEFINE p == l.at[1]
             e == l.at[2]
  <1>1. /\ pc = "entry" /\ pc' = "entrymark" /\ UNCHANGED <<hdr, bits, l, op>> /\ ProgramCell(p, e, EntryCell)
    BY DEF EntryWrite, Goto, Keep
  <1>2. EntryInHand /\ Writing /\ Writing' /\ ~CopyingCell
    BY <1>1 DEF HandInv, Writing, CopyingCell
  <1>3. /\ p \in DataPages /\ p \in Page /\ e \in Nat /\ l.k \in Nat /\ e \in Slot
        /\ bits[p][e] = "empty" /\ Slots \in Nat
    BY <1>1, <1>2, EntrySlots
  <1>4. FlashInv'
    BY <1>1, <1>2, <1>3, FlashByProgram
  <1>5. HeadersKept /\ NsKept /\ SameErrand
    BY <1>1, <1>3, ProgramKept DEF SameErrand
  <1>6. MoreToCome' /\ OldInPlace' /\ IndexFresh'
    <2>1. pc \in MorePoints /\ pc \in PutPoints /\ pc \in IndexPoints
          /\ pc' \notin {"old", "chunk", "scrub"} \cup CompactPoints
      BY <1>1 DEF MorePoints, PutPoints, WritePoints, CompactPoints, IndexPoints
    <2> QED BY <1>5, <2>1, MoreKept, OldKept, IndexKept DEF HandInv, SameErrand
  <1>7. EntryInHand'
    <2>1. cell[p][e] = Blank
      BY <1>1, <1>3 DEF EmptyBlank, InHand
    <2>2. cell'[p][e] = EntryCell /\ \A t \in Slot : t # e => cell'[p][t] = cell[p][t]
      BY <1>1, <1>3, <2>1, ProgramEffect
    <2>3. EntryCell' = EntryCell /\ ChunkSize' = ChunkSize
      BY <1>1 DEF EntryCell, ChunkSize, Remaining, TailRoom
    <2>4. \A i \in 1 .. l.k : bits[p][e + i] = "written" /\ ~IsHeader(cell'[p][e + i])
      <3> SUFFICES ASSUME NEW i \in 1 .. l.k
                   PROVE  bits[p][e + i] = "written" /\ ~IsHeader(cell'[p][e + i])
        OBVIOUS
      <3>1. bits[p][e + i] = "written" /\ ~IsHeader(cell[p][e + i]) /\ e + l.k < Slots
        BY <1>2 DEF EntryInHand
      <3>2. e + i \in Slot /\ e + i # e
        BY <1>3, <3>1 DEF Slot
      <3> QED BY <2>2, <3>1, <3>2
    <2>5. /\ FirstEmpty(p, e) /\ e + l.k < Slots
          /\ l.k = IF l.want = "chunk" THEN ChunkSize ELSE 0
      BY <1>1, <1>2 DEF EntryInHand
    <2>6. bits'[p][e] = "empty" /\ \A t \in 0 .. e - 1 : bits'[p][t] # "empty"
      BY <1>1, <2>5 DEF FirstEmpty
    <2> QED BY <1>1, <2>2, <2>3, <2>4, <2>5, <2>6 DEF EntryInHand, FirstEmpty
  <1>8. SpanInHand' /\ CopyInHand'
    BY <1>1 DEF SpanInHand, CopyInHand, CopyingCell
  <1> QED BY <1>4, <1>6, <1>7, <1>8 DEF HandInv

\* A record that is whole and about to be erased.
LEMMA SpanFromHeader ==
  ASSUME FlashTypeOK, NEW x \in Place, x[1] \in DataPages, WrittenHeader(x[1], x[2]), Whole(x[1], x[2]),
         UsedKept, DataPages' = DataPages,
         l'.at = x, l'.k = 0, l'.span = SpanOf(cell[x[1]][x[2]]),
         bits'[x[1]][x[2]] = "written"
  PROVE  SpanInHand'
  <1> DEFINE n == SpanOf(cell[x[1]][x[2]])
  <1>1. x[1] \in Page /\ x[2] \in Slot /\ x[2] \in Nat /\ Slots \in Nat
    BY SlotsAreNat DEF Place, SlotNat
  <1>2. n \in Nat /\ n >= 1 /\ x[2] + n <= Slots
    BY <1>1, SpanNat DEF WrittenHeader, Whole
  <1>3. \A i \in 1 .. n - 1 : bits[x[1]][x[2] + i] # "empty" /\ ~IsHeader(cell[x[1]][x[2] + i])
    BY DEF Whole
  <1>4. cell'[x[1]][x[2]] = cell[x[1]][x[2]] /\ IsHeader(cell[x[1]][x[2]])
    BY <1>1 DEF UsedKept, WrittenHeader
  <1> HIDE DEF n
  <1>5. \A i \in 1 .. n - 1 : bits'[x[1]][x[2] + i] # "empty" /\ ~IsHeader(cell'[x[1]][x[2] + i])
    <2>1. \A i \in 1 .. n - 1 : x[2] + i \in Slot
      BY <1>1, <1>2 DEF Slot
    <2> QED BY <1>1, <1>3, <2>1 DEF UsedKept
  <1>6. \A i \in 0 .. n - 1 : bits'[x[1]][x[2] + i] # "empty"
    <2> SUFFICES ASSUME NEW i \in 0 .. n - 1 PROVE bits'[x[1]][x[2] + i] # "empty"
      OBVIOUS
    <2>1. CASE i = 0
      <3>1. x[2] + i = x[2]
        BY <1>1, <2>1
      <3> QED BY <3>1
    <2>2. CASE i # 0
      <3>1. i \in 1 .. n - 1
        BY <1>2, <2>2
      <3> QED BY <1>5, <3>1
    <2> QED BY <2>1, <2>2
  <1>7. l'.span = n /\ SpanOf(cell'[x[1]][x[2]]) = n
    BY <1>4 DEF n
  <1> QED BY <1>1, <1>2, <1>4, <1>5, <1>6, <1>7 DEF SpanInHand, WrittenHeader

\* And marked: the put goes on to its next entry, or to the value it replaces.
LEMMA EntryMarkTidy ==
  ASSUME FlashTypeOK, CallState, Pages, FlashInv, HandInv, EntryMark
  PROVE  FlashInv' /\ HandInv'
  <1> DEFINE p == l.at[1]
             e == l.at[2]
  <1>1. pc = "entrymark" /\ Mark(p, e, "written") /\ UNCHANGED <<hdr, cell>>
    BY DEF EntryMark
  <1>2. EntryInHand /\ Writing
    BY <1>1 DEF HandInv, Writing
  <1>3. p \in DataPages /\ p \in Page /\ e \in Slot
    BY <1>2, EntrySlots
  <1>4. FlashInv'
    BY <1>2, FlashByEntryMark DEF HandInv
  <1>5. HeadersKept
    BY <1>1, <1>3, MarkKept
  <1>6. CASE pc' \in {"old", "fill", "room"} /\ op' = op /\ l'.old = l.old /\ l'.oldCell = l.oldCell
             /\ (l'.offset < Size[op.value] \/ (l'.want = "idx" /\ pc' # "old"))
             /\ (pc' = "old" \/ l'.want # "ns")
    <2>1. OldInPlace'
      <3>1. pc \in PutPoints /\ pc' \notin CompactPoints \cup {"scrub"}
        BY <1>1, <1>6 DEF PutPoints, WritePoints, CompactPoints
      <3> QED BY <1>5, <1>6, <3>1, OldKept DEF HandInv
    <2> QED BY <1>4, <1>6, <2>1 DEF HandInv, EntryInHand, Writing, MoreToCome, SpanInHand, CopyInHand, CopyingCell,
             IndexFresh, IndexPoints, CompactPoints
  <1>7. CASE l.want = "ns" /\ pc' = "old" /\ op' = op /\ l' = l
    <2>1. l.offset < Size[op.value]
      BY <1>1, <1>7, WriteErrand DEF HandInv, MoreToCome
    <2> QED BY <1>6, <1>7, <2>1
  <1>8. CASE /\ l.want = "chunk"
             /\ l' = [l EXCEPT !.written = @ + 1, !.offset = @ + ChunkSize,
                               !.want = IF Remaining > ChunkSize THEN "chunk" ELSE "idx"]
             /\ pc' \in {"fill", "room"} /\ op' = op
    <2>1. /\ l'.offset = l.offset + ChunkSize /\ l'.old = l.old /\ l'.oldCell = l.oldCell
          /\ l'.want = IF Remaining > ChunkSize THEN "chunk" ELSE "idx"
      BY <1>8 DEF CallState, Locals
    <2>2. l'.want # "idx" => l.offset + ChunkSize < Size[op.value]
      <3>1. l.offset \in Nat /\ Size[op.value] \in Nat
        BY <1>1, WriteErrand
      <3>2. TailRoom \in Int
        BY <1>3, SlotsAreNat DEF SlotNat, TailRoom
      <3>3. ChunkSize \in Int
        BY <3>1, <3>2 DEF ChunkSize, Smaller, Remaining
      <3> QED BY <2>1, <3>1, <3>3 DEF Remaining
    <2>3. l'.want \in {"chunk", "idx"}
      BY <2>1
    <2>4. l'.want # "idx" => l'.offset < Size[op.value]
      BY <2>1, <2>2
    <2> QED BY <1>6, <1>8, <2>1, <2>3, <2>4
  <1>9. CASE pc' = "sweep"
    BY <1>4, <1>9, EndsHand
  <1>10. CASE l.old.status = "found" /\ Retire(l.ns, l.old.place, l.oldCell)
    <2> DEFINE x == l.old.place
    <2>1. pc' = "erasespan" /\ l'.at = x /\ l'.k = 0 /\ l'.span = SpanOf(l.oldCell)
      BY <1>10 DEF Retire, Goto, CallState, Locals
    <2>2. x \in Place /\ x[1] \in DataPages /\ WrittenHeader(x[1], x[2]) /\ cell[x[1]][x[2]] = l.oldCell
      BY <1>1, <1>10 DEF HandInv, OldInPlace, PutPoints, WritePoints
    <2>3. x[2] \in Slot
      BY <2>2 DEF Place
    <2>4. Whole(x[1], x[2])
      BY <1>1, <2>2, <2>3 DEF FlashInv, AllWhole, CopyingCell
    <2>5. UsedKept /\ DataPages' = DataPages
      BY <1>1, <1>3, MarkKeepsUsed DEF DataPages
    <2>6. bits'[x[1]][x[2]] = "written"
      BY <1>5, <2>2, <2>3 DEF HeadersKept
    <2> HIDE DEF x
    <2>7. SpanInHand'
      BY <2>1, <2>2, <2>4, <2>5, <2>6, SpanFromHeader
    <2> QED BY <1>4, <2>1, <2>7, ErasesHand
  <1> QED BY <1>7, <1>8, <1>9, <1>10 DEF EntryMark, Goto, Keep

----------------------------------------------------------------------------
(***************************************************************************)
(* Finding room, and making it.                                            *)
(***************************************************************************)
\* The steps between two decisions leave nothing of an entry or a record in hand.
LEMMA FindingHand ==
  ASSUME pc' \notin Unsettled \cup {"copy"}, CopyInHand', MoreToCome', OldInPlace', IndexFresh', pc' \notin {"data", "entry"}
  PROVE  HandInv'
  BY DEF HandInv, Unsettled, EntryInHand, Writing, SpanInHand

\* A step of the search for room that leaves the errand and the entries as they are.
LEMMA SearchHand ==
  ASSUME HandInv, SameErrand, HeadersKept, NsKept,
         pc \in MorePoints \cap IndexPoints,
         pc' \in {"room", "check", "activate", "start", "reclaim"},
         l.old.status = "found" => pc' # "reclaim",
         pc' = "start" /\ l'.compacting => l'.from = 0 /\ l'.to = 0
  PROVE  HandInv'
  <1>1. MoreToCome'
    BY MoreKept DEF HandInv
  <1>2. IndexFresh'
    BY IndexKept DEF HandInv
  <1>3. OldInPlace'
    BY OldKept DEF HandInv, SameErrand, MorePoints, PutPoints, WritePoints, CompactPoints
  <1>4. CopyInHand'
    BY DEF CopyInHand, CopyingCell
  <1> QED BY <1>1, <1>2, <1>3, <1>4, FindingHand DEF Unsettled

\* A compaction about to start.
LEMMA CompactHand ==
  ASSUME l \in Locals, HandInv, pc = "activate" \/ (pc = "scrub" /\ op.call = "scrub"), NEW t, NEW n, Compact(t, n)
  PROVE  HandInv'
  <1>1. /\ pc' = "start" /\ UNCHANGED flash /\ op' = op /\ SameErrand /\ l'.from = 0 /\ l'.to = 0
    BY DEF Compact, Goto, Keep, SameErrand, Locals
  <1>2. HeadersKept /\ NsKept
    BY <1>1, StillKept DEF flash, DataPages
  <1>3. CASE pc = "activate"
    BY <1>1, <1>2, <1>3, SearchHand DEF MorePoints, IndexPoints
  <1>4. CASE pc = "scrub" /\ op.call = "scrub"
    <2>1. MoreToCome' /\ IndexFresh' /\ CopyInHand'
      BY <1>1, <1>4 DEF MoreToCome, IndexFresh, CopyInHand, CopyingCell
    <2>2. l.old.status # "found"
      BY <1>4 DEF HandInv, OldInPlace
    <2>3. OldInPlace'
      BY <1>1, <1>4, <2>2, OldKept DEF HandInv, SameErrand
    <2> QED BY <1>1, <2>1, <2>3, FindingHand DEF Unsettled
  <1> QED BY <1>3, <1>4

\* The active page has room for the entry, or does not.
LEMMA PageWithRoomHand ==
  ASSUME FlashTypeOK, CallState, Pages, HandInv, PageWithRoom
  PROVE  HandInv'
  <1>1. pc = "room" /\ op.call = "put" /\ l \in Locals /\ op \in Calls
    BY DEF PageWithRoom, CallState, Routing, PutPoints
  <1>2. CASE \E p \in ActivePages : Deliver(p)
    BY <1>1, <1>2, DeliverHand
  <1>3. CASE /\ (\E p \in ActivePages : FillPage(p)) \/ UNCHANGED flash
             /\ l' = [l EXCEPT !.tries = 2] /\ pc' = "activate" /\ op' = op
    <2>1. SameErrand
      BY <1>1, <1>3 DEF SameErrand, Locals
    <2>2. UNCHANGED <<bits, cell>> /\ DataPages' = DataPages
      BY <1>3, FillEffect DEF flash, DataPages
    <2>3. HeadersKept /\ NsKept
      BY <2>2, StillKept
    <2> QED BY <1>1, <1>3, <2>1, <2>3, SearchHand DEF MorePoints, IndexPoints
  <1> QED BY <1>2, <1>3 DEF PageWithRoom, Goto, Keep

\* The page compacted into has room, or does not.
LEMMA CheckRoomHand ==
  ASSUME FlashTypeOK, CallState, Pages, HandInv, CheckRoom
  PROVE  HandInv'
  <1>1. pc = "check" /\ op.call = "put" /\ l \in Locals /\ op \in Calls /\ l.target \in ActivePages
    BY DEF CheckRoom, CallState, Routing, PutPoints, Pages, Reserved
  <1>2. CASE Deliver(l.target)
    BY <1>1, <1>2, DeliverHand
  <1>3. CASE FillPage(l.target) /\ pc' = "activate" /\ op' = op /\ l' = l
    <2>1. SameErrand
      BY <1>3 DEF SameErrand
    <2>2. HeadersKept /\ NsKept
      BY <1>1, <1>3, FillEffect, StillKept
    <2> QED BY <1>1, <1>3, <2>1, <2>2, SearchHand DEF MorePoints, IndexPoints
  <1> QED BY <1>2, <1>3 DEF CheckRoom, Goto, Keep

\* A free page is chosen: the last one to compact into.
LEMMA ActivatePageHand ==
  ASSUME FlashTypeOK, CallState, Pages, HandInv, ActivatePage
  PROVE  HandInv'
  <1>1. pc = "activate" /\ l \in Locals
    BY DEF ActivatePage, CallState
  <1>2. CASE Fail("BufferTooSmall")
    BY <1>2, EndsHand DEF Fail, Answer, Goto
  <1>3. CASE \E t \in FreePages : Compact(t, l.tries - 1)
    BY <1>1, <1>3, CompactHand
  <1>4. CASE \E t \in FreePages :
               /\ l' = [l EXCEPT !.target = t, !.compacting = FALSE, !.tries = @ - 1]
               /\ pc' = "start" /\ UNCHANGED flash /\ op' = op
    <2>1. SameErrand /\ l'.compacting = FALSE
      BY <1>1, <1>4 DEF SameErrand, Locals
    <2>2. HeadersKept /\ NsKept
      BY <1>4, StillKept DEF flash, DataPages
    <2> QED BY <1>1, <1>4, <2>1, <2>2, SearchHand DEF MorePoints, IndexPoints
  <1> QED BY <1>2, <1>3, <1>4 DEF ActivatePage, Goto, Keep

\* The page chosen is erased first.
LEMMA StartEraseTidy ==
  ASSUME FlashTypeOK, CallState, Pages, FlashInv, HandInv, StartErase
  PROVE  FlashInv' /\ HandInv'
  <1>1. pc = "start" /\ pc' = pc /\ l' = l /\ op' = op /\ l.target \in FreePages /\ l.target \in Page
        /\ ErasePage(l.target)
    BY DEF StartErase, Keep, Pages, Reserved, FreePages
  <1>2. FlashInv'
    BY <1>1, FlashByErase DEF HandInv, Unsettled, CallState
  <1>3. DataPages' = DataPages /\ \A q \in DataPages : q # l.target /\ bits'[q] = bits[q] /\ cell'[q] = cell[q]
    <2>1. DataPages' = DataPages \ {l.target} /\ l.target \notin DataPages
      BY <1>1, EraseEffect DEF FreePages
    <2>2. \A q \in DataPages : q \in Page /\ q # l.target
      BY <2>1 DEF DataPages
    <2> QED BY <1>1, <2>1, <2>2, EraseEffect
  <1>4. HeadersKept /\ NsKept /\ SameErrand
    BY <1>1, <1>3 DEF HeadersKept, NsKept, SameErrand, WrittenHeader
  <1>5. l'.compacting => l'.from = 0 /\ l'.to = 0
    BY <1>1 DEF HandInv, CopyInHand
  <1> QED BY <1>1, <1>2, <1>4, <1>5, SearchHand DEF MorePoints, IndexPoints

\* It gets its header: the page is active, and a copy may begin.
LEMMA StartHeaderTidy ==
  ASSUME FlashTypeOK, CallState, Pages, FlashInv, HandInv, StartHeader, OldUnmoved'
  PROVE  FlashInv' /\ HandInv'
  <1>1. /\ UNCHANGED <<bits, cell, op, l>> /\ pc = "start" /\ hdr[l.target].state = "uninit"
        /\ pc' = (IF l.compacting THEN "copy" ELSE "check")
        /\ l.target \in FreePages /\ l.target \in Page
        /\ DataPages' = DataPages \cup {l.target}
    BY StartEffect DEF Pages, Reserved, FreePages
  <1>2. FlashInv'
    BY FlashByStart DEF HandInv, CallState
  <1>3. \A s \in Slot : bits[l.target][s] = "empty"
    BY <1>1, StartedBlank DEF FlashInv
  <1>4. HeadersKept /\ NsKept /\ SameErrand
    BY <1>1, <1>3 DEF HeadersKept, NsKept, SameErrand, WrittenHeader
  <1>5. CASE ~l.compacting
    BY <1>1, <1>2, <1>4, <1>5, SearchHand DEF MorePoints, IndexPoints
  <1>6. CASE l.compacting
    <2>1. pc' = "copy" /\ l.k = 0 /\ l.from = 0 /\ l.to = 0 /\ l.old.status # "found"
      <3>1. l.k = 0
        BY <1>1, <1>6 DEF CallState, Copying
      <3>2. l.from = 0 /\ l.to = 0
        BY <1>1, <1>6 DEF HandInv, CopyInHand
      <3> QED BY <1>1, <1>6, <3>1, <3>2 DEF OldUnmoved
    <2>2. MoreToCome' /\ IndexFresh'
      BY <1>1, <1>4, <2>1, MoreKept, IndexKept DEF HandInv, MorePoints, IndexPoints
    <2>3. OldInPlace'
      BY <1>1, <2>1 DEF OldInPlace
    <2>4. CopyInHand'
      <3>1. \A s \in Slot : s \in Nat /\ ~(s < 0) /\ ~(s < 0 + 0)
        BY SlotsAreNat DEF SlotNat
      <3>2. \A i \in 0 .. 0 - 1 : FALSE
        OBVIOUS
      <3> QED BY <1>1, <1>3, <2>1, <3>1, <3>2 DEF CopyInHand
    <2>5. EntryInHand' /\ SpanInHand'
      BY <2>1 DEF EntryInHand, Writing, SpanInHand
    <2> QED BY <1>2, <2>2, <2>3, <2>4, <2>5 DEF HandInv
  <1> QED BY <1>5, <1>6

\* The next slot of the victim is copied, or no entry is left in it.
LEMMA CopyTidy ==
  ASSUME FlashTypeOK, CallState, Pages, EmptyBlank, FlashInv, HandInv, CopyCell \/ CopyMark
  PROVE  FlashInv' /\ HandInv'
  <1>1. /\ pc \in {"copy", "copymark"} /\ pc' \in {"copy", "copymark"} /\ SameErrand /\ UNCHANGED hdr
    <2>1. CASE CopyCell
      BY <2>1 DEF CopyCell, Goto, Keep, SameErrand, CallState, Locals
    <2>2. CASE CopyMark
      BY <2>2 DEF CopyMark, Goto, Keep, SameErrand, CallState, Locals
    <2> QED BY <2>1, <2>2
  <1>2. FlashInv' /\ CopyInHand'
    BY CopyCellTidy, FlashByCopyMark, CopyMarkInHand DEF HandInv
  <1>3. NsKept
    <2>1. CASE CopyCell
      <3>1. CopyingCell /\ pc = "copy"
        BY <2>1 DEF CopyCell, CopyingCell
      <3>2. PICK s \in Slot :
              /\ s = l.from \/ (l.k = 0 /\ NextWritten(s) /\ \E n \in SpansAt(l.victim, s) : TRUE)
              /\ ProgramCell(l.target, l.to + l.k, cell[l.victim][s + l.k])
        BY <2>1 DEF CopyCell
      <3>3. /\ pc' = "copymark" /\ l'.to = l.to /\ l'.k = l.k /\ l'.target = l.target /\ UNCHANGED bits
        BY <2>1 DEF CopyCell, Goto, CallState, Locals
      <3>4. \A t \in Slot : bits[l.target][t] = "written" => t # l.to + l.k
        BY <3>1, CopyPages, SlotsAreNat DEF HandInv, CopyInHand, SlotNat
      <3>5. \A q \in Page : \A t \in Slot : ~(q = l.target /\ t = l.to + l.k) => cell'[q][t] = cell[q][t]
        BY <3>1, <3>2, CopyPages, ProgramEffect
      <3>6. DataPages' = DataPages /\ \A q \in DataPages : q \in Page
        BY <1>1 DEF DataPages
      <3>7. \A q \in DataPages : \A t \in Slot : bits'[q][t] = "written" => bits[q][t] = "written" /\ cell'[q][t] = cell[q][t]
        BY <3>3, <3>4, <3>5, <3>6
      <3> QED BY <3>6, <3>7 DEF NsKept
    <2>2. CASE CopyMark
      <3>1. CopyingCell /\ pc = "copymark"
        BY <2>2 DEF CopyMark, CopyingCell
      <3>2. /\ l.target \in Page /\ l.victim \in DataPages /\ l.from \in Nat /\ l.k \in Nat /\ l.to \in Nat
        BY <3>1, CopyPages
      <3>3. /\ \A q \in Page : \A a \in Slot : ~(q = l.target /\ a = l.to + l.k) => bits'[q][a] = bits[q][a]
            /\ UNCHANGED cell /\ \A i \in 0 .. l.k : cell[l.target][l.to + i] = cell[l.victim][l.from + i]
        BY <2>2, CopyMarkFacts DEF HandInv
      <3>4. /\ l.from \in Slot /\ WrittenHeader(l.victim, l.from) /\ l.k < l.span
            /\ \A i \in 1 .. l.span - 1 : ~IsHeader(cell[l.victim][l.from + i])
        BY <3>1, EntryCopied DEF HandInv
      <3>5. DataPages' = DataPages /\ \A q \in DataPages : q \in Page
        BY <1>1 DEF DataPages
      <3>6. cell[l.target][l.to + l.k] = cell[l.victim][l.from + l.k]
        BY <3>2, <3>3
      <3>7. l.k # 0 => ~IsHeader(cell[l.target][l.to + l.k])
        <4> SUFFICES ASSUME l.k # 0 PROVE ~IsHeader(cell[l.target][l.to + l.k])
          OBVIOUS
        <4>1. l.span \in Nat
          BY <3>1, CopyPages
        <4>2. l.k \in 1 .. l.span - 1
          BY <3>2, <3>4, <4>1
        <4> QED BY <3>4, <3>6, <4>2
      <3>8. l.k = 0 => cell[l.target][l.to + l.k] = cell[l.victim][l.from]
        BY <3>2, <3>6
      <3> SUFFICES ASSUME NEW q \in DataPages, NEW a \in Slot, bits'[q][a] = "written", cell[q][a].kind = "ns"
                   PROVE  \E r \in DataPages : \E u \in Slot : bits[r][u] = "written" /\ cell[r][u] = cell[q][a]
        BY <3>3, <3>5 DEF NsKept
      <3>9. CASE q = l.target /\ a = l.to + l.k
        <4>1. l.k = 0
          BY <3>7, <3>9 DEF IsHeader
        <4> QED BY <3>2, <3>4, <3>8, <3>9, <4>1 DEF WrittenHeader
      <3>10. CASE ~(q = l.target /\ a = l.to + l.k)
        BY <3>3, <3>5, <3>10
      <3> QED BY <3>9, <3>10
    <2> QED BY <2>1, <2>2
  <1>4. MoreToCome' /\ IndexFresh'
    BY <1>1, <1>3, MoreKept, IndexKept DEF HandInv, MorePoints, IndexPoints, CompactPoints
  <1>5. l.old.status # "found"
    BY <1>1 DEF HandInv, OldInPlace, CompactPoints
  <1>6. OldInPlace' /\ EntryInHand' /\ SpanInHand'
    BY <1>1, <1>5 DEF SameErrand, OldInPlace, EntryInHand, Writing, SpanInHand
  <1> QED BY <1>2, <1>4, <1>6 DEF HandInv

\* The copy is over: the victim is given up.
LEMMA CopyDoneHand ==
  ASSUME FlashTypeOK, CallState, HandInv, CopyDone
  PROVE  HandInv'
  <1>1. pc = "copy" /\ pc' = "reclaim" /\ SameErrand /\ UNCHANGED flash
    BY DEF CopyDone, Goto, Keep, SameErrand
  <1>2. HeadersKept /\ NsKept
    BY <1>1, StillKept DEF flash, DataPages
  <1>3. l.old.status # "found"
    BY <1>1 DEF HandInv, OldInPlace, CompactPoints
  <1> QED BY <1>1, <1>2, <1>3, SearchHand DEF MorePoints, IndexPoints, CompactPoints

\* The victim is erased.
LEMMA ReclaimTidy ==
  ASSUME FlashTypeOK, CallState, Pages, FlashInv, HandInv, Reclaim
  PROVE  FlashInv' /\ HandInv'
  <1>1. pc = "reclaim" /\ pc' = (IF op.call = "scrub" THEN "scrub" ELSE "check") /\ l' = l /\ op' = op
        /\ l.victim \in Page /\ ErasePage(l.victim)
    BY DEF Reclaim, Goto, Keep, Pages, Reserved, CompactPoints
  <1>2. FlashInv'
    BY <1>1, FlashByErase DEF HandInv, Unsettled, CallState
  <1>3. \A q \in DataPages' : q \in DataPages /\ bits'[q] = bits[q] /\ cell'[q] = cell[q]
    BY <1>1, EraseEffect DEF DataPages
  <1>4. NsKept /\ SameErrand
    BY <1>1, <1>3 DEF NsKept, SameErrand
  <1>5. MoreToCome' /\ IndexFresh'
    BY <1>1, <1>4, MoreKept, IndexKept DEF HandInv, MorePoints, IndexPoints, CompactPoints
  <1>6. l.old.status # "found"
    BY <1>1 DEF HandInv, OldInPlace, CompactPoints
  <1>7. OldInPlace' /\ CopyInHand'
    BY <1>1, <1>6 DEF OldInPlace, CopyInHand, CopyingCell
  <1> QED BY <1>1, <1>2, <1>5, <1>7, FindingHand DEF Unsettled

----------------------------------------------------------------------------
(***************************************************************************)
(* What a call learns from a scan.                                         *)
(***************************************************************************)
\* The index chosen for a new namespace stands in no entry.
LEMMA FreeIndexFresh ==
  ASSUME FlashTypeOK, \A p \in DataPages : Ordered(p), NEW i \in FreeIndices(Headers(bits)),
         NEW p \in DataPages, NEW s \in Slot, bits[p][s] = "written", cell[p][s].kind = "ns"
  PROVE  cell[p][s].index # i
  <1>1. p \in Page /\ WrittenHeader(p, s)
    BY DEF DataPages, WrittenHeader, IsHeader
  <1>2. s \in Visited(bits, p)
    BY <1>1, HeadersVisited
  <1>3. <<p, s>> \in Headers(bits)
    BY <1>1, <1>2 DEF Headers, Place
  <1>4. CellAt(<<p, s>>) = cell[p][s]
    BY DEF CellAt
  <1>5. cell[p][s].index \in UsedIndices(Headers(bits))
    BY <1>3, <1>4 DEF UsedIndices
  <1> QED BY <1>5 DEF FreeIndices

\* A put begins: the namespace is known, or an index is chosen for it.
LEMMA PutBeginHand ==
  ASSUME FlashTypeOK, CallState, Pages, FlashInv, HandInv, PutBegin
  PROVE  HandInv'
  <1>1. /\ pc = "begin" /\ op.call = "put" /\ UNCHANGED flash
        /\ \/ pc' = "idle"
           \/ pc' = "old" /\ op' = op /\ \E i : l' = [l EXCEPT !.ns = i]
           \/ /\ pc' = "room" /\ op' = op
              /\ \E i \in FreeIndices(Headers(bits)) : l' = [l EXCEPT !.ns = i]
    BY DEF PutBegin, Answer, Goto, Keep
  <1>2. /\ l.offset = 0 /\ l.want = "ns" /\ l.old.status = "none"
        /\ l.offset < Size[op.value]
    <2>1. l = NoLocals /\ Size[op.value] \in Nat \ {0}
      BY <1>1, OpFields DEF CallState, Fresh
    <2> QED BY <2>1 DEF NoLocals, Absent
  <1>3. CASE pc' = "idle"
    BY <1>3, EndsHand
  <1>4. CASE pc' = "old" /\ op' = op /\ \E i : l' = [l EXCEPT !.ns = i]
    <2>1. l'.offset = l.offset /\ l'.old = l.old
      BY <1>4 DEF CallState, Locals
    <2>2. MoreToCome' /\ OldInPlace'
      BY <1>2, <1>4, <2>1 DEF MoreToCome, OldInPlace
    <2>3. CopyInHand' /\ IndexFresh'
      BY <1>4 DEF CopyInHand, CopyingCell, IndexFresh, IndexPoints, CompactPoints
    <2> QED BY <1>4, <2>2, <2>3, FindingHand DEF Unsettled
  <1>5. CASE /\ pc' = "room" /\ op' = op
             /\ \E i \in FreeIndices(Headers(bits)) : l' = [l EXCEPT !.ns = i]
    <2>1. PICK i \in FreeIndices(Headers(bits)) : l' = [l EXCEPT !.ns = i]
      BY <1>5
    <2>2. l'.offset = l.offset /\ l'.old = l.old /\ l'.want = l.want /\ l'.ns = i
      BY <2>1 DEF CallState, Locals
    <2>3. MoreToCome' /\ OldInPlace'
      BY <1>2, <1>5, <2>2 DEF MoreToCome, OldInPlace
    <2>4. CopyInHand'
      BY <1>5 DEF CopyInHand, CopyingCell
    <2>5. \A p \in DataPages : Ordered(p)
      BY <1>1, SettledPages DEF HandInv, CallState, Pages, Unsettled
    <2>6. \A p \in DataPages : \A s \in Slot : bits[p][s] = "written" /\ cell[p][s].kind = "ns" => cell[p][s].index # i
      BY <2>5, FreeIndexFresh
    <2>7. IndexFresh'
      BY <1>1, <2>2, <2>6 DEF IndexFresh, flash, DataPages
    <2> QED BY <1>5, <2>3, <2>4, <2>7, FindingHand DEF Unsettled
  <1> QED BY <1>1, <1>3, <1>4, <1>5

\* It looks for the value it will replace.
LEMMA PutFindOldHand ==
  ASSUME FlashTypeOK, CallState, Pages, FlashInv, HandInv, PutFindOld
  PROVE  HandInv'
  <1> DEFINE old == FindNotChunk[Headers(bits)][<<l.ns, op.name>>]
             e   == CellAt(old.place)
  <1>1. pc = "old" /\ op.call = "put" /\ UNCHANGED flash /\ l.offset < Size[op.value]
    BY DEF PutFindOld, CallState, Routing, PutPoints, HandInv, MoreToCome
  <1>2. CASE pc' = "idle"
    BY <1>2, EndsHand
  <1>3. CASE pc' = "chunk" /\ op' = op /\ l' = l
    <2>1. OldInPlace'
      BY <1>1, <1>3, StillKept, OldKept DEF HandInv, flash, DataPages, PutPoints, CompactPoints
    <2>2. MoreToCome' /\ CopyInHand' /\ IndexFresh'
      BY <1>1, <1>3 DEF MoreToCome, CopyInHand, CopyingCell, IndexFresh, IndexPoints, CompactPoints
    <2> QED BY <1>3, <2>1, <2>2, FindingHand DEF Unsettled
  <1>4. CASE /\ old.status = "found" /\ pc' = "chunk" /\ op' = op
             /\ \E w : l' = [l EXCEPT !.old = old, !.oldCell = e, !.start = w]
    <2>1. <<l.ns, op.name>> \in Nat \X Names
      BY <1>1, OpFields, FormatAssumption DEF CallState, Locals
    <2>2. PICK x \in Place : old = Found(x) /\ x \in Headers(bits) /\ IsHeader(CellAt(x))
      BY <1>4, <2>1, NotChunkFound, HeadersAreVisits
    <2>3. /\ x[1] \in DataPages /\ WrittenHeader(x[1], x[2]) /\ CellAt(x) = cell[x[1]][x[2]]
      BY <2>2, VisitedHeader
    <2>4. old.place = x /\ e = cell[x[1]][x[2]]
      BY <2>2, <2>3, FoundPlace
    <2>5. l'.old = old /\ l'.oldCell = e /\ l'.offset = l.offset
      BY <1>4 DEF CallState, Locals
    <2> HIDE DEF old, e
    <2>6. OldInPlace'
      <3>1. l'.old.place = x /\ l'.oldCell = cell'[x[1]][x[2]]
        BY <1>1, <2>4, <2>5 DEF flash
      <3>2. x[1] \in DataPages' /\ bits'[x[1]][x[2]] = "written" /\ IsHeader(cell'[x[1]][x[2]])
        BY <1>1, <2>3 DEF flash, DataPages, WrittenHeader
      <3> QED BY <1>4, <2>2, <3>1, <3>2 DEF OldInPlace, WrittenHeader, CompactPoints
    <2>7. MoreToCome' /\ CopyInHand' /\ IndexFresh'
      BY <1>1, <1>4, <2>5 DEF MoreToCome, CopyInHand, CopyingCell, IndexFresh, IndexPoints, CompactPoints
    <2> QED BY <1>4, <2>6, <2>7, FindingHand DEF Unsettled
  <1> HIDE DEF old, e
  <1> QED BY <1>2, <1>3, <1>4 DEF PutFindOld, Answer, Goto, Keep, old, e

\* A record found by a scan lies whole in its page.
LEMMA FoundSpan ==
  ASSUME FlashTypeOK, FlashInv, ~CopyingCell, UNCHANGED flash,
         NEW x \in Headers(bits), IsHeader(CellAt(x)), l'.at = x, l'.k = 0, l'.span = SpanOf(CellAt(x))
  PROVE  SpanInHand'
  <1>1. x \in Place /\ x[1] \in DataPages /\ x[2] \in Slot /\ WrittenHeader(x[1], x[2])
        /\ CellAt(x) = cell[x[1]][x[2]]
    BY VisitedHeader
  <1>2. Whole(x[1], x[2])
    BY <1>1 DEF FlashInv, AllWhole
  <1>3. UsedKept /\ DataPages' = DataPages /\ bits'[x[1]][x[2]] = "written"
    BY <1>1 DEF flash, UsedKept, DataPages, WrittenHeader
  <1> QED BY <1>1, <1>2, <1>3, SpanFromHeader

\* A remove looks for the value.
LEMMA RemoveBeginHand ==
  ASSUME FlashTypeOK, CallState, FlashInv, RemoveBegin
  PROVE  HandInv'
  <1> DEFINE found == FindNamespace[Headers(bits)][op.ns]
             i     == CellAt(found.place).index
             x     == FindNotChunk[Headers(bits)][<<i, op.name>>]
  <1>1. UNCHANGED flash /\ op.call = "remove" /\ pc = "begin"
    BY DEF RemoveBegin
  <1>2. CASE pc' = "idle"
    BY <1>2, EndsHand
  <1>3. CASE found.status = "found" /\ x.status = "found" /\ Retire(i, x.place, CellAt(x.place))
    <2>1. i \in 1 .. MaxNamespaces
      <3>1. PICK y \in Place : found = Found(y) /\ CellAt(y).kind = "ns"
        BY <1>1, <1>3, NamespaceFound, HeadersAreVisits, OpFields DEF CallState
      <3> QED BY <3>1, FoundPlace, PlaceCell, CellFields
    <2> HIDE DEF i
    <2>2. <<i, op.name>> \in Nat \X Names
      BY <1>1, <2>1, OpFields, FormatAssumption DEF CallState
    <2>3. PICK y \in Place : x = Found(y) /\ y \in Headers(bits) /\ IsHeader(CellAt(y))
      BY <1>3, <2>2, NotChunkFound, HeadersAreVisits
    <2>4. x.place = y
      BY <2>3, FoundPlace
    <2> HIDE DEF x
    <2>5. pc' = "erasespan" /\ l'.at = y /\ l'.k = 0 /\ l'.span = SpanOf(CellAt(y))
      BY <1>3, <2>4 DEF Retire, Goto, CallState, Locals
    <2>6. SpanInHand'
      BY <1>1, <2>3, <2>5, FoundSpan DEF CopyingCell
    <2> QED BY <2>5, <2>6, ErasesHand
  <1> HIDE DEF found, i, x
  <1> QED BY <1>2, <1>3 DEF RemoveBegin, Answer, Goto, found, i, x

\* The chunks the old value left are looked up, and erased one by one.
LEMMA SweepHand ==
  ASSUME FlashTypeOK, CallState, FlashInv, Sweep
  PROVE  HandInv'
  <1> DEFINE x == FindChunk[Headers(bits)][<<l.ns, op.name>>][<<l.sweep.start, l.sweep.done>>]
  <1>1. /\ pc = "sweep" /\ UNCHANGED flash /\ op.name \in Names /\ l.ns \in Nat
        /\ l.sweep \in [start : {0, 1}, count : Nat, done : Nat]
    BY OpFields, FormatAssumption DEF Sweep, CallState, Routing, Locals
  <1>2. CASE pc' \in {"idle", "sweep"}
    BY <1>2, EndsHand
  <1>3. CASE /\ x.status = "found" /\ pc' = "erasespan"
             /\ l' = [l EXCEPT !.sweep.done = @ + 1, !.at = x.place, !.k = 0,
                               !.span = SpanOf(CellAt(x.place))]
    <2>1. <<l.ns, op.name>> \in Nat \X Names /\ <<l.sweep.start, l.sweep.done>> \in {0, 1} \X Nat
      BY <1>1
    <2>2. PICK y \in Place : x = Found(y) /\ y \in Headers(bits) /\ IsHeader(CellAt(y))
      BY <1>3, <2>1, ChunkFound, HeadersAreVisits
    <2>3. x.place = y
      BY <2>2, FoundPlace
    <2> HIDE DEF x
    <2>4. l'.at = y /\ l'.k = 0 /\ l'.span = SpanOf(CellAt(y))
      BY <1>3, <2>3 DEF CallState, Locals
    <2>5. SpanInHand'
      BY <1>1, <2>2, <2>4, FoundSpan DEF CopyingCell
    <2> QED BY <1>3, <2>5, ErasesHand
  <1> HIDE DEF x
  <1> QED BY <1>1, <1>2, <1>3 DEF Sweep, Answer, Goto, Keep, x

\* The next chunk, or the index once all are written.
LEMMA ChunkLoopHand ==
  ASSUME FlashTypeOK, CallState, HandInv, ChunkLoop
  PROVE  HandInv'
  <1>1. pc = "chunk" /\ UNCHANGED flash /\ l.offset < Size[op.value]
    BY DEF ChunkLoop, HandInv, MoreToCome
  <1>2. CASE Fail("InvalidFormat")
    BY <1>2, EndsHand DEF Fail, Answer, Goto
  <1>3. CASE l' = [l EXCEPT !.want = "chunk"] /\ pc' = "room" /\ op' = op
    <2>1. l'.want = "chunk" /\ l'.offset = l.offset /\ l'.old = l.old /\ l'.oldCell = l.oldCell
      BY <1>3 DEF CallState, Locals
    <2>2. OldInPlace'
      BY <1>1, <1>3, <2>1, StillKept, OldKept DEF HandInv, flash, DataPages, PutPoints, CompactPoints
    <2>3. MoreToCome' /\ CopyInHand' /\ IndexFresh'
      BY <1>1, <1>3, <2>1 DEF MoreToCome, CopyInHand, CopyingCell, IndexFresh
    <2> QED BY <1>3, <2>2, <2>3, FindingHand DEF Unsettled
  <1> QED BY <1>2, <1>3 DEF ChunkLoop, Goto, Keep

\* A page with no slot left is marked full.
LEMMA FillHand ==
  ASSUME FlashTypeOK, CallState, Pages, HandInv, Fill
  PROVE  HandInv'
  <1>1. /\ pc = "fill" /\ l.at[1] \in ActivePages /\ FillPage(l.at[1])
        /\ pc' = (IF l.want = "chunk" THEN "chunk" ELSE "room") /\ op' = op /\ l' = l
        /\ op.call = "put"
    BY DEF Fill, Goto, Keep, Pages, Reserved, CallState, Routing, PutPoints, WritePoints
  <1>2. HeadersKept /\ NsKept /\ SameErrand
    BY <1>1, FillEffect, StillKept DEF SameErrand
  <1>3. CASE l.want = "chunk"
    <2>1. OldInPlace'
      BY <1>1, <1>2, <1>3, OldKept DEF HandInv, PutPoints, WritePoints, CompactPoints
    <2>2. l.offset < Size[op.value]
      BY <1>1, <1>3 DEF HandInv, MoreToCome, MorePoints, WritePoints
    <2>3. MoreToCome' /\ CopyInHand' /\ IndexFresh'
      BY <1>1, <1>3, <2>2 DEF MoreToCome, CopyInHand, CopyingCell, IndexFresh
    <2> QED BY <1>1, <1>3, <2>1, <2>3, FindingHand DEF Unsettled
  <1>4. CASE l.want # "chunk"
    BY <1>1, <1>2, <1>4, SearchHand DEF MorePoints, IndexPoints, WritePoints
  <1> QED BY <1>3, <1>4

\* A scrub takes the next page with erased entries, or ends.
LEMMA ScrubHand ==
  ASSUME FlashTypeOK, CallState, HandInv, Scrub
  PROVE  HandInv'
  <1>1. pc = "scrub" /\ op.call = "scrub" /\ l \in Locals
    BY DEF Scrub, CallState, Routing
  <1>2. CASE pc' = "idle"
    BY <1>2, EndsHand
  <1>3. CASE (\E p \in ActivePages : FillPage(p)) /\ UNCHANGED <<pc, op, l>>
    <2>1. l.old.status # "found"
      BY <1>1 DEF HandInv, OldInPlace
    <2>2. OldInPlace' /\ MoreToCome' /\ CopyInHand' /\ IndexFresh'
      BY <1>1, <1>3, <2>1 DEF OldInPlace, MoreToCome, CopyInHand, CopyingCell, IndexFresh
    <2> QED BY <1>1, <1>3, <2>2, FindingHand DEF Unsettled
  <1>4. CASE \E t \in Page : Compact(t, 0)
    BY <1>1, <1>4, CompactHand
  <1> QED BY <1>2, <1>3, <1>4 DEF Scrub, Answer, Goto, Keep

----------------------------------------------------------------------------
(***************************************************************************)
(* The partition stays in order.                                           *)
(***************************************************************************)
\* Every step of the writer keeps the partition in order.
LEMMA WriterTidy ==
  ASSUME IInv, CleanInv, TidyInv, OldUnmoved', Writer
  PROVE  TidyInv'
  <1>1. FlashTypeOK /\ CallState /\ Pages /\ l \in Locals /\ EmptyBlank /\ FlashInv /\ HandInv
    BY DEF IInv, CallState, CleanInv, TidyInv
  <1> SUFFICES FlashInv' /\ HandInv'
    BY DEF TidyInv
  <1>2. CopyInHand /\ SpanInHand
    BY <1>1 DEF HandInv
  <1>3. CASE StillStep /\ ~StartHeader
    <2>1. FlashInv'
      BY <1>1, <1>2, <1>3, FlashByStill
    <2>2. HandInv'
      BY <1>1, <1>3, PutBeginHand, PutFindOldHand, RemoveBeginHand, PageWithRoomHand, CheckRoomHand,
         ActivatePageHand, CopyDoneHand, ChunkLoopHand, FillHand, SweepHand, ScrubHand DEF StillStep
    <2> QED BY <2>1, <2>2
  <1>4. CASE StartHeader
    BY <1>1, <1>4, StartHeaderTidy
  <1>5. CASE StartErase
    BY <1>1, <1>5, StartEraseTidy
  <1>6. CASE CopyCell \/ CopyMark
    BY <1>1, <1>6, CopyTidy
  <1>7. CASE Reclaim
    BY <1>1, <1>7, ReclaimTidy
  <1>8. CASE DataWrite
    BY <1>1, <1>8, DataWriteTidy
  <1>9. CASE DataMark
    BY <1>1, <1>9, DataMarkTidy
  <1>10. CASE EntryWrite
    BY <1>1, <1>10, EntryWriteTidy
  <1>11. CASE EntryMark
    BY <1>1, <1>11, EntryMarkTidy
  <1>12. CASE EraseMark
    <2>1. FlashInv' /\ SpanInHand'
      BY <1>1, <1>2, <1>12, EraseMarkTidy
    <2>2. pc' \in {"erasespan", "sweep"}
      BY <1>12 DEF EraseMark, Goto
    <2> QED BY <2>1, <2>2, ErasesHand, EndsHand
  <1> QED BY <1>3, <1>4, <1>5, <1>6, <1>7, <1>8, <1>9, <1>10, <1>11, <1>12 DEF Writer, StillStep

\* A partition in order is one the invariants hold of.
LEMMA InitTidy == Init /\ TidyFlash => CleanFlash /\ TidyInv
  <1> SUFFICES ASSUME Init, TidyFlash PROVE CleanFlash /\ TidyInv
    OBVIOUS
  <1>1. pc = "idle"
    BY DEF Init
  <1>2. CleanFlash
    BY DEF TidyFlash, CleanFlash, FreePages
  <1>3. \A p \in DataPages : Ordered(p)
    BY SlotsAreNat DEF TidyFlash, Ordered, Slot, SlotNat
  <1>4. FlashInv
    BY <1>3, OrderedPages DEF FlashInv, TidyFlash, FreeEmpty
  <1>5. HandInv
    BY <1>1 DEF HandInv, EntryInHand, Writing, MoreToCome, MorePoints, SpanInHand, OldInPlace, PutPoints,
       WritePoints, CompactPoints, CopyInHand, CopyingCell, IndexFresh, IndexPoints
  <1> QED BY <1>2, <1>4, <1>5 DEF TidyInv

\* A call that begins finds it in order.
LEMMA CallTidy ==
  ASSUME IInv, TidyInv, NEW c \in Calls, Call(c)
  PROVE  TidyInv'
  <1>1. pc = "idle" /\ pc' \in {"scrub", "begin"} /\ UNCHANGED flash /\ l' = l /\ l = NoLocals
    BY DEF Call, Goto, IInv, CallState, Fresh
  <1>2. \A p \in DataPages : Ordered(p)
    BY <1>1, SettledPages DEF TidyInv, HandInv, IInv, CallState, Pages, Unsettled
  <1>3. \A p \in DataPages' : Ordered(p)'
    BY <1>1, <1>2 DEF flash, DataPages, Ordered, Owned, Whole, WrittenHeader
  <1>4. Appended' /\ AllWhole' /\ AllOwned'
    BY <1>3 DEF Appended, AllWhole, AllOwned, Ordered, Owned, Whole, WrittenHeader
  <1>5. FreeEmpty' /\ NamespacesApart'
    BY <1>1 DEF TidyInv, FlashInv, FreeEmpty, NamespacesApart, FreePages, DataPages, flash
  <1>6. HandInv'
    <2>1. l'.old.status = "none"
      BY <1>1 DEF NoLocals, Absent
    <2> QED BY <1>1, <2>1 DEF HandInv, EntryInHand, Writing, MoreToCome, MorePoints, SpanInHand, OldInPlace,
             PutPoints, WritePoints, CompactPoints, CopyInHand, CopyingCell, IndexFresh, IndexPoints
  <1> QED BY <1>4, <1>5, <1>6 DEF TidyInv, FlashInv

\* A step that changes nothing.
LEMMA StutterTidy == TidyInv /\ UNCHANGED vars => TidyInv'
  <1> SUFFICES ASSUME TidyInv, UNCHANGED vars PROVE TidyInv'
    OBVIOUS
  <1>1. UNCHANGED <<hdr, bits, cell, pc, op, l>>
    BY DEF vars
  <1>2. FlashInv'
    BY <1>1 DEF TidyInv, FlashInv, FreeEmpty, Appended, AllWhole, AllOwned, NamespacesApart, WrittenHeader, Whole,
       Owned, Loose, Writing, CopyingCell, DataPages, FreePages
  <1>3. HandInv'
    <2> HandInv
      BY DEF TidyInv
    <2>1. EntryInHand'
      BY <1>1 DEF HandInv, EntryInHand, Writing, FirstEmpty, ChunkSize, Remaining, TailRoom, EntryCell
    <2>2. MoreToCome'
      BY <1>1 DEF HandInv, MoreToCome
    <2>3. SpanInHand'
      BY <1>1 DEF HandInv, SpanInHand, WrittenHeader, DataPages
    <2>4. OldInPlace'
      BY <1>1 DEF HandInv, OldInPlace, WrittenHeader, DataPages
    <2>5. CopyInHand'
      BY <1>1 DEF HandInv, CopyInHand, CopyingCell, WrittenHeader
    <2>6. IndexFresh'
      BY <1>1 DEF HandInv, IndexFresh, DataPages
    <2> QED BY <2>1, <2>2, <2>3, <2>4, <2>5, <2>6 DEF HandInv
  <1> QED BY <1>2, <1>3 DEF TidyInv

\* Every step does, as long as it does not fail and moves no value to be replaced.
LEMMA NextTidy ==
  IInv /\ CleanInv /\ TidyInv /\ (NothingFailed /\ OldUnmoved)' /\ [Next]_vars => TidyInv'
  <1> SUFFICES ASSUME IInv, CleanInv, TidyInv, NothingFailed', OldUnmoved', [Next]_vars PROVE TidyInv'
    OBVIOUS
  <1>1. CASE Writer
    BY <1>1, WriterTidy
  <1>2. CASE \E c \in Calls : Call(c)
    BY <1>2, CallTidy
  <1>3. CASE UNCHANGED vars
    BY <1>3, StutterTidy
  <1> QED BY <1>1, <1>2, <1>3, FailuresCounted DEF IInv

\* The two invariants together, from a partition in order on.
LEMMA TidyAlways == Spec /\ TidyFlash /\ [](NothingFailed /\ OldUnmoved) => [](IInv /\ CleanInv /\ TidyInv)
  <1>1. Init /\ TidyFlash => CleanFlash /\ TidyInv
    BY InitTidy
  <1>2. IInv /\ CleanInv /\ TidyInv /\ (NothingFailed /\ OldUnmoved)' /\ [Next]_vars => TidyInv'
    BY NextTidy
  <1> QED BY <1>1, <1>2, CleanAlways, InductiveInvariant, PTL DEF Spec

\* Between calls nothing is in hand: the partition is in order.
LEMMA TidyIsTidy == IInv /\ CleanInv /\ TidyInv => TidyBetweenCalls
  <1> SUFFICES ASSUME IInv, CleanInv, TidyInv, pc = "idle" PROVE TidyFlash
    BY DEF TidyBetweenCalls
  <1>1. \A p \in DataPages : p \in Page /\ Ordered(p)
    BY SettledPages DEF TidyInv, HandInv, IInv, CallState, Pages, Unsettled, DataPages
  <1>2. FreePages # {}
    BY DEF CleanInv, SpareKept, CompactPoints
  <1>3. \A p \in FreePages : \A s \in Slot :
          cell[p][s] = Blank /\ (hdr[p].state = "uninit" => bits[p][s] = "empty")
    BY DEF CleanInv, FreeBlank, TidyInv, FlashInv, FreeEmpty
  <1>4. \A p \in DataPages : \A s \in Slot :
          bits[p][s] = "empty" => cell[p][s] = Blank /\ \A t \in s .. Slots - 1 : bits[p][t] = "empty"
    <2> SUFFICES ASSUME NEW p \in DataPages, NEW s \in Slot, bits[p][s] = "empty"
                 PROVE  cell[p][s] = Blank /\ \A t \in s .. Slots - 1 : bits[p][t] = "empty"
      OBVIOUS
    <2>1. cell[p][s] = Blank
      BY <1>1 DEF CleanInv, EmptyBlank, InHand
    <2>2. \A t \in s .. Slots - 1 : t \in Slot /\ (t = s \/ s < t)
      BY SlotsAreNat DEF SlotNat, Slot
    <2> QED BY <1>1, <2>1, <2>2 DEF Ordered
  <1>5. \A p \in DataPages : \A s \in Slot :
          (bits[p][s] = "written" => Owned(p, s)) /\ (WrittenHeader(p, s) => Whole(p, s))
    BY <1>1 DEF Ordered
  <1> QED BY <1>2, <1>3, <1>4, <1>5 DEF TidyFlash, TidyInv, FlashInv

\* Without failures, and while no compaction runs under a value being replaced, a partition in
\* order stays in order from call to call, whatever its size and whatever is stored in it.
THEOREM StaysInOrder == Spec /\ TidyFlash /\ [](NothingFailed /\ OldUnmoved) => []TidyBetweenCalls
  BY TidyAlways, TidyIsTidy, PTL

\* And at every instant, calls under way included, no two namespaces share an index: the search
\* for a free one sees every namespace entry there is.
THEOREM StayApart == Spec /\ TidyFlash /\ [](NothingFailed /\ OldUnmoved) => []NamespacesApart
  <1>1. TidyInv => NamespacesApart
    BY DEF TidyInv, FlashInv
  <1> QED BY <1>1, TidyAlways, PTL
----------------------------------------------------------------------------
(***************************************************************************)
(* The caches.  What follows holds through power cuts and failed flash     *)
(* operations, and whatever a compaction moves.  A scan checks a header    *)
(* that stands behind used slots only (FrontInv): nothing is programmed    *)
(* there again, and only the erase of its page takes it away.              *)
(***************************************************************************)
\* no slot of page `p` before `s` is empty
Fronted(p, s) == \A t \in Slot : t < s => bits[p][t] # "empty"

\* what ESP-IDF and this code leave: every header stands behind used slots only, and an erased
\* page has nothing written in it
FrontFlash ==
  /\ \A p \in DataPages : \A s \in Slot : WrittenHeader(p, s) => Fronted(p, s)
  /\ \A p \in Page : hdr[p].state = "uninit" => \A s \in Slot : bits[p][s] # "written"

\* the entry in hand is put at the first empty slot, its data behind it holds no header, and a
\* copy fills its page from the front
FrontHand ==
  /\ pc \in {"data", "datamark", "entry", "entrymark"} => FirstEmpty(l.at[1], l.at[2])
  /\ pc = "datamark" => \A s \in Slot : s = l.at[2] + 1 + l.k => ~IsHeader(cell[l.at[1]][s])
  /\ pc = "start" /\ l.compacting => l.to = 0
  /\ pc \in {"copy", "copymark"} => Fronted(l.target, l.to + l.k)

FrontInv == FrontFlash /\ FrontHand

\* a remembered header stands in a data page, behind used slots only
Kept(x) ==
  /\ x \in Place /\ x[1] \in DataPages /\ IsHeader(CellAt(x))
  /\ bits[x[1]][x[2]] # "empty" /\ Fronted(x[1], x[2])

\* and nothing in a page that is being filled by a copy is remembered
CacheInv ==
  \A x \in verified : Kept(x) /\ (pc \in CompactPoints => x[1] # l.target)

\* Marking a slot, anywhere, changes that slot only.
LEMMA MarkChanges ==
  ASSUME FlashTypeOK, NEW p, NEW s, NEW state, Mark(p, s, state)
  PROVE  \A q \in Page : \A t \in Slot :
           bits'[q][t] = IF q = p /\ t = s /\ bits[q][t] # "erased" THEN state ELSE bits[q][t]
  BY DEF Mark, FlashTypeOK

\* Programming a slot, anywhere, changes that slot only, and leaves there no header but the one
\* programmed.
LEMMA ProgramChanges ==
  ASSUME FlashTypeOK, NEW p, NEW s, NEW c, ProgramCell(p, s, c)
  PROVE  /\ \A q \in Page : \A t \in Slot : ~(q = p /\ t = s) => cell'[q][t] = cell[q][t]
         /\ \A q \in Page : \A t \in Slot : q = p /\ t = s => cell'[q][t] \in {c, Garbage}
  BY DEF ProgramCell, FlashTypeOK

\* Marking a slot leaves what is behind used slots there.
LEMMA MarkFronts ==
  ASSUME FlashTypeOK, NEW p, NEW s, NEW state, state # "empty", Mark(p, s, state),
         NEW q \in Page, NEW n, Fronted(q, n)
  PROVE  Fronted(q, n)'
  BY MarkChanges DEF Fronted

\* Slots and headers untouched, no page started: the order stays.
LEMMA FrontByStill ==
  ASSUME FrontFlash, UNCHANGED <<bits, cell>>, DataPages' = DataPages,
         \A q \in Page : hdr'[q].state = "uninit" => hdr[q].state = "uninit"
  PROVE  FrontFlash'
  BY DEF FrontFlash, WrittenHeader, Fronted, IsHeader

\* Marking keeps it, when a header is marked written behind used slots only.
LEMMA FrontByMark ==
  ASSUME FlashTypeOK, FrontFlash, NEW p, NEW s, NEW state \in {"written", "erased"},
         Mark(p, s, state), UNCHANGED <<hdr, cell>>,
         state = "written" =>
           p \in ActivePages /\ \A t \in Slot : t = s /\ IsHeader(cell[p][t]) => Fronted(p, t)
  PROVE  FrontFlash'
  <1>1. DataPages' = DataPages
    BY DEF DataPages
  <1>2. ASSUME NEW q \in DataPages, NEW t \in Slot, WrittenHeader(q, t)' PROVE Fronted(q, t)'
    <2>1. q \in Page /\ cell'[q][t] = cell[q][t] /\ IsHeader(cell[q][t])
      BY <1>2 DEF DataPages, WrittenHeader, IsHeader
    <2>2. Fronted(q, t)
      <3>1. CASE bits[q][t] = "written"
        BY <2>1, <3>1 DEF FrontFlash, WrittenHeader
      <3>2. CASE bits[q][t] # "written"
        <4>1. q = p /\ t = s /\ state = "written"
          BY <1>2, <2>1, <3>2, MarkChanges DEF WrittenHeader
        <4> QED BY <2>1, <4>1
      <3> QED BY <3>1, <3>2
    <2> QED BY <2>1, <2>2, MarkFronts
  <1>3. ASSUME NEW q \in Page, hdr'[q].state = "uninit", NEW t \in Slot PROVE bits'[q][t] # "written"
    <2>1. hdr[q].state = "uninit" /\ bits[q][t] # "written"
      BY <1>3 DEF FrontFlash
    <2>2. q = p => state # "written"
      BY <2>1 DEF ActivePages
    <2> QED BY <2>1, <2>2, MarkChanges
  <1> QED BY <1>1, <1>2, <1>3 DEF FrontFlash

\* Programming keeps it, when a header is programmed into a slot that is not written, or that
\* stands behind used slots.
LEMMA FrontByProgram ==
  ASSUME FlashTypeOK, FrontFlash, NEW p, NEW s, NEW c, ProgramCell(p, s, c), UNCHANGED <<hdr, bits>>,
         \A t \in Slot : p \in Page /\ t = s /\ IsHeader(c) =>
           bits[p][t] # "written" \/ Fronted(p, t)
  PROVE  FrontFlash'
  <1>1. DataPages' = DataPages
    BY DEF DataPages
  <1>2. ASSUME NEW q \in DataPages, NEW t \in Slot, WrittenHeader(q, t)' PROVE Fronted(q, t)'
    <2>1. q \in Page /\ bits[q][t] = "written" /\ IsHeader(cell'[q][t])
      BY <1>2 DEF DataPages, WrittenHeader
    <2>2. ~IsHeader(Garbage)
      BY DEF IsHeader, Garbage
    <2>3. Fronted(q, t)
      <3>1. CASE q = p /\ t = s
        BY <2>1, <2>2, <3>1, ProgramChanges
      <3>2. CASE ~(q = p /\ t = s)
        <4>1. cell'[q][t] = cell[q][t]
          BY <2>1, <3>2, ProgramChanges
        <4> QED BY <2>1, <4>1 DEF FrontFlash, WrittenHeader
      <3> QED BY <3>1, <3>2
    <2> QED BY <2>3 DEF Fronted
  <1> QED BY <1>1, <1>2 DEF FrontFlash

\* Erasing a page keeps it.
LEMMA FrontByErase ==
  ASSUME FlashTypeOK, FrontFlash, NEW p \in Page, ErasePage(p)
  PROVE  FrontFlash'
  <1>1. /\ \A s \in Slot : bits'[p][s] = "empty"
        /\ \A q \in Page : q # p => hdr'[q] = hdr[q] /\ bits'[q] = bits[q] /\ cell'[q] = cell[q]
        /\ DataPages' = DataPages \ {p}
    BY EraseEffect
  <1>2. ASSUME NEW q \in DataPages', NEW t \in Slot, WrittenHeader(q, t)' PROVE Fronted(q, t)'
    BY <1>1, <1>2 DEF FrontFlash, WrittenHeader, Fronted, DataPages
  <1>3. ASSUME NEW q \in Page, hdr'[q].state = "uninit", NEW t \in Slot PROVE bits'[q][t] # "written"
    BY <1>1, <1>3 DEF FrontFlash
  <1> QED BY <1>2, <1>3 DEF FrontFlash

\* Where nothing is in hand, only the flash counts.
LEMMA FrontOutOfHand ==
  ASSUME FrontFlash',
         pc' \notin {"data", "datamark", "entry", "entrymark", "copy", "copymark"},
         ~(pc' = "start" /\ l'.compacting)
  PROVE  FrontInv'
  BY DEF FrontInv, FrontHand

\* A call that gives up has nothing in hand.
LEMMA FailFront ==
  ASSUME FrontInv, UNCHANGED flash, NEW e, Fail(e)
  PROVE  FrontInv'
  <1>1. FrontFlash'
    BY FrontByStill DEF FrontInv, flash, DataPages
  <1>2. pc' \in {"idle", "sweep"}
    BY DEF Fail, Answer, Goto
  <1> QED BY <1>1, <1>2, FrontOutOfHand

\* The slot delivered is the first empty one.
LEMMA DeliverFront ==
  ASSUME FrontInv, l \in Locals, NEW p, Deliver(p)
  PROVE  FrontInv'
  <1>1. PICK s \in Slot : /\ FirstEmpty(p, s)
                          /\ l' = [l EXCEPT !.at = <<p, s>>, !.k = 0]
                          /\ pc' \in {"data", "entry"} /\ UNCHANGED flash
    BY DEF Deliver, Room, Goto
  <1>2. FrontFlash'
    BY <1>1, FrontByStill DEF FrontInv, flash, DataPages
  <1>3. l'.at[1] = p /\ l'.at[2] = s
    BY <1>1 DEF Locals
  <1>4. FirstEmpty(l.at[1], l.at[2])'
    BY <1>1, <1>3 DEF FirstEmpty, flash
  <1> QED BY <1>1, <1>2, <1>4 DEF FrontInv, FrontHand

\* A compaction starts its copy at the front.
LEMMA CompactFront ==
  ASSUME FrontInv, l \in Locals, NEW t, NEW n, Compact(t, n)
  PROVE  FrontInv'
  <1>1. /\ \E v \in Page : l' = [l EXCEPT !.target = t, !.compacting = TRUE, !.victim = v,
                                          !.from = 0, !.to = 0, !.k = 0, !.tries = n]
        /\ pc' = "start" /\ UNCHANGED flash
    BY DEF Compact, Goto
  <1>2. FrontFlash'
    BY <1>1, FrontByStill DEF FrontInv, flash, DataPages
  <1>3. l'.to = 0
    BY <1>1 DEF Locals
  <1> QED BY <1>1, <1>2, <1>3 DEF FrontInv, FrontHand

\* Marking the active page full leaves nothing in hand.
LEMMA FillFront ==
  ASSUME FlashTypeOK, FrontInv, NEW p \in ActivePages, FillPage(p),
         pc' \in {"activate", "chunk", "room", "scrub"}
  PROVE  FrontInv'
  <1>1. FrontFlash'
    BY FillEffect, FrontByStill DEF FrontInv
  <1> QED BY <1>1, FrontOutOfHand

\* Looking for room.
LEMMA PageWithRoomFront ==
  ASSUME FlashTypeOK, CallState, FrontInv, PageWithRoom
  PROVE  FrontInv'
  <1>1. CASE \E p \in ActivePages : Deliver(p)
    BY <1>1, DeliverFront DEF CallState
  <1>2. CASE pc' = "activate" /\ \E p \in ActivePages : FillPage(p)
    BY <1>2, FillFront
  <1>3. CASE pc' = "activate" /\ UNCHANGED flash
    <2>1. FrontFlash'
      BY <1>3, FrontByStill DEF FrontInv, flash, DataPages
    <2> QED BY <1>3, <2>1, FrontOutOfHand
  <1> QED BY <1>1, <1>2, <1>3 DEF PageWithRoom, Goto

\* The page activated.
LEMMA CheckRoomFront ==
  ASSUME FlashTypeOK, CallState, Pages, FrontInv, CheckRoom
  PROVE  FrontInv'
  <1>1. CASE Deliver(l.target)
    BY <1>1, DeliverFront DEF CallState
  <1>2. CASE pc' = "activate" /\ FillPage(l.target)
    BY <1>2, FillFront DEF CheckRoom, Pages, Reserved
  <1> QED BY <1>1, <1>2 DEF CheckRoom, Goto

\* A new page is chosen.
LEMMA ActivatePageFront ==
  ASSUME CallState, FrontInv, ActivatePage
  PROVE  FrontInv'
  <1>1. CASE Fail("BufferTooSmall") /\ UNCHANGED flash
    BY <1>1, FailFront
  <1>2. CASE \E t \in FreePages : Compact(t, l.tries - 1)
    BY <1>2, CompactFront DEF CallState
  <1>3. CASE /\ \E t \in FreePages : l' = [l EXCEPT !.target = t, !.compacting = FALSE, !.tries = @ - 1]
             /\ pc' = "start" /\ UNCHANGED flash
    <2>1. FrontFlash'
      BY <1>3, FrontByStill DEF FrontInv, flash, DataPages
    <2>2. ~l'.compacting
      BY <1>3 DEF CallState, Locals
    <2> QED BY <1>3, <2>1, <2>2, FrontOutOfHand
  <1> QED BY <1>1, <1>2, <1>3 DEF ActivatePage, Goto

\* It is erased, unless it is blank.
LEMMA StartEraseFront ==
  ASSUME FlashTypeOK, Pages, FrontInv, StartErase
  PROVE  FrontInv'
  <1>1. pc = "start" /\ l.target \in Page /\ ErasePage(l.target) /\ UNCHANGED <<pc, l>>
    BY DEF StartErase, Pages, Reserved, FreePages
  <1>2. FrontFlash'
    BY <1>1, FrontByErase DEF FrontInv
  <1> QED BY <1>1, <1>2 DEF FrontInv, FrontHand

\* A page that becomes a data page has nothing written in it.
LEMMA StartHeaderFront ==
  ASSUME FlashTypeOK, CallState, Pages, FrontInv, StartHeader
  PROVE  FrontInv'
  <1>1. /\ UNCHANGED <<bits, cell, op, result, l>> /\ pc = "start" /\ hdr[l.target].state = "uninit"
        /\ pc' = IF l.compacting THEN "copy" ELSE "check"
        /\ l.target \in Page /\ DataPages' = DataPages \cup {l.target}
        /\ \A q \in Page : q # l.target => hdr'[q] = hdr[q]
    BY StartEffect DEF Pages, Reserved, FreePages
  <1>2. l.target \in ActivePages'
    BY <1>1 DEF StartHeader, ActivePages, FlashTypeOK
  <1>3. ASSUME NEW q \in DataPages', NEW s \in Slot, WrittenHeader(q, s)' PROVE Fronted(q, s)'
    <2>1. WrittenHeader(q, s)
      BY <1>1, <1>3 DEF WrittenHeader, IsHeader
    <2>2. q \in DataPages
      BY <1>1, <2>1 DEF FrontInv, FrontFlash, WrittenHeader
    <2> QED BY <1>1, <2>1, <2>2 DEF FrontInv, FrontFlash, Fronted
  <1>4. ASSUME NEW q \in Page, hdr'[q].state = "uninit", NEW s \in Slot PROVE bits'[q][s] # "written"
    BY <1>1, <1>2, <1>4 DEF FrontInv, FrontFlash, ActivePages
  <1>5. FrontFlash'
    BY <1>3, <1>4 DEF FrontFlash
  <1>6. CASE l.compacting
    <2>1. l.to + l.k = 0
      BY <1>1, <1>6 DEF CallState, Copying, FrontInv, FrontHand
    <2>2. Fronted(l.target, l.to + l.k)'
      BY <1>1, <2>1, SlotsAreNat DEF Fronted, SlotNat
    <2> QED BY <1>1, <1>5, <1>6, <2>2 DEF FrontInv, FrontHand
  <1>7. CASE ~l.compacting
    BY <1>1, <1>5, <1>7, FrontOutOfHand
  <1> QED BY <1>6, <1>7

\* A copied header is programmed behind used slots.
LEMMA CopyCellFront ==
  ASSUME FlashTypeOK, CallState, FrontInv, CopyCell
  PROVE  FrontInv'
  <1>1. PICK s \in Slot : /\ \/ \E n \in SpansAt(l.victim, s) : l' = [l EXCEPT !.from = s, !.span = n]
                             \/ UNCHANGED l
                          /\ ProgramCell(l.target, l.to + l.k, cell[l.victim][s + l.k])
    BY DEF CopyCell
  <1>2. /\ pc = "copy" /\ pc' = "copymark" /\ UNCHANGED <<hdr, bits>>
        /\ l'.to = l.to /\ l'.k = l.k /\ l'.target = l.target
    BY <1>1 DEF CopyCell, Goto, CallState, Locals
  <1>3. Fronted(l.target, l.to + l.k)
    BY <1>2 DEF FrontInv, FrontHand
  <1>4. FrontFlash'
    BY <1>1, <1>2, <1>3, FrontByProgram DEF FrontInv
  <1>5. Fronted(l.target, l.to + l.k)'
    BY <1>2, <1>3 DEF Fronted
  <1> QED BY <1>2, <1>4, <1>5 DEF FrontInv, FrontHand

\* The copy goes on behind the slot it marked.
LEMMA CopyMarkFront ==
  ASSUME FlashTypeOK, CallState, Pages, FrontInv, CopyMark
  PROVE  FrontInv'
  <1> DEFINE next == l.to + l.k + 1
  <1>1. /\ pc = "copymark" /\ pc' = "copy" /\ UNCHANGED <<hdr, cell>>
        /\ Mark(l.target, l.to + l.k, "written")
        /\ l' = IF l.k + 1 < l.span
                  THEN [l EXCEPT !.k = @ + 1]
                  ELSE [l EXCEPT !.k = 0, !.from = @ + l.span, !.to = @ + l.span]
    BY DEF CopyMark, Goto
  <1>2. /\ l.target \in ActivePages /\ l.target \in Page
        /\ Fronted(l.target, l.to + l.k)
        /\ l.k \in Nat /\ l.span \in Nat /\ l.to \in Nat /\ l.k < l.span
    BY <1>1 DEF Pages, Reserved, CompactPoints, ActivePages, FrontInv, FrontHand, CallState, Locals, Copying
  <1>3. l'.to + l'.k = next /\ l'.target = l.target
    <2>1. CASE l.k + 1 < l.span
      BY <1>1, <1>2, <2>1 DEF CallState, Locals
    <2>2. CASE ~(l.k + 1 < l.span)
      <3>1. l'.to = l.to + l.span /\ l'.k = 0 /\ l'.target = l.target
        BY <1>1, <2>2 DEF CallState, Locals
      <3>2. l.span = l.k + 1
        BY <1>2, <2>2
      <3> QED BY <1>2, <3>1, <3>2
    <2> QED BY <2>1, <2>2
  <1>4. FrontFlash'
    BY <1>1, <1>2, FrontByMark DEF FrontInv
  <1>5. \A t \in Slot : t < next => bits'[l.target][t] # "empty"
    <2> SUFFICES ASSUME NEW t \in Slot, t < next PROVE bits'[l.target][t] # "empty"
      OBVIOUS
    <2>1. t < l.to + l.k \/ t = l.to + l.k
      BY <1>2, SlotsAreNat DEF SlotNat
    <2> QED BY <1>1, <1>2, <2>1, MarkChanges DEF Fronted
  <1>6. Fronted(l.target, l.to + l.k)'
    BY <1>3, <1>5 DEF Fronted
  <1> QED BY <1>1, <1>4, <1>6 DEF FrontInv, FrontHand

\* The victim is erased.
LEMMA ReclaimFront ==
  ASSUME FlashTypeOK, Pages, FrontInv, Reclaim
  PROVE  FrontInv'
  <1>1. l.victim \in Page /\ ErasePage(l.victim) /\ pc' \in {"scrub", "check"}
    BY DEF Reclaim, Pages, Reserved, CompactPoints, Goto
  <1>2. FrontFlash'
    BY <1>1, FrontByErase DEF FrontInv
  <1> QED BY <1>1, <1>2, FrontOutOfHand

\* Data is no header.
LEMMA DataWriteFront ==
  ASSUME FlashTypeOK, FrontInv, Pages, DataWrite
  PROVE  FrontInv'
  <1> DEFINE c == Data(op.value, l.offset + l.k)
  <1>1. /\ pc = "data" /\ pc' = "datamark" /\ UNCHANGED <<hdr, bits, l>>
        /\ ProgramCell(l.at[1], l.at[2] + 1 + l.k, c)
        /\ l.at[1] \in Page
    BY DEF DataWrite, Goto, Pages, Reserved, WritePoints, Place
  <1>2. ~IsHeader(c) /\ ~IsHeader(Garbage)
    BY DEF IsHeader, Data, Garbage
  <1> HIDE DEF c
  <1>3. FrontFlash'
    BY <1>1, <1>2, FrontByProgram DEF FrontInv
  <1>4. \A s \in Slot : s = l.at[2] + 1 + l.k => ~IsHeader(cell'[l.at[1]][s])
    BY <1>1, <1>2, ProgramChanges
  <1>5. \A s \in Slot : s = (l.at[2] + 1 + l.k)' => ~IsHeader(cell[l.at[1]][s])'
    BY <1>1, <1>4 DEF IsHeader
  <1>6. FirstEmpty(l.at[1], l.at[2])'
    BY <1>1 DEF FrontInv, FrontHand, FirstEmpty
  <1> QED BY <1>1, <1>3, <1>5, <1>6 DEF FrontInv, FrontHand

\* It is marked behind the slot kept for its header, which stays the first empty one.
LEMMA DataMarkFront ==
  ASSUME FlashTypeOK, CallState, FrontInv, Pages, DataMark
  PROVE  FrontInv'
  <1>1. /\ pc = "datamark" /\ pc' \in {"data", "entry"} /\ UNCHANGED <<hdr, cell>>
        /\ Mark(l.at[1], l.at[2] + 1 + l.k, "written")
        /\ l.at \in Place /\ l.at[1] \in ActivePages /\ l'.at = l.at
        /\ l.k \in Nat
    BY DEF DataMark, Goto, Pages, Reserved, WritePoints, CallState, Locals
  <1>2. FirstEmpty(l.at[1], l.at[2])
    BY <1>1 DEF FrontInv, FrontHand
  <1>3. FrontFlash'
    BY <1>1, FrontByMark DEF FrontInv, FrontHand
  <1>4. \A t \in Slot : t <= l.at[2] => bits'[l.at[1]][t] = bits[l.at[1]][t]
    <2> SUFFICES ASSUME NEW t \in Slot, t <= l.at[2] PROVE bits'[l.at[1]][t] = bits[l.at[1]][t]
      OBVIOUS
    <2>1. l.at[1] \in Page /\ l.at[2] \in Slot
      BY <1>1 DEF Place
    <2>2. t # l.at[2] + 1 + l.k
      BY <1>1, <2>1, SlotsAreNat DEF SlotNat
    <2> QED BY <1>1, <2>1, <2>2, MarkChanges
  <1>5. FirstEmpty(l.at[1], l.at[2])'
    <2>1. l.at[2] \in Slot /\ \A t \in 0 .. l.at[2] - 1 : t \in Slot /\ t <= l.at[2]
      BY <1>1, SlotsAreNat DEF Place, Slot, SlotNat
    <2>2. l.at[2] <= l.at[2]
      BY <2>1, SlotsAreNat DEF SlotNat
    <2> QED BY <1>1, <1>2, <1>4, <2>1, <2>2 DEF FirstEmpty
  <1> QED BY <1>1, <1>3, <1>5 DEF FrontInv, FrontHand

\* An entry is programmed into a slot that is empty.
LEMMA EntryWriteFront ==
  ASSUME FlashTypeOK, FrontInv, Pages, EntryWrite
  PROVE  FrontInv'
  <1>1. /\ pc = "entry" /\ pc' = "entrymark" /\ UNCHANGED <<hdr, bits, l>>
        /\ ProgramCell(l.at[1], l.at[2], EntryCell)
    BY DEF EntryWrite, Goto
  <1>2. FirstEmpty(l.at[1], l.at[2])
    BY <1>1 DEF FrontInv, FrontHand
  <1>3. FrontFlash'
    BY <1>1, <1>2, FrontByProgram DEF FrontInv, FirstEmpty
  <1>4. FirstEmpty(l.at[1], l.at[2])'
    BY <1>1, <1>2 DEF FirstEmpty
  <1> QED BY <1>1, <1>3, <1>4 DEF FrontInv, FrontHand

\* It is marked at the first empty slot.
LEMMA EntryMarkFront ==
  ASSUME FlashTypeOK, FrontInv, Pages, EntryMark
  PROVE  FrontInv'
  <1>1. /\ pc = "entrymark" /\ pc' \in {"old", "fill", "room", "sweep", "erasespan"}
        /\ UNCHANGED <<hdr, cell>> /\ Mark(l.at[1], l.at[2], "written")
        /\ l.at \in Place /\ l.at[1] \in ActivePages
    BY DEF EntryMark, Goto, Retire, Pages, Reserved, WritePoints
  <1>2. Fronted(l.at[1], l.at[2])
    <2>1. \A t \in Slot : t < l.at[2] => t \in 0 .. l.at[2] - 1
      BY <1>1, SlotsAreNat DEF Place, SlotNat
    <2> QED BY <1>1, <2>1 DEF FrontInv, FrontHand, FirstEmpty, Fronted
  <1>3. FrontFlash'
    BY <1>1, <1>2, FrontByMark DEF FrontInv
  <1> QED BY <1>1, <1>3, FrontOutOfHand

\* Marks of erasure, wherever they fall.
LEMMA EraseMarkFront ==
  ASSUME FlashTypeOK, FrontInv, EraseMark
  PROVE  FrontInv'
  <1>1. /\ pc' \in {"erasespan", "sweep"} /\ UNCHANGED <<hdr, cell>>
        /\ Mark(l.at[1], l.at[2] + l.k, "erased")
    BY DEF EraseMark, Goto
  <1>2. FrontFlash'
    BY <1>1, FrontByMark DEF FrontInv
  <1> QED BY <1>1, <1>2, FrontOutOfHand

\* A chunk that used the page's tail closes the page.
LEMMA FillStepFront ==
  ASSUME FlashTypeOK, FrontInv, Pages, Fill
  PROVE  FrontInv'
  <1>1. l.at[1] \in ActivePages /\ FillPage(l.at[1]) /\ pc' \in {"chunk", "room"}
    BY DEF Fill, Goto, Pages, Reserved, WritePoints
  <1> QED BY <1>1, FillFront

\* A step that only looks.
LEMMA LookFront ==
  ASSUME FrontInv, PutBegin \/ PutFindOld \/ RemoveBegin \/ CopyDone \/ Sweep \/ ChunkLoop
  PROVE  FrontInv'
  <1>1. UNCHANGED flash /\ pc' \in {"idle", "old", "room", "chunk", "erasespan", "reclaim", "sweep"}
    <2>1. CASE PutBegin \/ PutFindOld \/ RemoveBegin
      BY <2>1 DEF PutBegin, PutFindOld, RemoveBegin, Retire, Answer, Goto
    <2>2. CASE CopyDone \/ ChunkLoop
      BY <2>2 DEF CopyDone, ChunkLoop, Fail, Answer, Goto
    <2>3. CASE Sweep
      BY <2>3 DEF Sweep, Answer, Goto
    <2> QED BY <2>1, <2>2, <2>3
  <1>2. FrontFlash'
    BY <1>1, FrontByStill DEF FrontInv, flash, DataPages
  <1> QED BY <1>1, <1>2, FrontOutOfHand

\* A scrub picks its next page.
LEMMA ScrubFront ==
  ASSUME FlashTypeOK, CallState, FrontInv, Scrub
  PROVE  FrontInv'
  <1>1. CASE pc' = "idle" /\ UNCHANGED flash
    <2>1. FrontFlash'
      BY <1>1, FrontByStill DEF FrontInv, flash, DataPages
    <2> QED BY <1>1, <2>1, FrontOutOfHand
  <1>2. CASE pc' = "scrub" /\ \E p \in ActivePages : FillPage(p)
    BY <1>2, FillFront
  <1>3. CASE \E t \in Page : Compact(t, 0)
    BY <1>3, CompactFront DEF CallState
  <1> QED BY <1>1, <1>2, <1>3 DEF Scrub, Answer, Goto

\* Every step, power cuts and failed flash operations included, keeps the order.
LEMMA NextFront == IInv /\ FrontInv /\ [Next]_vars => FrontInv'
  <1> SUFFICES ASSUME FlashTypeOK, CallState, Pages, FrontInv, [Next]_vars PROVE FrontInv'
    BY DEF IInv
  <1>1. CASE Writer
    BY <1>1, PageWithRoomFront, CheckRoomFront, ActivatePageFront, StartEraseFront, StartHeaderFront,
       CopyCellFront, CopyMarkFront, ReclaimFront, DataWriteFront, DataMarkFront, EntryWriteFront,
       EntryMarkFront, EraseMarkFront, FillStepFront, LookFront, ScrubFront DEF Writer
  <1>2. CASE Fault
    BY <1>2, FailFront DEF Fault
  <1>3. CASE Crash \/ \E c \in Calls : Call(c)
    <2>1. UNCHANGED flash /\ pc' \in {"idle", "scrub", "begin"}
      BY <1>3 DEF Crash, Call, Goto
    <2>2. FrontFlash'
      BY <2>1, FrontByStill DEF FrontInv, flash, DataPages
    <2> QED BY <2>1, <2>2, FrontOutOfHand
  <1>4. CASE UNCHANGED vars
    BY <1>4 DEF vars, FrontInv, FrontFlash, FrontHand, FirstEmpty, Fronted, WrittenHeader, IsHeader, DataPages
  <1> QED BY <1>1, <1>2, <1>3, <1>4 DEF Next

\* From a partition in order on, at every instant.
LEMMA FrontAlways == Spec /\ FrontFlash => []FrontInv
  <1>1. Init /\ FrontFlash => FrontInv
    BY DEF Init, FrontInv, FrontHand
  <1> QED BY <1>1, NextFront, InductiveInvariant, PTL DEF Spec

----------------------------------------------------------------------------
\* A header that a scan has checked and that is not remembered yet.
Checked == {x \in Headers(bits) : IsHeader(CellAt(x))}

\* It may be remembered.
LEMMA CheckedKept ==
  ASSUME FlashTypeOK, FrontFlash, NEW x \in Checked
  PROVE  Kept(x)
  <1>1. /\ x \in Place /\ x[1] \in DataPages /\ x[2] \in Slot /\ WrittenHeader(x[1], x[2])
        /\ IsHeader(CellAt(x))
    BY VisitedHeader DEF Checked
  <1> QED BY <1>1 DEF Kept, FrontFlash, WrittenHeader

\* A scan stops before the header that fails.
LEMMA PassedChecked ==
  ASSUME FlashTypeOK, NEW found
  PROVE  Passed(Headers(bits), found) \subseteq Checked
  <1> SUFFICES ASSUME NEW x \in Passed(Headers(bits), found) PROVE x \in Checked
    OBVIOUS
  <1>1. x \in Headers(bits) /\ \A y \in Broken(Headers(bits)) : Before(x, y)
    BY DEF Passed
  <1>2. ~Before(x, x)
    <2>1. x \in Place
      BY <1>1 DEF Headers
    <2>2. x[1] \in Page /\ x[2] \in Slot
      BY <2>1 DEF Place
    <2>3. hdr[x[1]].seq \in Nat /\ x[1] \in Nat /\ x[2] \in Nat
      BY <2>2 DEF FlashTypeOK, Page, Slot
    <2> QED BY <2>3 DEF Before, Older
  <1> QED BY <1>1, <1>2 DEF Broken, Checked

\* So do all those that lead to a value.
LEMMA CheckedForChecked ==
  ASSUME FlashTypeOK, NEW i, NEW name, NEW S \in CheckedFor(i, name)
  PROVE  S \subseteq Checked
  <1> DEFINE hs == Headers(bits)
             entry == ScanEntry(i, name)
             e == CellAt(entry.place)
             chunk(c) == ScanChunk(i, name, e.start, c)
  <1>1. \A f : Passed(hs, f) \subseteq Checked
    BY PassedChecked
  <1>2. \/ S = Passed(hs, entry)
        \/ \E n \in Nat : S = Passed(hs, entry) \cup UNION {Passed(hs, chunk(c)) : c \in 0 .. n - 1}
    <2>1. CASE entry.status = "found" /\ e.kind = "idx"
      <3>1. \E n \in 0 .. e.count : S = Passed(hs, entry) \cup UNION {Passed(hs, chunk(c)) : c \in 0 .. n - 1}
        BY <2>1 DEF CheckedFor
      <3> QED BY <3>1
    <2>2. CASE ~(entry.status = "found" /\ e.kind = "idx")
      BY <2>2 DEF CheckedFor
    <2> QED BY <2>1, <2>2
  <1> HIDE DEF hs, entry, chunk
  <1> QED BY <1>1, <1>2

\* Remembering what was checked, away from a compaction, with the flash as it was.
LEMMA LearnKept ==
  ASSUME FlashTypeOK, FrontFlash, CacheInv, UNCHANGED flash, pc' \notin CompactPoints,
         verified' \subseteq verified \cup Checked
  PROVE  CacheInv'
  <1> SUFFICES ASSUME NEW x \in verified' PROVE Kept(x)'
    BY DEF CacheInv
  <1>1. Kept(x)
    BY CheckedKept DEF CacheInv
  <1> QED BY <1>1 DEF Kept, Fronted, DataPages, CellAt, IsHeader, flash

\* Nothing is remembered.
LEMMA ForgetKept == Forget => CacheInv'
  BY DEF Forget, CacheInv

\* Slots untouched, and no page gone.
LEMMA StillRemembered ==
  ASSUME CacheInv, UNCHANGED <<bits, cell, verified>>, DataPages \subseteq DataPages',
         \A x \in verified : pc' \in CompactPoints => x[1] # l'.target
  PROVE  CacheInv'
  <1> SUFFICES ASSUME NEW x \in verified PROVE Kept(x)'
    BY DEF CacheInv
  <1> QED BY DEF CacheInv, Kept, Fronted, CellAt, IsHeader

\* A slot is marked.
LEMMA MarkRemembered ==
  ASSUME FlashTypeOK, CacheInv, UNCHANGED <<hdr, cell, verified>>,
         NEW p, NEW s, NEW state \in {"written", "erased"}, Mark(p, s, state),
         \A x \in verified : pc' \in CompactPoints => x[1] # l'.target
  PROVE  CacheInv'
  <1> SUFFICES ASSUME NEW x \in verified PROVE Kept(x)'
    BY DEF CacheInv
  <1>1. Kept(x) /\ x[1] \in Page /\ x[2] \in Slot
    BY DEF CacheInv, Kept, DataPages, Place
  <1>2. Fronted(x[1], x[2])'
    BY <1>1, MarkFronts DEF Kept, Fronted
  <1>3. bits'[x[1]][x[2]] # "empty"
    BY <1>1, MarkChanges DEF Kept
  <1> QED BY <1>1, <1>2, <1>3 DEF Kept, DataPages, CellAt, IsHeader

\* A slot is programmed that is not remembered.
LEMMA ProgramRemembered ==
  ASSUME FlashTypeOK, CacheInv, UNCHANGED <<hdr, bits, verified>>,
         NEW p, NEW s, NEW c, ProgramCell(p, s, c),
         \A x \in verified : ~(x[1] = p /\ x[2] = s),
         \A x \in verified : pc' \in CompactPoints => x[1] # l'.target
  PROVE  CacheInv'
  <1> SUFFICES ASSUME NEW x \in verified PROVE Kept(x)'
    BY DEF CacheInv
  <1>1. Kept(x) /\ x[1] \in Page /\ x[2] \in Slot
    BY DEF CacheInv, Kept, DataPages, Place
  <1>2. cell'[x[1]][x[2]] = cell[x[1]][x[2]]
    BY <1>1, ProgramChanges
  <1> QED BY <1>1, <1>2 DEF Kept, Fronted, DataPages, CellAt, IsHeader

\* What looks through the flash remembers what it has checked.
LEMMA LookRemembered ==
  ASSUME IInv, FrontInv, CacheInv,
         LookUpNamespace \/ LookUpOld \/ LookUpBoth \/ LookUpChunk \/ Read
  PROVE  CacheInv'
  <1>0. FlashTypeOK /\ FrontFlash
    BY DEF IInv, FrontInv
  <1>1. \A f : Passed(Headers(bits), f) \subseteq Checked
    BY <1>0, PassedChecked
  <1>2. \A i, name : \A S \in CheckedFor(i, name) : S \subseteq Checked
    BY <1>0, CheckedForChecked
  <1>3. CASE LookUpNamespace
    <2>1. UNCHANGED flash /\ pc' \notin CompactPoints
      BY <1>3 DEF LookUpNamespace, PutBegin, Answer, Goto, CompactPoints
    <2>2. verified' \subseteq verified \cup Checked
      BY <1>1, <1>3 DEF LookUpNamespace, Remember
    <2> QED BY <1>0, <2>1, <2>2, LearnKept
  <1>4. CASE LookUpOld
    <2>1. UNCHANGED flash /\ pc' \notin CompactPoints
      BY <1>4 DEF LookUpOld, PutFindOld, Answer, Goto, CompactPoints
    <2>2. verified' \subseteq verified \cup Checked
      BY <1>1, <1>4 DEF LookUpOld, Remember
    <2> QED BY <1>0, <2>1, <2>2, LearnKept
  <1>5. CASE LookUpBoth
    <2>1. UNCHANGED flash /\ pc' \notin CompactPoints
      BY <1>5 DEF LookUpBoth, RemoveBegin, Retire, Answer, Goto, CompactPoints
    <2>2. verified' \subseteq verified \cup Checked
      BY <1>1, <1>5 DEF LookUpBoth, Remember
    <2> QED BY <1>0, <2>1, <2>2, LearnKept
  <1>6. CASE LookUpChunk
    <2>1. UNCHANGED flash /\ pc' \notin CompactPoints
      BY <1>6 DEF LookUpChunk, Sweep, Answer, Goto, CompactPoints
    <2>2. verified' \subseteq verified \cup Checked
      BY <1>1, <1>6 DEF LookUpChunk, Remember
    <2> QED BY <1>0, <2>1, <2>2, LearnKept
  <1>7. CASE Read
    <2>1. UNCHANGED flash /\ pc' \notin CompactPoints
      BY <1>7 DEF Read, vars, flash, CompactPoints
    <2>2. verified' \subseteq verified \cup Checked
      <3>1. PICK n \in Namespaces, name \in Names : ReadCached(n, name) \/ ReadScanning(n, name)
        BY <1>7 DEF Read
      <3>2. CASE ReadCached(n, name)
        BY <1>2, <3>2 DEF ReadCached, Remember
      <3>3. CASE ReadScanning(n, name)
        <4>1. PICK checked : /\ checked = {} \/ \E i : checked \in CheckedFor(i, name)
                             /\ Remember(Passed(Headers(bits), ScanNamespace(n)) \cup checked)
          BY <3>3 DEF ReadScanning
        <4> QED BY <1>1, <1>2, <4>1 DEF Remember
      <3> QED BY <3>1, <3>2, <3>3
    <2> QED BY <1>0, <2>1, <2>2, LearnKept
  <1> QED BY <1>3, <1>4, <1>5, <1>6, <1>7

\* The steps that leave the slots as they are, the start of a page excepted.
LEMMA StandingRemembered ==
  ASSUME IInv, CacheInv, UNCHANGED cache,
         \/ PageWithRoom \/ CheckRoom \/ ActivatePage \/ CopyDone \/ ChunkLoop \/ Fill \/ Scrub
         \/ Fault
  PROVE  CacheInv'
  <1>0. FlashTypeOK /\ Pages
    BY DEF IInv
  <1>1. \/ UNCHANGED flash
        \/ \E p \in ActivePages : FillPage(p)
    BY <1>0 DEF PageWithRoom, CheckRoom, ActivatePage, CopyDone, ChunkLoop, Fill, Scrub, Fault,
       Compact, Deliver, Pages, Reserved, WritePoints, Answer
  <1>2. UNCHANGED <<bits, cell>> /\ DataPages' = DataPages
    BY <1>0, <1>1, FillEffect DEF flash, DataPages
  <1>3. \A x \in verified : pc' \in CompactPoints => x[1] # l'.target
    <2>1. CASE CopyDone
      BY <2>1 DEF CopyDone, CacheInv, CompactPoints
    <2>2. CASE \/ PageWithRoom \/ CheckRoom \/ ActivatePage \/ ChunkLoop \/ Fill \/ Scrub \/ Fault
      BY <2>2 DEF PageWithRoom, CheckRoom, ActivatePage, ChunkLoop, Fill, Scrub, Fault, Compact,
         Deliver, Fail, Answer, Goto, CompactPoints
    <2> QED BY <2>1, <2>2
  <1> QED BY <1>2, <1>3, StillRemembered DEF cache

\* The steps that mark a slot.
LEMMA MarkStepRemembered ==
  ASSUME IInv, CacheInv, UNCHANGED cache, CopyMark \/ DataMark \/ EntryMark \/ EraseMark
  PROVE  CacheInv'
  <1>0. FlashTypeOK /\ CallState /\ UNCHANGED verified
    BY DEF IInv, cache
  <1>1. CASE CopyMark
    <2>1. pc = "copymark" /\ UNCHANGED <<hdr, cell>> /\ Mark(l.target, l.to + l.k, "written")
          /\ l'.target = l.target
      BY <1>0, <1>1 DEF CopyMark, CallState, Locals
    <2> QED BY <1>0, <2>1, MarkRemembered DEF CacheInv, CompactPoints
  <1>2. CASE DataMark
    <2>1. UNCHANGED <<hdr, cell>> /\ Mark(l.at[1], l.at[2] + 1 + l.k, "written")
          /\ pc' \notin CompactPoints
      BY <1>2 DEF DataMark, Goto, CompactPoints
    <2> QED BY <1>0, <2>1, MarkRemembered
  <1>3. CASE EntryMark
    <2>1. UNCHANGED <<hdr, cell>> /\ Mark(l.at[1], l.at[2], "written") /\ pc' \notin CompactPoints
      BY <1>3 DEF EntryMark, Retire, Goto, CompactPoints
    <2> QED BY <1>0, <2>1, MarkRemembered
  <1>4. CASE EraseMark
    <2>1. UNCHANGED <<hdr, cell>> /\ Mark(l.at[1], l.at[2] + l.k, "erased")
          /\ pc' \notin CompactPoints
      BY <1>4 DEF EraseMark, Goto, CompactPoints
    <2> QED BY <1>0, <2>1, MarkRemembered
  <1> QED BY <1>1, <1>2, <1>3, <1>4

\* The steps that program a slot: at or behind the first empty one of a page, or in the page
\* being filled.
LEMMA ProgramStepRemembered ==
  ASSUME IInv, FrontInv, CacheInv, UNCHANGED cache, CopyCell \/ DataWrite \/ EntryWrite
  PROVE  CacheInv'
  <1>0. FlashTypeOK /\ CallState /\ Pages /\ UNCHANGED verified
    BY DEF IInv, cache
  <1>1. CASE CopyCell
    <2>1. PICK c : ProgramCell(l.target, l.to + l.k, c)
      BY <1>1 DEF CopyCell
    <2>2. pc = "copy" /\ UNCHANGED <<hdr, bits>> /\ l'.target = l.target
      BY <1>0, <1>1 DEF CopyCell, CallState, Locals
    <2>3. \A x \in verified : x[1] # l.target
      BY <2>2 DEF CacheInv, CompactPoints
    <2> QED BY <1>0, <2>1, <2>2, <2>3, ProgramRemembered
  <1>2. CASE DataWrite
    <2>1. /\ pc = "data" /\ UNCHANGED <<hdr, bits>> /\ pc' \notin CompactPoints
          /\ ProgramCell(l.at[1], l.at[2] + 1 + l.k, Data(op.value, l.offset + l.k))
      BY <1>2 DEF DataWrite, Goto, CompactPoints
    <2>2. l.at \in Place /\ l.k \in Nat /\ FirstEmpty(l.at[1], l.at[2])
      BY <1>0, <2>1 DEF Pages, Reserved, WritePoints, CallState, Locals, FrontInv, FrontHand
    <2>3. ASSUME NEW x \in verified, x[1] = l.at[1] /\ x[2] = l.at[2] + 1 + l.k PROVE FALSE
      <3>1. l.at[2] \in Slot /\ l.at[2] \in Nat
        BY <2>2, SlotsAreNat DEF Place, SlotNat
      <3>2. l.at[2] < x[2]
        BY <2>2, <2>3, <3>1
      <3>3. bits[l.at[1]][l.at[2]] # "empty"
        BY <2>3, <3>1, <3>2 DEF CacheInv, Kept, Fronted
      <3> QED BY <2>2, <3>3 DEF FirstEmpty
    <2> QED BY <1>0, <2>1, <2>3, ProgramRemembered
  <1>3. CASE EntryWrite
    <2>1. /\ pc = "entry" /\ UNCHANGED <<hdr, bits>> /\ pc' \notin CompactPoints
          /\ ProgramCell(l.at[1], l.at[2], EntryCell)
      BY <1>3 DEF EntryWrite, Goto, CompactPoints
    <2>2. \A x \in verified : ~(x[1] = l.at[1] /\ x[2] = l.at[2])
      BY <2>1 DEF FrontInv, FrontHand, FirstEmpty, CacheInv, Kept
    <2> QED BY <1>0, <2>1, <2>2, ProgramRemembered
  <1> QED BY <1>1, <1>2, <1>3

\* A page is started: it was free, so nothing in it is remembered.
LEMMA StartRemembered ==
  ASSUME IInv, CacheInv, UNCHANGED cache, StartErase \/ StartHeader
  PROVE  CacheInv'
  <1>0. /\ FlashTypeOK /\ Pages /\ UNCHANGED verified
        /\ pc = "start" /\ l.target \in FreePages /\ l.target \in Page
    BY DEF IInv, cache, StartErase, StartHeader, Pages, Reserved, FreePages
  <1>1. \A x \in verified : x[1] \in Page /\ x[1] # l.target
    BY <1>0 DEF CacheInv, Kept, DataPages, FreePages
  <1>2. CASE StartErase
    <2>1. ErasePage(l.target) /\ UNCHANGED <<pc, l>>
      BY <1>2 DEF StartErase
    <2> SUFFICES ASSUME NEW x \in verified PROVE Kept(x)'
      BY <1>0, <2>1 DEF CacheInv, CompactPoints
    <2>2. Kept(x) /\ x[1] \in Page /\ x[1] # l.target
      BY <1>1 DEF CacheInv
    <2>3. bits'[x[1]] = bits[x[1]] /\ cell'[x[1]] = cell[x[1]] /\ x[1] \in DataPages'
      BY <1>0, <2>1, <2>2, EraseEffect DEF Kept
    <2> QED BY <2>2, <2>3 DEF Kept, Fronted, CellAt, IsHeader
  <1>3. CASE StartHeader
    <2>1. UNCHANGED <<bits, cell, l>> /\ DataPages \subseteq DataPages'
      BY <1>0, <1>3, StartEffect
    <2> QED BY <1>0, <1>1, <2>1, StillRemembered
  <1> QED BY <1>2, <1>3

\* Every step of the caching store is one of the store.
LEMMA CacheStepIsStep == [CacheNext]_<<vars, cache>> => [Next]_vars
  <1> SUFFICES ASSUME CacheNext PROVE [Next]_vars
    BY DEF vars, cache
  <1>1. CASE CachingWriter /\ UNCHANGED bound
    BY <1>1 DEF CachingWriter, Move, LookUpNamespace, LookUpOld, LookUpBoth, LookUpChunk, Writer, Next
  <1>2. CASE (\E c \in Calls : Open(c)) \/ (Crash /\ Forget) \/ (Fault /\ UNCHANGED cache) \/ Read
    BY <1>2 DEF Open, Read, Next
  <1> QED BY <1>1, <1>2 DEF CacheNext

\* The invariant of the caches is kept by every step.
LEMMA CacheInvKept == IInv /\ FrontInv /\ CacheInv /\ [CacheNext]_<<vars, cache>> => CacheInv'
  <1> SUFFICES ASSUME IInv, FrontInv, CacheInv, [CacheNext]_<<vars, cache>> PROVE CacheInv'
    OBVIOUS
  <1>1. CASE CachingWriter
    <2>1. CASE Reclaim /\ DropAfterErase
      BY <2>1, ForgetKept DEF DropAfterErase
    <2>2. CASE Move /\ UNCHANGED cache
      BY <2>2, StandingRemembered, MarkStepRemembered, ProgramStepRemembered, StartRemembered DEF Move
    <2> QED BY <1>1, <2>1, <2>2, LookRemembered DEF CachingWriter
  <1>2. CASE \E c \in Calls : Open(c)
    <2>1. PICK c \in Calls : Open(c)
      BY <1>2
    <2>2. UNCHANGED <<bits, cell>> /\ DataPages' = DataPages /\ pc' \notin CompactPoints
      BY <2>1 DEF Open, Call, flash, DataPages, Goto, CompactPoints
    <2>3. CASE UNCHANGED verified
      BY <2>2, <2>3, StillRemembered
    <2> QED BY <2>1, <2>3, ForgetKept DEF Open, cache
  <1>3. CASE Crash /\ Forget
    BY <1>3, ForgetKept
  <1>4. CASE Fault /\ UNCHANGED cache
    BY <1>4, StandingRemembered
  <1>5. CASE Read
    BY <1>5, LookRemembered
  <1>6. CASE UNCHANGED <<vars, cache>>
    BY <1>6 DEF vars, flash, cache, CacheInv, Kept, Fronted, DataPages, CellAt, IsHeader
  <1> QED BY <1>1, <1>2, <1>3, <1>4, <1>5, <1>6 DEF CacheNext

\* What is remembered stands, from a partition in order on: with every size, any calls, reads
\* between them, power cuts and failed operations at every point.  So a check left out because
\* its header is remembered would pass (nvs.rs:376-387).
THEOREM HeadersStand == CacheSpec /\ FrontFlash => []RememberedStands
  <1>1. CacheInit => Init /\ CacheInv
    BY DEF CacheInit, CacheInv
  <1>2. CacheSpec => Spec
    BY <1>1, CacheStepIsStep, PTL DEF CacheSpec, Spec
  <1>3. CacheInv => RememberedStands
    BY DEF CacheInv, Kept, RememberedStands
  <1> QED BY <1>1, <1>2, <1>3, CacheInvKept, InductiveInvariant, FrontAlways, PTL DEF CacheSpec
=============================================================================
