----------------------------- MODULE NvsProofs -----------------------------
(***************************************************************************)
(* What holds of the NVS writer (module Nvs) for every partition size,     *)
(* every key and value, every image the partition starts from, and every   *)
(* number of calls, power cuts and failed flash operations.                *)
(*                                                                         *)
(* TypeOK and PageDiscipline are not inductive: the write that a step makes *)
(* goes to a page an earlier step chose.  IInv adds what holds between the *)
(* two: which call stands where (Routing), which page that call has in its *)
(* hands and in what state the page still is (Reserved), and how far a     *)
(* copy or a blob has come (Copying, Progress).                            *)
(***************************************************************************)
EXTENDS NvsSeam, TLAPS

\* where a put writes, where a put stands once it has begun, and where a page is compacted
WritePoints   == {"data", "datamark", "entry", "entrymark", "fill"}
PutPoints     == {"old", "chunk", "room", "check", "activate"} \cup WritePoints
CompactPoints == {"copy", "copymark", "reclaim"}

\* which calls stand at which points
Routing ==
  /\ pc \in PutPoints => op.call = "put"
  /\ pc = "start" /\ ~l.compacting => op.call = "put"
  /\ pc \in {"start"} \cup CompactPoints => op.call \in {"put", "scrub"}
  /\ pc = "scrub" => op.call = "scrub"
  /\ pc \in {"erasespan", "sweep"} => op.call \in {"put", "remove"} /\ l.outcome # "open"

\* a put under way has its namespace and never wrote past its value
Progress ==
  (op.call = "put" /\ pc \in PutPoints \cup {"start"} \cup CompactPoints) =>
    l.ns \in 1 .. MaxNamespaces /\ l.offset <= Size[op.value]

\* between calls nothing is in hand
Fresh == pc \in {"idle", "begin"} => l = NoLocals

\* the pages in hand: none is active when one is to be started; what is written goes to an
\* active page; what is compacted is full
Reserved ==
  /\ pc \in {"activate", "start"} => ActivePages = {}
  /\ pc = "start" => l.target \in FreePages
  /\ pc \in {"check"} \cup CompactPoints => l.target \in ActivePages
  /\ pc \in WritePoints => l.at \in Place /\ l.at[1] \in ActivePages
  /\ (pc \in CompactPoints \/ (pc = "start" /\ l.compacting)) =>
       l.victim \in Page /\ hdr[l.victim].state = "full"

\* a record being copied lies within its page, and no more of it was copied than it has
Copying ==
  /\ (pc = "start" /\ l.compacting) => l.k = 0
  /\ (pc = "copymark" \/ (pc = "copy" /\ l.k > 0)) =>
       l.from \in Slot /\ l.k < l.span /\ l.from + l.span <= Slots

\* the types of page headers and of the bounds
HeaderState == [state : PageStates, seq : Nat]
BoundType   == [calls : Nat, crashes : Nat, faults : Nat]

\* what holds of the call under way
CallState ==
  /\ pc \in Points /\ op \in Calls /\ result \in Results /\ l \in Locals
  /\ Routing /\ Progress /\ Fresh /\ Copying

\* what holds of the pages and of those in hand
Pages == hdr \in [Page -> HeaderState] /\ PageDiscipline /\ Reserved

\* the inductive invariant
IInv == FlashTypeOK /\ CallState /\ Pages /\ bound \in BoundType

----------------------------------------------------------------------------
\* A new page's sequence number is above that of every data page.
LEMMA NextSeqIsNew ==
  ASSUME hdr \in [Page -> [state : PageStates, seq : Nat]], NEW n \in NextSeqs
  PROVE  n \in Nat /\ \A q \in DataPages : hdr[q].seq < n
  BY DEF NextSeqs, DataPages

\* Marking full the page that is active leaves no active page.
LEMMA FillClosesTheActivePage ==
  ASSUME hdr \in [Page -> HeaderState], PageDiscipline, NEW p \in ActivePages, FillPage(p)
  PROVE  /\ hdr' \in [Page -> HeaderState]
         /\ PageDiscipline'
         /\ ActivePages' = {}
         /\ DataPages' = DataPages
  <1>1. \A q \in ActivePages : q = p
    BY DEF PageDiscipline, ActivePages, DataPages, HeaderState
  <1>2. p \in Page /\ hdr[p].state = "active" /\ hdr' = [hdr EXCEPT ![p].state = "full"]
    BY DEF ActivePages, FillPage, MarkFull
  <1>3. hdr' \in [Page -> HeaderState] /\ hdr'[p].state = "full" /\ hdr'[p].seq = hdr[p].seq
    BY <1>2 DEF HeaderState, PageStates
  <1>4. \A q \in Page : q # p => hdr'[q] = hdr[q]
    BY <1>2
  <1>5. DataPages' = DataPages /\ ActivePages' = {}
    BY <1>1, <1>2, <1>3, <1>4 DEF DataPages, ActivePages
  <1>6. PageDiscipline'
    BY <1>2, <1>3, <1>4, <1>5 DEF PageDiscipline, DataPages
  <1> QED BY <1>3, <1>5, <1>6

\* Erasing a page that is not active disturbs no other page.
LEMMA ErasingAPage ==
  ASSUME hdr \in [Page -> HeaderState], PageDiscipline, NEW p \in Page, ErasePage(p)
  PROVE  /\ hdr' \in [Page -> HeaderState]
         /\ PageDiscipline'
         /\ DataPages' = DataPages \ {p}
         /\ ActivePages' = ActivePages \ {p}
         /\ hdr'[p].state = "uninit"
         /\ \A q \in Page : q # p => hdr'[q] = hdr[q]
  <1>1. hdr' = [hdr EXCEPT ![p] = ErasedHeader]
    BY DEF ErasePage
  <1>2. /\ hdr' \in [Page -> HeaderState]
        /\ hdr'[p].state = "uninit"
        /\ \A q \in Page : q # p => hdr'[q] = hdr[q]
    BY <1>1 DEF HeaderState, PageStates, ErasedHeader
  <1>3. DataPages' = DataPages \ {p} /\ ActivePages' = ActivePages \ {p}
    BY <1>2 DEF DataPages, ActivePages
  <1>4. PageDiscipline'
    BY <1>2, <1>3 DEF PageDiscipline, DataPages, ActivePages
  <1> QED BY <1>2, <1>3, <1>4

\* A free page given the next sequence number is the newest data page.
LEMMA StartingAPage ==
  ASSUME hdr \in [Page -> HeaderState], PageDiscipline, ActivePages = {},
         NEW p \in FreePages, NEW n \in NextSeqs,
         hdr' = [hdr EXCEPT ![p] = [state |-> "active", seq |-> n]]
  PROVE  /\ hdr' \in [Page -> HeaderState]
         /\ PageDiscipline'
         /\ p \in ActivePages'
         /\ \A q \in Page : q # p => hdr'[q] = hdr[q]
  <1>1. n \in Nat /\ \A q \in DataPages : hdr[q].seq < n
    BY NextSeqIsNew DEF HeaderState
  <1>2. /\ p \in Page /\ p \notin DataPages
        /\ hdr' \in [Page -> HeaderState]
        /\ hdr'[p].state = "active" /\ hdr'[p].seq = n
        /\ \A q \in Page : q # p => hdr'[q] = hdr[q]
    BY <1>1 DEF HeaderState, PageStates, FreePages
  <1>3. DataPages' = DataPages \cup {p} /\ ActivePages' = {p}
    BY <1>2 DEF DataPages, ActivePages
  <1>4. PageDiscipline'
    <2>1. \A q \in DataPages : q # p /\ hdr'[q] = hdr[q] /\ hdr[q].seq \in Nat
      BY <1>2 DEF DataPages, HeaderState
    <2> QED BY <1>1, <1>2, <1>3, <2>1 DEF PageDiscipline
  <1> QED BY <1>2, <1>3, <1>4

\* Handing the writer a slot of the active page leaves the pages as they are.
LEMMA DeliverKeepsPages ==
  ASSUME Pages, l \in Locals, NEW p \in ActivePages, Deliver(p)
  PROVE  Pages'
  <1>1. PICK s \in Slot : /\ l' = [l EXCEPT !.at = <<p, s>>, !.k = 0]
                          /\ pc' \in {"data", "entry"}
                          /\ UNCHANGED flash
    BY DEF Deliver, Goto
  <1>2. hdr' = hdr /\ DataPages' = DataPages /\ ActivePages' = ActivePages /\ FreePages' = FreePages
    BY <1>1 DEF flash, DataPages, ActivePages, FreePages
  <1>3. l'.at = <<p, s>> /\ p \in Page
    BY <1>1 DEF Locals, ActivePages
  <1> QED BY <1>1, <1>2, <1>3 DEF Pages, PageDiscipline, Reserved, WritePoints, CompactPoints, Place

\* A step that leaves the headers alone and goes where no page is spoken for.
LEMMA ElsewhereKeepsPages ==
  ASSUME Pages, UNCHANGED hdr,
         pc' \in {"idle", "begin", "old", "chunk", "room", "erasespan", "sweep", "scrub"}
  PROVE  Pages'
  <1>1. DataPages' = DataPages /\ ActivePages' = ActivePages /\ FreePages' = FreePages
    BY DEF DataPages, ActivePages, FreePages
  <1> QED BY <1>1 DEF Pages, PageDiscipline, Reserved, WritePoints, CompactPoints

\* A call that gives up holds no page.
LEMMA FailKeepsPages ==
  ASSUME Pages, UNCHANGED hdr, NEW e, Fail(e)
  PROVE  Pages'
  BY ElsewhereKeepsPages DEF Fail, Answer, Goto

\* Compaction starts with no page active and takes the reserve and a full page in hand.
LEMMA CompactKeepsPages ==
  ASSUME Pages, l \in Locals, ActivePages = {}, NEW t \in FreePages, NEW n \in 0 .. 2, Compact(t, n)
  PROVE  Pages'
  <1>1. PICK v \in Page :
          /\ IsVictim(v)
          /\ l' = [l EXCEPT !.target = t, !.compacting = TRUE, !.victim = v,
                            !.from = 0, !.to = 0, !.k = 0, !.tries = n]
          /\ pc' = "start" /\ UNCHANGED flash
    BY DEF Compact, Goto
  <1>2. hdr' = hdr /\ DataPages' = DataPages /\ ActivePages' = ActivePages /\ FreePages' = FreePages
    BY <1>1 DEF flash, DataPages, ActivePages, FreePages
  <1>3. l'.target = t /\ l'.victim = v
    BY <1>1 DEF Locals
  <1>4. hdr[v].state = "full"
    BY <1>1 DEF IsVictim, Victims
  <1> QED BY <1>1, <1>2, <1>3, <1>4 DEF Pages, PageDiscipline, Reserved, WritePoints, CompactPoints

\* Going on to erase a replaced value takes no page in hand.
LEMMA RetireKeepsPages ==
  ASSUME Pages, UNCHANGED hdr, NEW i, NEW x, NEW e, Retire(i, x, e)
  PROVE  Pages'
  BY ElsewhereKeepsPages DEF Retire, Goto

\* No step of the writer disturbs the order of the pages.
LEMMA WriterKeepsPages ==
  ASSUME Pages, l \in Locals, Writer
  PROVE  Pages'
<1> USE DEF Goto
<1>1. CASE PutBegin
  BY <1>1, ElsewhereKeepsPages DEF PutBegin, Answer, flash
<1>2. CASE PutFindOld
  BY <1>2, ElsewhereKeepsPages DEF PutFindOld, Answer, flash
<1>3. CASE RemoveBegin
  BY <1>3, ElsewhereKeepsPages, RetireKeepsPages DEF RemoveBegin, Answer, Retire, flash
<1>4. CASE PageWithRoom
  <2>1. CASE \E p \in ActivePages : Deliver(p)
    BY <2>1, DeliverKeepsPages
  <2>2. CASE \E p \in ActivePages : FillPage(p) /\ pc' = "activate"
    BY <2>2, FillClosesTheActivePage DEF Pages, Reserved, WritePoints, CompactPoints
  <2>3. CASE ActivePages = {} /\ pc' = "activate" /\ UNCHANGED flash
    BY <2>3 DEF flash, Pages, PageDiscipline, Reserved, WritePoints, CompactPoints, DataPages, ActivePages
  <2> QED BY <1>4, <2>1, <2>2, <2>3 DEF PageWithRoom
<1>5. CASE CheckRoom
  <2>1. l.target \in ActivePages
    BY <1>5 DEF CheckRoom, Pages, Reserved
  <2>2. CASE Deliver(l.target)
    BY <2>1, <2>2, DeliverKeepsPages
  <2>3. CASE FillPage(l.target) /\ pc' = "activate"
    BY <2>1, <2>3, FillClosesTheActivePage DEF Pages, Reserved, WritePoints, CompactPoints
  <2> QED BY <1>5, <2>2, <2>3 DEF CheckRoom
<1>6. CASE ActivatePage
  <2>1. ActivePages = {}
    BY <1>6 DEF ActivatePage, Pages, Reserved
  <2>2. CASE Fail("BufferTooSmall") /\ UNCHANGED flash
    BY <2>2, FailKeepsPages DEF flash
  <2>3. CASE l.tries > 0 /\ \E t \in FreePages : Compact(t, l.tries - 1)
    <3>1. l.tries - 1 \in 0 .. 2
      BY <2>3 DEF Locals
    <3> QED BY <2>1, <2>3, <3>1, CompactKeepsPages
  <2>4. CASE /\ \E t \in FreePages :
                  l' = [l EXCEPT !.target = t, !.compacting = FALSE, !.tries = @ - 1]
             /\ pc' = "start" /\ UNCHANGED flash
    <3>1. l'.target \in FreePages /\ l'.compacting = FALSE
      BY <2>4 DEF Locals
    <3> QED BY <2>1, <2>4, <3>1 DEF flash, Pages, PageDiscipline, Reserved, WritePoints, CompactPoints,
                                    DataPages, ActivePages, FreePages
  <2> QED BY <1>6, <2>2, <2>3, <2>4 DEF ActivatePage
<1>7. CASE StartErase
  <2>1. /\ pc = "start" /\ pc' = pc /\ l' = l
        /\ l.target \in FreePages /\ ActivePages = {}
        /\ ErasePage(l.target)
    BY <1>7 DEF StartErase, Pages, Reserved
  <2>2. l.target \in Page /\ DataPages' = DataPages /\ ActivePages' = {} /\ FreePages' = FreePages
    BY <2>1, ErasingAPage DEF Pages, FreePages
  <2>3. l.compacting => l.victim \in Page /\ hdr'[l.victim].state = "full"
    BY <2>1, <2>2, ErasingAPage DEF Pages, Reserved, FreePages, DataPages
  <2> QED BY <2>1, <2>2, <2>3, ErasingAPage DEF Pages, Reserved, WritePoints, CompactPoints
<1>8. CASE StartHeader
  <2>1. /\ pc = "start" /\ l' = l
        /\ l.target \in FreePages /\ ActivePages = {}
        /\ \E n \in NextSeqs : hdr' = [hdr EXCEPT ![l.target] = [state |-> "active", seq |-> n]]
        /\ pc' = IF l.compacting THEN "copy" ELSE "check"
    BY <1>8 DEF StartHeader, Pages, Reserved
  <2>2. /\ hdr' \in [Page -> HeaderState] /\ PageDiscipline'
        /\ l.target \in ActivePages'
        /\ \A q \in Page : q # l.target => hdr'[q] = hdr[q]
    BY <2>1, StartingAPage DEF Pages
  <2>3. l.compacting => l.victim \in Page /\ hdr'[l.victim].state = "full"
    BY <2>1, <2>2 DEF Pages, Reserved, FreePages, DataPages
  <2> QED BY <2>1, <2>2, <2>3 DEF Pages, Reserved, WritePoints, CompactPoints
<1>9. CASE CopyCell
  <2>1. /\ pc = "copy" /\ pc' = "copymark" /\ UNCHANGED hdr
        /\ l'.target = l.target /\ l'.victim = l.victim
    BY <1>9 DEF CopyCell, Locals
  <2> QED BY <2>1 DEF Pages, PageDiscipline, Reserved, WritePoints, CompactPoints, DataPages, ActivePages
<1>10. CASE CopyMark
  <2>1. /\ pc = "copymark" /\ pc' = "copy" /\ UNCHANGED hdr
        /\ l'.target = l.target /\ l'.victim = l.victim
    BY <1>10 DEF CopyMark, Locals
  <2> QED BY <2>1 DEF Pages, PageDiscipline, Reserved, WritePoints, CompactPoints, DataPages, ActivePages
<1>11. CASE CopyDone
  BY <1>11 DEF CopyDone, flash, Pages, PageDiscipline, Reserved, WritePoints, CompactPoints,
               DataPages, ActivePages
<1>12. CASE Reclaim
  <2>1. /\ pc = "reclaim" /\ l' = l /\ pc' \in {"scrub", "check"}
        /\ l.target \in ActivePages /\ l.victim \in Page /\ hdr[l.victim].state = "full"
        /\ ErasePage(l.victim)
    BY <1>12 DEF Reclaim, Pages, Reserved, CompactPoints
  <2>2. l.target \in ActivePages'
    BY <2>1, ErasingAPage DEF Pages, ActivePages
  <2> QED BY <2>1, <2>2, ErasingAPage DEF Pages, Reserved, WritePoints, CompactPoints
<1>13. CASE ChunkLoop
  BY <1>13, ElsewhereKeepsPages, FailKeepsPages DEF ChunkLoop, flash
<1>14. CASE DataWrite
  BY <1>14 DEF DataWrite, Pages, PageDiscipline, Reserved, WritePoints, CompactPoints,
               DataPages, ActivePages
<1>15. CASE DataMark
  <2>1. pc = "datamark" /\ pc' \in {"data", "entry"} /\ UNCHANGED hdr /\ l'.at = l.at
    BY <1>15 DEF DataMark, Locals
  <2> QED BY <2>1 DEF Pages, PageDiscipline, Reserved, WritePoints, CompactPoints, DataPages, ActivePages
<1>16. CASE EntryWrite
  BY <1>16 DEF EntryWrite, Pages, PageDiscipline, Reserved, WritePoints, CompactPoints,
               DataPages, ActivePages
<1>17. CASE EntryMark
  <2>1. pc = "entrymark" /\ UNCHANGED hdr
    BY <1>17 DEF EntryMark
  <2>2. CASE pc' = "fill" /\ l'.at = l.at
    BY <2>1, <2>2 DEF Pages, PageDiscipline, Reserved, WritePoints, CompactPoints, DataPages, ActivePages
  <2>3. CASE pc' \in {"old", "room", "sweep", "erasespan"}
    BY <2>1, <2>3, ElsewhereKeepsPages
  <2> QED BY <1>17, <2>2, <2>3 DEF EntryMark, Retire, Locals
<1>18. CASE Fill
  BY <1>18, FillClosesTheActivePage DEF Fill, Pages, Reserved, WritePoints, CompactPoints
<1>19. CASE EraseMark
  BY <1>19, ElsewhereKeepsPages DEF EraseMark
<1>20. CASE Sweep
  BY <1>20, ElsewhereKeepsPages DEF Sweep, Answer, flash
<1>21. CASE Scrub
  <2>1. CASE Answer("Ok") /\ UNCHANGED flash
    BY <2>1, ElsewhereKeepsPages DEF Answer, flash
  <2>2. CASE pc = "scrub" /\ pc' = pc /\ \E p \in ActivePages : FillPage(p)
    BY <2>2, FillClosesTheActivePage DEF Pages, Reserved, WritePoints, CompactPoints
  <2>3. CASE Answer("BufferTooSmall") /\ UNCHANGED flash
    BY <2>3, ElsewhereKeepsPages DEF Answer, flash
  <2>4. CASE ActivePages = {} /\ \E t \in Page : IsFirstFree(t) /\ Compact(t, 0)
    BY <2>4, CompactKeepsPages DEF IsFirstFree
  <2> QED BY <1>21, <2>1, <2>2, <2>3, <2>4 DEF Scrub
<1> QED BY <1>1, <1>2, <1>3, <1>4, <1>5, <1>6, <1>7, <1>8, <1>9, <1>10, <1>11, <1>12, <1>13,
           <1>14, <1>15, <1>16, <1>17, <1>18, <1>19, <1>20, <1>21 DEF Writer

----------------------------------------------------------------------------
(***************************************************************************)
(* Types: the flash.                                                       *)
(***************************************************************************)
\* The fields of a cell, by its kind.
LEMMA CellFields ==
  ASSUME NEW c \in Cell
  PROVE  /\ c.kind = "ns"     => c.index \in 1 .. MaxNamespaces
         /\ c.kind = "chunk"  => c.size \in Nat
         /\ c.kind = "single" => c.size \in Nat
         /\ c.kind = "idx"    => c.start \in {0, 1} /\ c.count \in Nat
         /\ SpanOf(c) \in Nat \ {0}
  BY DEF Cell, Blank, Garbage, NamespaceCells, ChunkCells, IndexCells, SingleCells, DataCells, SpanOf

\* Programming, marking, erasing and filling write what the flash may hold.
LEMMA ProgramKeepsType ==
  ASSUME cell \in [Page -> [Slot -> Cell]], NEW p, NEW s, NEW c \in Cell, ProgramCell(p, s, c)
  PROVE  cell' \in [Page -> [Slot -> Cell]]
  BY DEF ProgramCell, Cell

\* Marking an entry writes one of the entry states.
LEMMA MarkKeepsType ==
  ASSUME bits \in [Page -> [Slot -> EntryStates]], NEW p, NEW s, NEW state \in EntryStates,
         Mark(p, s, state)
  PROVE  bits' \in [Page -> [Slot -> EntryStates]]
  BY DEF Mark

\* An erased page is typed.
LEMMA EraseKeepsType ==
  ASSUME FlashTypeOK, NEW p, ErasePage(p)
  PROVE  FlashTypeOK'
  BY DEF FlashTypeOK, ErasePage, ErasedHeader, ErasedBits, ErasedCells, PageStates, EntryStates, Cell

\* Marking a page full keeps the flash typed.
LEMMA FillKeepsType ==
  ASSUME FlashTypeOK, NEW p \in Page, FillPage(p)
  PROVE  FlashTypeOK'
  BY DEF FlashTypeOK, FillPage, MarkFull, PageStates

(***************************************************************************)
(* What the lookups answer.                                                *)
(***************************************************************************)
\* What a scan visits.
LEMMA HeadersAreVisits == ASSUME NEW b PROVE Headers(b) \in Visits
  BY DEF Headers, Visits

\* A lookup that finds finds one of the headers it looks for.
LEMMA FirstOfIsWanted ==
  ASSUME NEW hs \in Visits, NEW wanted \in Visits, FirstOf[hs][wanted].status = "found"
  PROVE  \E x \in wanted : FirstOf[hs][wanted] = Found(x)
  <1> DEFINE first == Earliest[{x \in hs : x \in wanted \/ ~IsHeader(CellAt(x))}]
  <1>1. FirstOf[hs][wanted] = IF first = {} THEN Absent
                              ELSE IF first \subseteq wanted THEN Found(CHOOSE x \in first : TRUE)
                              ELSE Failed
    BY DEF FirstOf
  <1> HIDE DEF first
  <1>2. first # {} /\ first \subseteq wanted
    BY <1>1 DEF Absent, Failed
  <1>3. FirstOf[hs][wanted] = Found(CHOOSE x \in first : TRUE)
    BY <1>1, <1>2
  <1>4. (CHOOSE x \in first : TRUE) \in wanted
    BY <1>2
  <1> QED BY <1>3, <1>4

\* What each lookup finds lies in the partition and is a cell of the kind looked for.
LEMMA NamespaceFound ==
  ASSUME NEW hs \in Visits, NEW n \in Namespaces, FindNamespace[hs][n].status = "found"
  PROVE  \E x \in Place : FindNamespace[hs][n] = Found(x) /\ CellAt(x).kind = "ns"
  <1> DEFINE wanted == {x \in hs : CellAt(x).kind = "ns" /\ CellAt(x).name = n}
  <1>1. wanted \in Visits
    BY DEF Visits
  <1>2. FindNamespace[hs][n] = FirstOf[hs][wanted]
    BY DEF FindNamespace
  <1>3. PICK x \in wanted : FirstOf[hs][wanted] = Found(x)
    BY <1>1, <1>2, FirstOfIsWanted
  <1> QED BY <1>2, <1>3 DEF Visits

\* A lookup of an entry that is not a chunk finds one of the headers visited.
LEMMA NotChunkFound ==
  ASSUME NEW hs \in Visits, NEW k \in Nat \X Names, FindNotChunk[hs][k].status = "found"
  PROVE  \E x \in Place : FindNotChunk[hs][k] = Found(x) /\ x \in hs /\ IsHeader(CellAt(x))
  <1> DEFINE wanted == {x \in hs : CellAt(x).kind \in {"idx", "single"}
                                   /\ <<CellAt(x).ns, CellAt(x).name>> = k}
  <1>1. wanted \in Visits
    BY DEF Visits
  <1>2. FindNotChunk[hs][k] = FirstOf[hs][wanted]
    BY DEF FindNotChunk
  <1>3. PICK x \in wanted : FirstOf[hs][wanted] = Found(x)
    BY <1>1, <1>2, FirstOfIsWanted
  <1> QED BY <1>2, <1>3 DEF Visits, IsHeader

\* A lookup of a chunk finds one of the headers visited.
LEMMA ChunkFound ==
  ASSUME NEW hs \in Visits, NEW k \in Nat \X Names, NEW c \in {0, 1} \X Nat, FindChunk[hs][k][c].status = "found"
  PROVE  \E x \in Place : FindChunk[hs][k][c] = Found(x) /\ x \in hs /\ IsHeader(CellAt(x))
  <1> DEFINE wanted == {x \in hs : CellAt(x).kind = "chunk"
                                   /\ <<CellAt(x).ns, CellAt(x).name>> = k
                                   /\ <<CellAt(x).start, CellAt(x).number>> = c}
  <1>1. wanted \in Visits
    BY DEF Visits
  <1>2. FindChunk[hs][k][c] = FirstOf[hs][wanted]
    BY DEF FindChunk
  <1>3. PICK x \in wanted : FirstOf[hs][wanted] = Found(x)
    BY <1>1, <1>2, FirstOfIsWanted
  <1> QED BY <1>2, <1>3 DEF Visits, IsHeader

\* The place a lookup returns is the one it found.
LEMMA FoundPlace == ASSUME NEW x PROVE Found(x).place = x /\ Found(x).status = "found"
  BY DEF Found

\* A place in the partition holds a cell.
LEMMA PlaceCell ==
  ASSUME FlashTypeOK, NEW x \in Place
  PROVE  CellAt(x) \in Cell /\ x \in (0 .. NPages) \X (0 .. Slots)
  BY FormatAssumption DEF FlashTypeOK, Place, CellAt, Page, Slot

(***************************************************************************)
(* Types and control: the call.                                            *)
(***************************************************************************)
\* What is in hand between calls is typed.
LEMMA NoLocalsTyped == NoLocals \in Locals
  BY FormatAssumption DEF NoLocals, Locals, Absent, Cell, Blank

\* A call that answers, or gives up with an error, leaves the writer idle.
LEMMA AnswerKeepsCall ==
  ASSUME CallState, NEW a \in Results, Answer(a)
  PROVE  CallState'
  BY NoLocalsTyped DEF CallState, Answer, Goto, Points, Routing, Progress, Fresh, Copying,
     PutPoints, WritePoints, CompactPoints

\* A put's fields; a remove has the name too.
LEMMA OpFields ==
  ASSUME op \in Calls
  PROVE  /\ op.call \in {"put", "remove", "scrub"}
         /\ op.call \in {"put", "remove"} => op.ns \in Namespaces /\ op.name \in Names
         /\ op.call = "put" => op.value \in Values /\ Size[op.value] \in Nat \ {0}
  BY FormatAssumption DEF Calls

\* A call that gives up with an error leaves the writer idle.
LEMMA FailKeepsCall ==
  ASSUME CallState, NEW e \in {"BufferTooSmall", "InvalidFormat", "Flash"}, Fail(e)
  PROVE  CallState'
  <1>1. CASE op.call = "put" /\ l.want # "ns" /\ l.outcome = "open"
    <2>1. /\ l' = [l EXCEPT !.outcome = e,
                            !.sweep = [start |-> l.start, count |-> l.written, done |-> 0]]
          /\ pc' = "sweep" /\ UNCHANGED <<op, result>>
      BY <1>1 DEF Fail, Goto, Keep
    <2>2. [l EXCEPT !.outcome = e] \in Locals
      BY DEF CallState, Locals
    <2>3. l' \in Locals /\ l'.outcome = e
      BY <2>1, <2>2 DEF CallState, Locals
    <2> QED BY <1>1, <2>1, <2>3 DEF CallState, Points, Routing, Progress, Fresh, Copying,
             PutPoints, WritePoints, CompactPoints
  <1>2. CASE ~(op.call = "put" /\ l.want # "ns" /\ l.outcome = "open")
    BY <1>2, AnswerKeepsCall DEF Fail, Results
  <1> QED BY <1>1, <1>2

\* Each step of the writer keeps the flash typed and the call in a state that its point
\* allows: one lemma per action, in the order of the module Nvs.
LEMMA PutBeginKeepsTypes ==
  ASSUME FlashTypeOK, CallState, PutBegin
  PROVE  FlashTypeOK' /\ CallState'
  <1> DEFINE found == FindNamespace[Headers(bits)][op.ns]
  <1>1. UNCHANGED flash /\ op.call = "put" /\ pc = "begin"
    BY DEF PutBegin
  <1>2. FlashTypeOK'
    BY <1>1 DEF flash, FlashTypeOK
  <1>3. CASE found.status = "corrupt" /\ Answer("Corrupt")
    BY <1>2, <1>3, AnswerKeepsCall DEF Results
  <1>4. CASE Answer("BufferTooSmall")
    BY <1>2, <1>4, AnswerKeepsCall DEF Results
  <1>5. ASSUME NEW i \in 1 .. MaxNamespaces, l' = [l EXCEPT !.ns = i],
               pc' \in {"old", "room"}, UNCHANGED <<op, result>>
        PROVE  CallState'
    <2>1. l' \in Locals /\ l'.ns = i /\ l'.offset = l.offset
      BY <1>5, FormatAssumption DEF CallState, Locals
    <2>2. l.offset = 0 /\ Size[op.value] \in Nat
      BY <1>1, OpFields DEF CallState, Fresh, NoLocals
    <2> QED BY <1>1, <1>5, <2>1, <2>2 DEF CallState, Points, Routing, Progress, Fresh, Copying,
             PutPoints, WritePoints, CompactPoints
  <1>6. CASE /\ found.status = "found" /\ l' = [l EXCEPT !.ns = CellAt(found.place).index]
             /\ pc' = "old" /\ UNCHANGED <<op, result>>
    <2>1. CellAt(found.place).index \in 1 .. MaxNamespaces
      <3>1. PICK x \in Place : found = Found(x) /\ CellAt(x).kind = "ns"
        BY <1>1, <1>6, NamespaceFound, HeadersAreVisits, OpFields DEF CallState
      <3> QED BY <3>1, FoundPlace, PlaceCell, CellFields
    <2> QED BY <1>2, <1>5, <1>6, <2>1
  <1>7. CASE /\ \E i \in FreeIndices(Headers(bits)) : l' = [l EXCEPT !.ns = i]
             /\ pc' = "room" /\ UNCHANGED <<op, result>>
    BY <1>2, <1>5, <1>7 DEF FreeIndices
  <1> HIDE DEF found
  <1> QED BY <1>3, <1>4, <1>6, <1>7 DEF PutBegin, Goto, Keep, found

\* Looking for the value to replace keeps the flash and the call typed.
LEMMA PutFindOldKeepsTypes ==
  ASSUME FlashTypeOK, CallState, PutFindOld
  PROVE  FlashTypeOK' /\ CallState'
  <1> DEFINE old == FindNotChunk[Headers(bits)][<<l.ns, op.name>>]
             e   == CellAt(old.place)
  <1>1. UNCHANGED flash /\ op.call = "put" /\ pc = "old"
    BY DEF PutFindOld, CallState, Routing, PutPoints
  <1>2. FlashTypeOK'
    BY <1>1 DEF flash, FlashTypeOK
  <1>3. CASE Answer("Corrupt")
    BY <1>2, <1>3, AnswerKeepsCall DEF Results
  <1>4. CASE pc' = "chunk" /\ UNCHANGED <<op, result, l>>
    BY <1>1, <1>2, <1>4 DEF CallState, Points, Routing, Progress, Fresh, Copying,
       PutPoints, WritePoints, CompactPoints
  <1>5. CASE /\ old.status = "found" /\ pc' = "chunk" /\ UNCHANGED <<op, result>>
             /\ l' = [l EXCEPT !.old = old, !.oldCell = e,
                               !.start = IF e.kind = "idx" THEN 1 - e.start ELSE 0]
    <2>1. <<l.ns, op.name>> \in Nat \X Names
      BY <1>1, OpFields, FormatAssumption DEF CallState, Locals
    <2>2. PICK x \in Place : old = Found(x)
      BY <1>5, <2>1, NotChunkFound, HeadersAreVisits
    <2>3. e \in Cell /\ old.place \in (0 .. NPages) \X (0 .. Slots)
      BY <2>2, FoundPlace, PlaceCell
    <2>4. old \in [status : {"none", "found"}, place : (0 .. NPages) \X (0 .. Slots)]
      BY <2>2, <2>3 DEF Found
    <2>5. (IF e.kind = "idx" THEN 1 - e.start ELSE 0) \in {0, 1}
      BY <2>3, CellFields
    <2> HIDE DEF old, e
    <2>6. [l EXCEPT !.old = old] \in Locals
      BY <2>4 DEF CallState, Locals
    <2>7. [l EXCEPT !.old = old, !.oldCell = e] \in Locals
      BY <2>3, <2>6 DEF Locals
    <2>8. l' \in Locals /\ l'.ns = l.ns /\ l'.offset = l.offset
      BY <1>5, <2>5, <2>7 DEF CallState, Locals
    <2> QED BY <1>1, <1>2, <1>5, <2>8 DEF CallState, Points, Routing, Progress, Fresh, Copying,
             PutPoints, WritePoints, CompactPoints
  <1> HIDE DEF old, e
  <1> QED BY <1>3, <1>4, <1>5 DEF PutFindOld, Goto, Keep, old, e

\* Retiring an entry: its fields are typed if the entry is.
LEMMA RetireKeepsCall ==
  ASSUME CallState, op.call \in {"put", "remove"}, NEW i \in 0 .. MaxNamespaces,
         NEW x \in (0 .. NPages) \X (0 .. Slots), NEW e \in Cell, Retire(i, x, e)
  PROVE  CallState'
  <1> DEFINE sweep == IF e.kind = "idx" THEN [start |-> e.start, count |-> e.count, done |-> 0]
                      ELSE [start |-> 0, count |-> 0, done |-> 0]
  <1>1. /\ l' = [l EXCEPT !.ns = i, !.at = x, !.k = 0, !.span = SpanOf(e), !.outcome = "Ok",
                          !.sweep = sweep]
        /\ pc' = "erasespan" /\ UNCHANGED <<op, result>>
    BY DEF Retire, Goto, Keep
  <1>2. sweep \in [start : {0, 1}, count : Nat, done : Nat] /\ SpanOf(e) \in Nat
    BY CellFields
  <1> HIDE DEF sweep
  <1>3. [l EXCEPT !.ns = i] \in Locals
    BY DEF CallState, Locals
  <1>4. [l EXCEPT !.ns = i, !.at = x, !.k = 0] \in Locals
    BY <1>3 DEF Locals
  <1>5. [l EXCEPT !.ns = i, !.at = x, !.k = 0, !.span = SpanOf(e), !.outcome = "Ok"] \in Locals
    BY <1>2, <1>4 DEF Locals
  <1>6. l' \in Locals /\ l'.outcome = "Ok"
    BY <1>1, <1>2, <1>5 DEF CallState, Locals
  <1> QED BY <1>1, <1>6 DEF CallState, Points, Routing, Progress, Fresh, Copying,
           PutPoints, WritePoints, CompactPoints

\* Looking for the key to remove keeps the flash and the call typed.
LEMMA RemoveBeginKeepsTypes ==
  ASSUME FlashTypeOK, CallState, RemoveBegin
  PROVE  FlashTypeOK' /\ CallState'
  <1> DEFINE found == FindNamespace[Headers(bits)][op.ns]
             i     == CellAt(found.place).index
             x     == FindNotChunk[Headers(bits)][<<i, op.name>>]
  <1>1. UNCHANGED flash /\ op.call = "remove" /\ pc = "begin"
    BY DEF RemoveBegin
  <1>2. FlashTypeOK'
    BY <1>1 DEF flash, FlashTypeOK
  <1>3. CASE \E a \in {"Corrupt", "Absent"} : Answer(a)
    BY <1>2, <1>3, AnswerKeepsCall DEF Results
  <1>4. CASE found.status = "found" /\ x.status = "found" /\ Retire(i, x.place, CellAt(x.place))
    <2>1. i \in 1 .. MaxNamespaces
      <3>1. PICK y \in Place : found = Found(y) /\ CellAt(y).kind = "ns"
        BY <1>1, <1>4, NamespaceFound, HeadersAreVisits, OpFields DEF CallState
      <3> QED BY <3>1, FoundPlace, PlaceCell, CellFields
    <2> HIDE DEF i
    <2>2. i \in 0 .. MaxNamespaces /\ <<i, op.name>> \in Nat \X Names
      BY <1>1, <2>1, OpFields, FormatAssumption DEF CallState
    <2>3. PICK y \in Place : x = Found(y)
      BY <1>4, <2>2, NotChunkFound, HeadersAreVisits
    <2> HIDE DEF x
    <2>4. CellAt(x.place) \in Cell /\ x.place \in (0 .. NPages) \X (0 .. Slots)
      BY <2>3, FoundPlace, PlaceCell
    <2> QED BY <1>1, <1>2, <1>4, <2>2, <2>4, RetireKeepsCall
  <1> HIDE DEF found, i, x
  <1> QED BY <1>3, <1>4 DEF RemoveBegin, found, i, x

\* Handing out a slot keeps the flash and the call typed.
LEMMA DeliverKeepsTypes ==
  ASSUME FlashTypeOK, CallState, pc \in {"room", "check"}, NEW p \in Page, Deliver(p)
  PROVE  FlashTypeOK' /\ CallState'
  <1>1. PICK s \in Slot : /\ l' = [l EXCEPT !.at = <<p, s>>, !.k = 0]
                          /\ pc' \in {"data", "entry"} /\ UNCHANGED <<op, result>>
                          /\ UNCHANGED flash
    BY DEF Deliver, Goto, Keep
  <1>2. FlashTypeOK'
    BY <1>1 DEF flash, FlashTypeOK
  <1>3. <<p, s>> \in (0 .. NPages) \X (0 .. Slots)
    BY FormatAssumption DEF Page, Slot
  <1>4. [l EXCEPT !.at = <<p, s>>] \in Locals
    BY <1>3 DEF CallState, Locals
  <1>5. l' \in Locals /\ l'.ns = l.ns /\ l'.offset = l.offset
    BY <1>1, <1>4 DEF CallState, Locals
  <1> QED BY <1>1, <1>2, <1>5 DEF CallState, Points, Routing, Progress, Fresh, Copying,
           PutPoints, WritePoints, CompactPoints

\* Looking for room in the active page keeps the flash and the call typed.
LEMMA PageWithRoomKeepsTypes ==
  ASSUME FlashTypeOK, CallState, PageWithRoom
  PROVE  FlashTypeOK' /\ CallState'
  <1>1. pc = "room"
    BY DEF PageWithRoom
  <1>2. CASE \E p \in ActivePages : Deliver(p)
    BY <1>1, <1>2, DeliverKeepsTypes DEF ActivePages
  <1>3. CASE /\ l' = [l EXCEPT !.tries = 2] /\ pc' = "activate" /\ UNCHANGED <<op, result>>
             /\ UNCHANGED flash \/ \E p \in ActivePages : FillPage(p)
    <2>1. l' \in Locals /\ l'.ns = l.ns /\ l'.offset = l.offset
      BY <1>3 DEF CallState, Locals
    <2>2. FlashTypeOK'
      BY <1>3, FillKeepsType DEF flash, FlashTypeOK, ActivePages
    <2> QED BY <1>1, <1>3, <2>1, <2>2 DEF CallState, Points, Routing, Progress, Fresh, Copying,
             PutPoints, WritePoints, CompactPoints
  <1> QED BY <1>2, <1>3 DEF PageWithRoom, Goto, Keep

\* Checking the compacted page for room keeps the flash and the call typed.
LEMMA CheckRoomKeepsTypes ==
  ASSUME FlashTypeOK, CallState, Reserved, CheckRoom
  PROVE  FlashTypeOK' /\ CallState'
  <1>1. pc = "check" /\ l.target \in Page
    BY DEF CheckRoom, Reserved, ActivePages
  <1>2. CASE Deliver(l.target)
    BY <1>1, <1>2, DeliverKeepsTypes
  <1>3. CASE FillPage(l.target) /\ pc' = "activate" /\ UNCHANGED <<op, result, l>>
    BY <1>1, <1>3, FillKeepsType DEF CallState, Points, Routing, Progress, Fresh, Copying,
       PutPoints, WritePoints, CompactPoints
  <1> QED BY <1>2, <1>3 DEF CheckRoom, Goto, Keep

\* Choosing the page to compact keeps the flash and the call typed.
LEMMA CompactKeepsTypes ==
  ASSUME FlashTypeOK, CallState, pc \in {"activate", "scrub"}, op.call \in {"put", "scrub"},
         op.call = "put" => pc = "activate",
         NEW t \in Page, NEW n \in 0 .. 2, Compact(t, n)
  PROVE  FlashTypeOK' /\ CallState'
  <1>1. PICK v \in Page :
          /\ l' = [l EXCEPT !.target = t, !.compacting = TRUE, !.victim = v,
                            !.from = 0, !.to = 0, !.k = 0, !.tries = n]
          /\ pc' = "start" /\ UNCHANGED <<op, result>> /\ UNCHANGED flash
    BY DEF Compact, Goto, Keep
  <1>2. FlashTypeOK'
    BY <1>1 DEF flash, FlashTypeOK
  <1>3. t \in 0 .. NPages /\ v \in 0 .. NPages
    BY FormatAssumption DEF Page
  <1>4. [l EXCEPT !.target = t] \in Locals
    BY <1>3 DEF CallState, Locals
  <1>5. [l EXCEPT !.target = t, !.compacting = TRUE] \in Locals
    BY <1>4 DEF Locals
  <1>6. [l EXCEPT !.target = t, !.compacting = TRUE, !.victim = v] \in Locals
    BY <1>3, <1>5 DEF Locals
  <1>7. [l EXCEPT !.target = t, !.compacting = TRUE, !.victim = v,
                  !.from = 0, !.to = 0] \in Locals
    BY <1>6 DEF Locals
  <1>8. l' \in Locals
    BY <1>1, <1>7 DEF Locals
  <1>9. l'.ns = l.ns /\ l'.offset = l.offset /\ l'.compacting = TRUE /\ l'.k = 0
    BY <1>1 DEF CallState, Locals
  <1> QED BY <1>1, <1>2, <1>8, <1>9 DEF CallState, Points, Routing, Progress, Fresh, Copying,
           PutPoints, WritePoints, CompactPoints

\* Choosing the page to start keeps the flash and the call typed.
LEMMA ActivatePageKeepsTypes ==
  ASSUME FlashTypeOK, CallState, ActivatePage
  PROVE  FlashTypeOK' /\ CallState'
  <1>1. pc = "activate" /\ op.call = "put" /\ l.tries \in 0 .. 2
    BY DEF ActivatePage, CallState, Routing, PutPoints, Locals
  <1>2. CASE Fail("BufferTooSmall") /\ UNCHANGED flash
    BY <1>2, FailKeepsCall DEF flash, FlashTypeOK
  <1>3. CASE l.tries > 0 /\ \E t \in FreePages : Compact(t, l.tries - 1)
    <2>1. l.tries - 1 \in 0 .. 2
      BY <1>1, <1>3
    <2> QED BY <1>1, <1>3, <2>1, CompactKeepsTypes DEF FreePages
  <1>4. CASE /\ l.tries > 0
             /\ \E t \in FreePages :
                  l' = [l EXCEPT !.target = t, !.compacting = FALSE, !.tries = @ - 1]
             /\ pc' = "start" /\ UNCHANGED <<op, result>> /\ UNCHANGED flash
    <2>1. PICK t \in FreePages :
            l' = [l EXCEPT !.target = t, !.compacting = FALSE, !.tries = l.tries - 1]
      BY <1>4
    <2>2. t \in 0 .. NPages /\ l.tries - 1 \in 0 .. 2
      BY <1>1, <1>4, FormatAssumption DEF FreePages, Page
    <2>3. [l EXCEPT !.target = t] \in Locals
      BY <2>2 DEF CallState, Locals
    <2>4. l' \in Locals /\ l'.ns = l.ns /\ l'.offset = l.offset /\ l'.compacting = FALSE
      BY <2>1, <2>2, <2>3 DEF CallState, Locals
    <2> QED BY <1>1, <1>4, <2>4 DEF flash, FlashTypeOK, CallState, Points, Routing, Progress,
             Fresh, Copying, PutPoints, WritePoints, CompactPoints
  <1> QED BY <1>2, <1>3, <1>4 DEF ActivatePage, Goto, Keep

\* Erasing the page to start keeps the flash and the call typed.
LEMMA StartErasesTypes ==
  ASSUME FlashTypeOK, CallState, StartErase
  PROVE  FlashTypeOK' /\ CallState'
  <1>1. /\ ErasePage(l.target) /\ UNCHANGED <<pc, op, result, l>> /\ pc = "start"
    BY DEF StartErase, Keep
  <1> QED BY <1>1, EraseKeepsType DEF CallState, Routing, Progress, Fresh, Copying

\* Writing the header of a page keeps the flash and the call typed.
LEMMA StartHeaderKeepsTypes ==
  ASSUME FlashTypeOK, CallState, StartHeader
  PROVE  FlashTypeOK' /\ CallState'
  <1>1. /\ pc = "start" /\ pc' = IF l.compacting THEN "copy" ELSE "check"
        /\ UNCHANGED <<bits, cell, op, result, l>>
        /\ \E n \in NextSeqs : hdr' = [hdr EXCEPT ![l.target] = [state |-> "active", seq |-> n]]
    BY DEF StartHeader, Goto, Keep
  <1>2. \A n \in NextSeqs : n \in Nat
    BY NextSeqIsNew DEF FlashTypeOK
  <1>3. FlashTypeOK'
    <2>1. PICK n \in Nat : hdr' = [hdr EXCEPT ![l.target] = [state |-> "active", seq |-> n]]
      BY <1>1, <1>2
    <2>2. hdr' \in [Page -> [state : PageStates, seq : Nat]]
      BY <2>1 DEF FlashTypeOK, PageStates
    <2> QED BY <1>1, <2>2 DEF FlashTypeOK
  <1>4. CASE l.compacting /\ pc' = "copy"
    <2>1. l.k = 0
      BY <1>1, <1>4 DEF CallState, Copying
    <2> QED BY <1>1, <1>3, <1>4, <2>1 DEF CallState, Points, Routing, Progress, Fresh, Copying,
             PutPoints, WritePoints, CompactPoints
  <1>5. CASE ~l.compacting /\ pc' = "check"
    BY <1>1, <1>3, <1>5 DEF CallState, Points, Routing, Progress, Fresh, Copying,
       PutPoints, WritePoints, CompactPoints
  <1> QED BY <1>1, <1>4, <1>5

\* Copying an entry keeps the flash and the call typed.
LEMMA CopyCellKeepsTypes ==
  ASSUME FlashTypeOK, CallState, Reserved, CopyCell
  PROVE  FlashTypeOK' /\ CallState'
  <1>1. /\ pc = "copy" /\ pc' = "copymark" /\ UNCHANGED <<hdr, bits, op, result>>
        /\ l.victim \in Page /\ l.k \in Nat /\ l.from \in Nat /\ l.span \in Nat
    BY DEF CopyCell, Goto, Keep, Reserved, CompactPoints, CallState, Locals
  <1>2. PICK s \in Slot :
          /\ IF l.k = 0
               THEN \E n \in SpansAt(l.victim, s) : l' = [l EXCEPT !.from = s, !.span = n]
               ELSE s = l.from /\ l' = l
          /\ ProgramCell(l.target, l.to + l.k, cell[l.victim][s + l.k])
    BY DEF CopyCell
  <1>3. \A n \in SpansAt(l.victim, s) : n \in Nat \ {0} /\ s + n <= Slots
    <2>1. cell[l.victim][s] \in Cell
      BY <1>1 DEF FlashTypeOK
    <2>2. SpanOf(cell[l.victim][s]) \in Nat \ {0}
      BY <2>1, CellFields
    <2> QED BY <2>2, FormatAssumption DEF SpansAt, Slot
  <1>4. /\ l' \in Locals /\ l'.ns = l.ns /\ l'.offset = l.offset /\ l'.k = l.k
        /\ l'.from \in Slot /\ l'.k < l'.span /\ l'.from + l'.span <= Slots
        /\ s + l.k \in Slot
    <2>1. CASE l.k = 0
      <3>1. PICK n \in SpansAt(l.victim, s) : l' = [l EXCEPT !.from = s, !.span = n]
        BY <1>2, <2>1
      <3>2. n \in Nat /\ n > 0 /\ s + n <= Slots /\ s \in Nat
        BY <1>3 DEF Slot
      <3>3. l' \in Locals
        BY <3>1, <3>2 DEF CallState, Locals
      <3>4. l'.from = s /\ l'.span = n /\ l'.k = l.k /\ l'.ns = l.ns /\ l'.offset = l.offset
        BY <3>1 DEF CallState, Locals
      <3>5. s + l.k = s /\ l.k < n
        BY <2>1, <3>2
      <3>6. l'.from \in Slot /\ l'.k < l'.span /\ l'.from + l'.span <= Slots
        BY <3>2, <3>4, <3>5
      <3> QED BY <3>3, <3>4, <3>5, <3>6
    <2>2. CASE l.k > 0
      <3>1. l' = l /\ s = l.from
        <4>1. l.k # 0
          BY <1>1, <2>2
        <4> QED BY <1>2, <4>1, Zenon
      <3>2. l.from \in Slot /\ l.k < l.span /\ l.from + l.span <= Slots
        BY <1>1, <2>2 DEF CallState, Copying
      <3>3. s + l.k \in Slot
        BY <1>1, <3>1, <3>2, FormatAssumption DEF Slot
      <3> QED BY <3>1, <3>2, <3>3 DEF CallState
    <2> QED BY <1>1, <2>1, <2>2
  <1>5. FlashTypeOK'
    <2>1. cell[l.victim][s + l.k] \in Cell
      BY <1>1, <1>4 DEF FlashTypeOK
    <2>2. cell' \in [Page -> [Slot -> Cell]]
      BY <1>2, <2>1, ProgramKeepsType DEF FlashTypeOK
    <2> QED BY <1>1, <2>2 DEF FlashTypeOK
  <1> QED BY <1>1, <1>4, <1>5 DEF CallState, Points, Routing, Progress, Fresh, Copying,
           PutPoints, WritePoints, CompactPoints

\* Marking a copied entry keeps the flash and the call typed.
LEMMA CopyMarkKeepsTypes ==
  ASSUME FlashTypeOK, CallState, CopyMark
  PROVE  FlashTypeOK' /\ CallState'
  <1>1. /\ pc = "copymark" /\ pc' = "copy" /\ UNCHANGED <<hdr, cell, op, result>>
        /\ Mark(l.target, l.to + l.k, "written")
        /\ l' = IF l.k + 1 < l.span
                  THEN [l EXCEPT !.k = l.k + 1]
                  ELSE [l EXCEPT !.k = 0, !.from = l.from + l.span, !.to = l.to + l.span]
        /\ l.k \in Nat /\ l.from \in Slot /\ l.from \in Nat /\ l.to \in Nat /\ l.span \in Nat
        /\ l.from + l.span <= Slots
    BY DEF CopyMark, Goto, Keep, CallState, Copying, Locals
  <1>2. FlashTypeOK'
    BY <1>1, MarkKeepsType DEF FlashTypeOK, EntryStates
  <1>3. CASE l.k + 1 < l.span
    <2>1. l' = [l EXCEPT !.k = l.k + 1] /\ l.k + 1 \in Nat
      BY <1>1, <1>3
    <2>2. /\ l' \in Locals /\ l'.ns = l.ns /\ l'.offset = l.offset /\ l'.k = l.k + 1
          /\ l'.from = l.from /\ l'.span = l.span
      BY <2>1 DEF CallState, Locals
    <2> QED BY <1>1, <1>2, <1>3, <2>2 DEF CallState, Points, Routing, Progress, Fresh, Copying,
             PutPoints, WritePoints, CompactPoints
  <1>4. CASE ~(l.k + 1 < l.span)
    <2>1. /\ l' = [l EXCEPT !.k = 0, !.from = l.from + l.span, !.to = l.to + l.span]
          /\ l.from + l.span \in Nat /\ l.to + l.span \in Nat
      BY <1>1, <1>4
    <2>2. [l EXCEPT !.k = 0] \in Locals
      BY DEF CallState, Locals
    <2>3. [l EXCEPT !.k = 0, !.from = l.from + l.span] \in Locals
      BY <2>1, <2>2 DEF Locals
    <2>4. l' \in Locals /\ l'.ns = l.ns /\ l'.offset = l.offset /\ l'.k = 0
      BY <2>1, <2>3 DEF CallState, Locals
    <2> QED BY <1>1, <1>2, <2>4 DEF CallState, Points, Routing, Progress, Fresh, Copying,
             PutPoints, WritePoints, CompactPoints
  <1> QED BY <1>3, <1>4

\* Ending a copy keeps the flash and the call typed.
LEMMA CopyDoneKeepsTypes ==
  ASSUME FlashTypeOK, CallState, CopyDone
  PROVE  FlashTypeOK' /\ CallState'
  BY DEF CopyDone, Goto, Keep, flash, FlashTypeOK, CallState, Points, Routing, Progress, Fresh,
     Copying, PutPoints, WritePoints, CompactPoints

\* Erasing the compacted page keeps the flash and the call typed.
LEMMA ReclaimKeepsTypes ==
  ASSUME FlashTypeOK, CallState, Reclaim
  PROVE  FlashTypeOK' /\ CallState'
  <1>1. /\ pc = "reclaim" /\ pc' = IF op.call = "scrub" THEN "scrub" ELSE "check"
        /\ ErasePage(l.victim) /\ UNCHANGED <<op, result, l>>
    BY DEF Reclaim, Goto, Keep
  <1> QED BY <1>1, EraseKeepsType DEF CallState, Points, Routing, Progress, Fresh, Copying,
           PutPoints, WritePoints, CompactPoints

\* Going on to the next chunk keeps the flash and the call typed.
LEMMA ChunkLoopKeepsTypes ==
  ASSUME FlashTypeOK, CallState, ChunkLoop
  PROVE  FlashTypeOK' /\ CallState'
  <1>1. pc = "chunk" /\ UNCHANGED flash
    BY DEF ChunkLoop
  <1>2. FlashTypeOK'
    BY <1>1 DEF flash, FlashTypeOK
  <1>3. CASE l' = [l EXCEPT !.want = "chunk"] /\ pc' = "room" /\ UNCHANGED <<op, result>>
    <2>1. l' \in Locals /\ l'.ns = l.ns /\ l'.offset = l.offset
      BY <1>3 DEF CallState, Locals
    <2> QED BY <1>1, <1>2, <1>3, <2>1 DEF CallState, Points, Routing, Progress, Fresh, Copying,
             PutPoints, WritePoints, CompactPoints
  <1>4. CASE Fail("InvalidFormat")
    BY <1>2, <1>4, FailKeepsCall
  <1> QED BY <1>3, <1>4 DEF ChunkLoop, Goto, Keep

\* Where an entry is written: the put, its namespace and what is left of its value.
LEMMA WriteFields ==
  ASSUME CallState, Reserved, pc \in WritePoints
  PROVE  /\ op.call = "put" /\ op.ns \in Namespaces /\ op.name \in Names /\ op.value \in Values
         /\ l.ns \in 1 .. MaxNamespaces /\ l.offset \in Nat /\ l.k \in Nat
         /\ ChunkSize \in Nat /\ l.offset + ChunkSize <= Size[op.value]
  <1>1. op.call = "put" /\ op.ns \in Namespaces /\ op.name \in Names /\ op.value \in Values
    BY OpFields DEF CallState, Routing, PutPoints
  <1>2. /\ l.ns \in 1 .. MaxNamespaces /\ l.offset \in Nat /\ l.k \in Nat
        /\ l.offset <= Size[op.value] /\ Size[op.value] \in Nat
    BY <1>1, OpFields DEF CallState, Progress, PutPoints, Locals
  <1>3. l.at[2] \in Slot
    BY DEF Reserved, Place
  <1> QED BY <1>1, <1>2, <1>3, FormatAssumption DEF ChunkSize, Smaller, Remaining, TailRoom, Slot

\* Writing a data entry keeps the flash and the call typed.
LEMMA DataWriteKeepsTypes ==
  ASSUME FlashTypeOK, CallState, Reserved, DataWrite
  PROVE  FlashTypeOK' /\ CallState'
  <1>1. /\ pc = "data" /\ pc' = "datamark" /\ UNCHANGED <<hdr, bits, op, result, l>>
        /\ ProgramCell(l.at[1], l.at[2] + 1 + l.k, Data(op.value, l.offset + l.k))
    BY DEF DataWrite, Goto, Keep
  <1>2. Data(op.value, l.offset + l.k) \in Cell
    <2>1. op.value \in Values /\ l.offset + l.k \in Nat
      BY <1>1, WriteFields DEF WritePoints
    <2> QED BY <2>1 DEF Data, Cell, DataCells
  <1>3. FlashTypeOK'
    BY <1>1, <1>2, ProgramKeepsType DEF FlashTypeOK
  <1> QED BY <1>1, <1>3 DEF CallState, Points, Routing, Progress, Fresh, Copying,
           PutPoints, WritePoints, CompactPoints

\* Marking a data entry keeps the flash and the call typed.
LEMMA DataMarkKeepsTypes ==
  ASSUME FlashTypeOK, CallState, DataMark
  PROVE  FlashTypeOK' /\ CallState'
  <1>1. /\ pc = "datamark" /\ pc' \in {"data", "entry"} /\ UNCHANGED <<hdr, cell, op, result>>
        /\ Mark(l.at[1], l.at[2] + 1 + l.k, "written")
        /\ l' = [l EXCEPT !.k = l.k + 1] /\ l.k + 1 \in Nat
    BY DEF DataMark, Goto, Keep, CallState, Locals
  <1>2. FlashTypeOK'
    BY <1>1, MarkKeepsType DEF FlashTypeOK, EntryStates
  <1>3. l' \in Locals /\ l'.ns = l.ns /\ l'.offset = l.offset
    BY <1>1 DEF CallState, Locals
  <1> QED BY <1>1, <1>2, <1>3 DEF CallState, Points, Routing, Progress, Fresh, Copying,
           PutPoints, WritePoints, CompactPoints

\* Writing a header entry keeps the flash and the call typed.
LEMMA EntryWriteKeepsTypes ==
  ASSUME FlashTypeOK, CallState, Reserved, EntryWrite
  PROVE  FlashTypeOK' /\ CallState'
  <1>1. /\ pc = "entry" /\ pc' = "entrymark" /\ UNCHANGED <<hdr, bits, op, result, l>>
        /\ ProgramCell(l.at[1], l.at[2], EntryCell)
    BY DEF EntryWrite, Goto, Keep
  <1>2. EntryCell \in Cell
    <2>1. /\ op.ns \in Namespaces /\ op.name \in Names /\ op.value \in Values
          /\ l.ns \in 1 .. MaxNamespaces /\ l.offset \in Nat /\ ChunkSize \in Nat
          /\ Size[op.value] \in Nat
      BY <1>1, WriteFields, FormatAssumption DEF WritePoints
    <2>2. l.start \in {0, 1} /\ l.written \in Nat /\ l.want \in {"ns", "chunk", "idx"}
      BY DEF CallState, Locals
    <2>3. CASE l.want = "ns"
      <3>1. EntryCell = [kind |-> "ns", name |-> op.ns, index |-> l.ns]
        BY <2>3 DEF EntryCell
      <3> QED BY <2>1, <3>1 DEF Cell, NamespaceCells
    <2>4. CASE l.want = "chunk"
      <3>1. EntryCell = [kind |-> "chunk", ns |-> l.ns, name |-> op.name, start |-> l.start,
                         number |-> l.written, size |-> ChunkSize, value |-> op.value,
                         offset |-> l.offset]
        BY <2>4 DEF EntryCell
      <3> QED BY <2>1, <2>2, <3>1 DEF Cell, ChunkCells
    <2>5. CASE l.want = "idx"
      <3>1. EntryCell = [kind |-> "idx", ns |-> l.ns, name |-> op.name, start |-> l.start,
                         count |-> l.written, size |-> Size[op.value]]
        BY <2>5 DEF EntryCell
      <3> QED BY <2>1, <2>2, <3>1 DEF Cell, IndexCells
    <2> QED BY <2>2, <2>3, <2>4, <2>5
  <1>3. FlashTypeOK'
    BY <1>1, <1>2, ProgramKeepsType DEF FlashTypeOK
  <1> QED BY <1>1, <1>3 DEF CallState, Points, Routing, Progress, Fresh, Copying,
           PutPoints, WritePoints, CompactPoints

\* Marking a header entry keeps the flash and the call typed.
LEMMA EntryMarkKeepsTypes ==
  ASSUME FlashTypeOK, CallState, Reserved, EntryMark
  PROVE  FlashTypeOK' /\ CallState'
  <1>1. /\ pc = "entrymark" /\ Mark(l.at[1], l.at[2], "written") /\ UNCHANGED <<hdr, cell>>
        /\ op.call = "put"
    BY DEF EntryMark, CallState, Routing, PutPoints, WritePoints
  <1>2. FlashTypeOK'
    BY <1>1, MarkKeepsType DEF FlashTypeOK, EntryStates
  <1>3. CASE pc' = "old" /\ UNCHANGED <<op, result, l>>
    BY <1>1, <1>2, <1>3 DEF CallState, Points, Routing, Progress, Fresh, Copying,
       PutPoints, WritePoints, CompactPoints
  <1>4. CASE /\ l' = [l EXCEPT !.written = @ + 1, !.offset = @ + ChunkSize,
                               !.want = IF Remaining > ChunkSize THEN "chunk" ELSE "idx"]
             /\ pc' \in {"fill", "room"} /\ UNCHANGED <<op, result>>
    <2>1. l.offset + ChunkSize \in Nat /\ l.offset + ChunkSize <= Size[op.value]
      BY <1>1, WriteFields DEF WritePoints
    <2>2. l.written + 1 \in Nat
      BY DEF CallState, Locals
    <2>3. [l EXCEPT !.written = l.written + 1] \in Locals
      BY <2>2 DEF CallState, Locals
    <2>4. [l EXCEPT !.written = l.written + 1, !.offset = l.offset + ChunkSize] \in Locals
      BY <2>1, <2>3 DEF Locals
    <2>5. PICK w \in {"chunk", "idx"} :
            l' = [l EXCEPT !.written = l.written + 1, !.offset = l.offset + ChunkSize, !.want = w]
      BY <1>4
    <2>6. l' \in Locals
      BY <2>4, <2>5 DEF Locals
    <2>7. l'.ns = l.ns /\ l'.offset = l.offset + ChunkSize
      BY <2>5 DEF CallState, Locals
    <2> QED BY <1>1, <1>2, <1>4, <2>1, <2>6, <2>7 DEF CallState, Points, Routing, Progress,
             Fresh, Copying, PutPoints, WritePoints, CompactPoints
  <1>5. CASE l' = [l EXCEPT !.outcome = "Ok"] /\ pc' = "sweep" /\ UNCHANGED <<op, result>>
    <2>1. l' \in Locals /\ l'.outcome = "Ok"
      BY <1>5 DEF CallState, Locals
    <2> QED BY <1>1, <1>2, <1>5, <2>1 DEF CallState, Points, Routing, Progress, Fresh, Copying,
             PutPoints, WritePoints, CompactPoints
  <1>6. CASE Retire(l.ns, l.old.place, l.oldCell)
    <2>1. /\ l.ns \in 0 .. MaxNamespaces /\ l.oldCell \in Cell
          /\ l.old.place \in (0 .. NPages) \X (0 .. Slots)
      BY DEF CallState, Locals
    <2> QED BY <1>1, <1>2, <1>6, <2>1, RetireKeepsCall
  <1> QED BY <1>3, <1>4, <1>5, <1>6 DEF EntryMark, Goto, Keep

\* Marking a page full keeps the flash and the call typed.
LEMMA FillKeepsTypes ==
  ASSUME FlashTypeOK, CallState, Reserved, Fill
  PROVE  FlashTypeOK' /\ CallState'
  <1>1. /\ pc = "fill" /\ pc' \in {"chunk", "room"} /\ FillPage(l.at[1]) /\ l.at[1] \in Page
        /\ UNCHANGED <<op, result, l>>
    BY DEF Fill, Goto, Keep, Reserved, WritePoints, ActivePages
  <1> QED BY <1>1, FillKeepsType DEF CallState, Points, Routing, Progress, Fresh, Copying,
           PutPoints, WritePoints, CompactPoints

\* Erasing an entry keeps the flash and the call typed.
LEMMA EraseMarkKeepsTypes ==
  ASSUME FlashTypeOK, CallState, EraseMark
  PROVE  FlashTypeOK' /\ CallState'
  <1>1. /\ pc = "erasespan" /\ pc' \in {"erasespan", "sweep"}
        /\ UNCHANGED <<hdr, cell, op, result>>
        /\ Mark(l.at[1], l.at[2] + l.k, "erased")
        /\ l' = [l EXCEPT !.k = l.k + 1] /\ l.k + 1 \in Nat
    BY DEF EraseMark, Goto, Keep, CallState, Locals
  <1>2. FlashTypeOK'
    BY <1>1, MarkKeepsType DEF FlashTypeOK, EntryStates
  <1>3. l' \in Locals /\ l'.outcome = l.outcome
    BY <1>1 DEF CallState, Locals
  <1> QED BY <1>1, <1>2, <1>3 DEF CallState, Points, Routing, Progress, Fresh, Copying,
           PutPoints, WritePoints, CompactPoints

\* Sweeping the other chunks keeps the flash and the call typed.
LEMMA SweepKeepsTypes ==
  ASSUME FlashTypeOK, CallState, Sweep
  PROVE  FlashTypeOK' /\ CallState'
  <1> DEFINE x == FindChunk[Headers(bits)][<<l.ns, op.name>>][<<l.sweep.start, l.sweep.done>>]
  <1>1. /\ pc = "sweep" /\ UNCHANGED flash /\ op.call \in {"put", "remove"}
        /\ l.outcome # "open" /\ op.name \in Names /\ l.ns \in Nat
        /\ l.sweep \in [start : {0, 1}, count : Nat, done : Nat]
        /\ l.outcome \in {"open", "Ok", "BufferTooSmall", "InvalidFormat", "Flash"}
    BY OpFields, FormatAssumption DEF Sweep, CallState, Routing, Locals
  <1>2. FlashTypeOK'
    BY <1>1 DEF flash, FlashTypeOK
  <1>3. CASE Answer(l.outcome) \/ Answer("Corrupt")
    BY <1>1, <1>2, <1>3, AnswerKeepsCall DEF Results
  <1>4. [l.sweep EXCEPT !.done = l.sweep.done + 1] \in [start : {0, 1}, count : Nat, done : Nat]
    BY <1>1
  <1>5. [l EXCEPT !.sweep.done = @ + 1] \in Locals /\ [l EXCEPT !.sweep.done = @ + 1].outcome = l.outcome
    BY <1>4 DEF CallState, Locals
  <1>6. CASE l' = [l EXCEPT !.sweep.done = @ + 1] /\ UNCHANGED <<pc, op, result>>
    BY <1>1, <1>2, <1>5, <1>6 DEF CallState, Points, Routing, Progress, Fresh, Copying,
       PutPoints, WritePoints, CompactPoints
  <1>7. CASE /\ x.status = "found" /\ pc' = "erasespan" /\ UNCHANGED <<op, result>>
             /\ l' = [l EXCEPT !.sweep.done = @ + 1, !.at = x.place, !.k = 0,
                               !.span = SpanOf(CellAt(x.place))]
    <2>1. <<l.ns, op.name>> \in Nat \X Names /\ <<l.sweep.start, l.sweep.done>> \in {0, 1} \X Nat
      BY <1>1
    <2>2. PICK y \in Place : x = Found(y)
      BY <1>7, <2>1, ChunkFound, HeadersAreVisits
    <2> HIDE DEF x
    <2>3. x.place \in (0 .. NPages) \X (0 .. Slots) /\ SpanOf(CellAt(x.place)) \in Nat
      BY <2>2, FoundPlace, PlaceCell, CellFields
    <2>4. [l EXCEPT !.sweep.done = @ + 1, !.at = x.place] \in Locals
      BY <1>5, <2>3 DEF Locals
    <2>5. [l EXCEPT !.sweep.done = @ + 1, !.at = x.place, !.k = 0] \in Locals
      BY <2>4 DEF Locals
    <2>6. l' \in Locals
      BY <1>7, <2>3, <2>5 DEF Locals
    <2>7. l'.outcome = l.outcome
      BY <1>7 DEF CallState, Locals
    <2> QED BY <1>1, <1>2, <1>7, <2>6, <2>7 DEF CallState, Points, Routing, Progress, Fresh,
             Copying, PutPoints, WritePoints, CompactPoints
  <1> HIDE DEF x
  <1> QED BY <1>3, <1>6, <1>7 DEF Sweep, Goto, Keep, x

\* Scrubbing keeps the flash and the call typed.
LEMMA ScrubKeepsTypes ==
  ASSUME FlashTypeOK, CallState, Scrub
  PROVE  FlashTypeOK' /\ CallState'
  <1>1. pc = "scrub" /\ op.call = "scrub"
    BY DEF Scrub, CallState, Routing
  <1>2. CASE \E a \in {"Ok", "BufferTooSmall"} : Answer(a) /\ UNCHANGED flash
    BY <1>2, AnswerKeepsCall DEF Results, flash, FlashTypeOK
  <1>3. CASE (\E p \in ActivePages : FillPage(p)) /\ UNCHANGED <<pc, op, result, l>>
    BY <1>3, FillKeepsType DEF ActivePages, CallState, Routing, Progress, Fresh, Copying
  <1>4. CASE \E t \in Page : Compact(t, 0)
    BY <1>1, <1>4, CompactKeepsTypes
  <1> QED BY <1>2, <1>3, <1>4 DEF Scrub, Keep

----------------------------------------------------------------------------
\* A step of the writer keeps the types.
LEMMA WriterKeepsTypes ==
  ASSUME FlashTypeOK, CallState, Pages, Writer
  PROVE  FlashTypeOK' /\ CallState'
  BY PutBeginKeepsTypes, PutFindOldKeepsTypes, RemoveBeginKeepsTypes, PageWithRoomKeepsTypes,
     CheckRoomKeepsTypes, ActivatePageKeepsTypes, StartErasesTypes, StartHeaderKeepsTypes,
     CopyCellKeepsTypes, CopyMarkKeepsTypes, CopyDoneKeepsTypes, ReclaimKeepsTypes,
     ChunkLoopKeepsTypes, DataWriteKeepsTypes, DataMarkKeepsTypes, EntryWriteKeepsTypes,
     EntryMarkKeepsTypes, FillKeepsTypes, EraseMarkKeepsTypes, SweepKeepsTypes, ScrubKeepsTypes
  DEF Writer, Pages

\* Every image the partition may start from satisfies the invariant.
LEMMA InitInv == Init => IInv
  <1> SUFFICES ASSUME Init PROVE IInv
    OBVIOUS
  <1>1. PICK f \in Images : hdr = f.hdr /\ bits = f.bits /\ cell = f.cell
    BY DEF Init
  <1>2. ImageOK(f)
    BY ImagesAssumption
  <1>3. FlashTypeOK
    BY <1>1, <1>2 DEF ImageOK, FlashTypeOK
  <1>4. PageDiscipline
    BY <1>1, <1>2 DEF ImageOK, PageDiscipline, DataPages, ActivePages
  <1>5. pc = "idle" /\ op = [call |-> "scrub"] /\ result = "Ok" /\ l = NoLocals
    BY DEF Init
  <1>6. Pages
    BY <1>3, <1>4, <1>5 DEF Pages, FlashTypeOK, HeaderState, Reserved, WritePoints, CompactPoints
  <1>7. CallState
    BY <1>5, NoLocalsTyped DEF CallState, Points, Calls, Results, Routing, Progress, Fresh, Copying,
       PutPoints, WritePoints, CompactPoints
  <1>8. bound \in BoundType
    BY DEF Init, BoundType
  <1> QED BY <1>3, <1>6, <1>7, <1>8 DEF IInv

\* A caller that starts a call keeps the invariant.
LEMMA CallInv ==
  ASSUME FlashTypeOK, CallState, Pages, bound \in BoundType, NEW c \in Calls, Call(c)
  PROVE  FlashTypeOK' /\ CallState' /\ Pages' /\ bound' \in BoundType
  <1>1. /\ pc = "idle" /\ op' = c /\ result' = "busy" /\ UNCHANGED <<flash, l>>
        /\ pc' = IF c.call = "scrub" THEN "scrub" ELSE "begin"
        /\ bound' = [bound EXCEPT !.calls = @ + 1]
    BY DEF Call, Goto
  <1>2. FlashTypeOK' /\ Pages'
    BY <1>1, ElsewhereKeepsPages DEF flash, FlashTypeOK
  <1>3. CallState'
    BY <1>1 DEF CallState, Points, Results, Routing, Progress, Fresh, Copying,
       PutPoints, WritePoints, CompactPoints
  <1>4. bound' \in BoundType
    BY <1>1 DEF BoundType
  <1> QED BY <1>2, <1>3, <1>4

\* A power cut between any two flash operations keeps the invariant.
LEMMA CrashInv ==
  ASSUME FlashTypeOK, CallState, Pages, bound \in BoundType, Crash
  PROVE  FlashTypeOK' /\ CallState' /\ Pages' /\ bound' \in BoundType
  <1>1. /\ pc' = "idle" /\ op' = op /\ result' = "lost" /\ l' = NoLocals /\ UNCHANGED flash
        /\ bound' = [bound EXCEPT !.crashes = @ + 1]
    BY DEF Crash, Goto
  <1>2. FlashTypeOK' /\ Pages'
    BY <1>1, ElsewhereKeepsPages DEF flash, FlashTypeOK
  <1>3. CallState'
    BY <1>1, NoLocalsTyped DEF CallState, Points, Results, Routing, Progress, Fresh, Copying,
       PutPoints, WritePoints, CompactPoints
  <1>4. bound' \in BoundType
    BY <1>1 DEF BoundType
  <1> QED BY <1>2, <1>3, <1>4

\* A flash operation that fails keeps the invariant.
LEMMA FaultInv ==
  ASSUME FlashTypeOK, CallState, Pages, bound \in BoundType, Fault
  PROVE  FlashTypeOK' /\ CallState' /\ Pages' /\ bound' \in BoundType
  <1>1. Fail("Flash") /\ UNCHANGED flash /\ bound' = [bound EXCEPT !.faults = @ + 1]
    BY DEF Fault
  <1>2. FlashTypeOK' /\ Pages'
    BY <1>1, FailKeepsPages DEF flash, FlashTypeOK
  <1>3. CallState'
    BY <1>1, FailKeepsCall
  <1>4. bound' \in BoundType
    BY <1>1 DEF BoundType
  <1> QED BY <1>2, <1>3, <1>4

\* Every step keeps the invariant.
LEMMA NextInv == IInv /\ [Next]_vars => IInv'
  <1> SUFFICES ASSUME FlashTypeOK, CallState, Pages, bound \in BoundType, [Next]_vars
               PROVE  FlashTypeOK' /\ CallState' /\ Pages' /\ bound' \in BoundType
    BY DEF IInv
  <1>1. CASE Writer /\ UNCHANGED bound
    BY <1>1, WriterKeepsTypes, WriterKeepsPages DEF CallState
  <1>2. CASE \E c \in Calls : Call(c)
    BY <1>2, CallInv
  <1>3. CASE Crash
    BY <1>3, CrashInv
  <1>4. CASE Fault
    BY <1>4, FaultInv
  <1>5. CASE UNCHANGED vars
    BY <1>5 DEF vars, FlashTypeOK, CallState, Routing, Progress, Fresh, Copying, Pages,
       PageDiscipline, Reserved, DataPages, ActivePages, FreePages
  <1> QED BY <1>1, <1>2, <1>3, <1>4, <1>5 DEF Next

\* IInv is invariant: what TypeOK and PageDiscipline rest on.
THEOREM InductiveInvariant == Spec => []IInv
  BY InitInv, NextInv, PTL DEF Spec

\* Type correctness of the NVS writer, for every partition size and every image ESP-IDF or
\* this code may have left.
THEOREM TypeCorrect == Spec => []TypeOK
  <1>1. IInv => TypeOK
    BY DEF IInv, TypeOK, CallState, BoundType
  <1> QED BY <1>1, InductiveInvariant, PTL

\* At every instant, power cuts and failed flash operations included, sequence numbers order
\* the data pages and the active page, if there is one, is the newest of them.
THEOREM PagesOrdered == Spec => []PageDiscipline
  <1>1. IInv => PageDiscipline
    BY DEF IInv, Pages
  <1> QED BY <1>1, InductiveInvariant, PTL
=============================================================================
